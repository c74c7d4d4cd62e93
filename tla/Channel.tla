------------------------------- MODULE Channel -------------------------------
(***************************************************************************)
(* One payment channel between two nodes, src/channel/channel.go, as both  *)
(* nodes run it: each node keeps its own Channel, with OurState for its    *)
(* own end and PartnerState for the other's, and they exchange balance     *)
(* proofs over the network.  A node registers each message it creates on   *)
(* its own Channel before sending it (RegisterTransfer with itself as      *)
(* sender), and the partner registers it on arrival.                       *)
(*                                                                         *)
(* The end state (EndState: balance proof, lock tree, pending and          *)
(* unclaimed locks) lives outside src/ and follows section 4.2 of the     *)
(* specification.  Every lock carries one token unit; a lock tree is the   *)
(* set of lock hashes it holds (its root).  The transport delivers each    *)
(* direction in order and retransmits a message until it is accepted.      *)
(***************************************************************************)
EXTENDS Integers, Sequences, FiniteSets

CONSTANTS
    Nodes,              \* the two participants
    Deposit,            \* [Nodes -> Nat], ContractBalance at open
    LockIds,            \* lock secret hashes available to mediated transfers
    MaxDirect,          \* direct transfers explored
    LockLife,           \* a lock expires LockLife blocks after it is sent
    SettleTimeout,      \* c.SettleTimeout
    ForkConfirmNumber,  \* params.ForkConfirmNumber
    MaxBlock,           \* last block explored
    WithdrawAmount,     \* the amount a withdraw asks for
    MaxAttempts,        \* withdraws and cooperative settles explored
    NoLock,             \* model value: the lock field of a direct transfer
    NoNode,             \* model value: no closing participant yet
    Closers,            \* the nodes whose user calls Close in this model
    Reroutes            \* a lock's sender may learn its secret on the route
                        \* it tried after the receiver disposed of the lock

VARIABLES
    view,      \* view[n]: node n's Channel (state, OpenBlockNumber, both ends)
    net,       \* net[n]: the messages on the way to n, in order
    block,     \* the chain height, as every node sees it
    used,      \* used[l]: the expiration lock l was sent with, 0 while unsent
    knows,     \* knows[n]: the lock secrets n has learned
    disposed,  \* disposed[n]: the locks n gave up with AnnounceDisposed
    onchain,   \* lock -> block its secret was registered on chain, 0 if not
    seen,      \* seen[n]: registrations delivered to n (SecretRevealed)
    direct,    \* direct transfers made (bound)
    chain,     \* the channel on chain: open block, deposits, last withdraw or
               \* settle block, settled, the closer, the close block, the
               \* balance proofs submitted, the locks unlocked, and the nodes
               \* a ChannelClosed or BalanceProofUpdated event is yet to reach
    panicked,  \* the nodes whose dispatcher panicked
    attempts   \* withdraws and cooperative settles prepared (bound)

vars == <<view, net, block, used, knows, disposed, onchain, seen, direct,
         chain, panicked, attempts>>

Other(n) == CHOOSE o \in Nodes : o # n

\* the nodes whose dispatcher still runs
Live == Nodes \ panicked

\* a fresh EndState with its contract balance
NewEnd(dep) == [dep |-> dep, ta |-> 0, nonce |-> 0,
                locks |-> [l \in LockIds |-> "none"],
                exp |-> [l \in LockIds |-> 0]]

-----------------------------------------------------------------------------
(* EndState (specification section 4.2).                                   *)

\* the lock tree: the hashes of the end's pending and unclaimed locks
Tree(e) == {l \in LockIds : e.locks[l] # "none"}

\* amountLocked
Locked(e) == Cardinality(Tree(e))

\* balance_to: contract_balance - transferred_out + other.transferred_in
BalanceOf(e, o) == e.dep - e.ta + o.ta

\* distributable_to: what the end can still send
Distributable(e, o) == BalanceOf(e, o) - Locked(e)

\* (mutant: a lock removable already at expiration + ForkConfirmNumber)
TryRemoveHashLockOffByOne(e, l, mustExpired) ==
    /\ e.locks[l] = "pending"
    /\ mustExpired => block >= e.exp[l] + ForkConfirmNumber

\* TryRemoveHashLock: the lock must be held with its secret unknown and,
\* for a RemoveExpiredHashlockTransfer, expired ForkConfirmNumber blocks ago
TryRemoveHashLock(e, l, mustExpired) ==
    /\ e.locks[l] = "pending"
    /\ mustExpired => block > e.exp[l] + ForkConfirmNumber

\* RegisterSecret / RegisterRevealedSecretHash on one end: pending -> unclaimed
RegisterSecretOn(e, l) ==
    [e EXCEPT !.locks[l] = IF @ = "pending" THEN "unclaimed" ELSE @]

-----------------------------------------------------------------------------
(* Messages.  A balance proof carries the sender's new nonce, transferred  *)
(* amount and lock tree, and the channel's OpenBlockNumber.                *)

BP(v, s, type, l, ta, tree) ==
    [type |-> type, from |-> s, lock |-> l, exp |-> block + LockLife,
     open |-> v.open, nonce |-> v.ends[s].nonce + 1, ta |-> ta, tree |-> tree,
     bal |-> <<0, 0>>, amt |-> 0]

\* AnnounceDisposed, which is no balance proof
Disposed(v, r, l) ==
    [type |-> "Disposed", from |-> r, lock |-> l, exp |-> 0, open |-> v.open,
     nonce |-> 0, ta |-> 0, tree |-> {}, bal |-> <<0, 0>>, amt |-> 0]

\* WithdrawRequest/Response, SettleRequest/Response: the balances of the
\* first and second participant, and the amount to withdraw
SettleData(v, s, type, bal, amt) ==
    [type |-> type, from |-> s, lock |-> NoLock, exp |-> 0, open |-> v.open,
     nonce |-> 0, ta |-> 0, tree |-> {}, bal |-> bal, amt |-> amt]

\* the envelope messages RegisterTransfer takes
BalanceProofTypes == {"Direct", "Mediated", "Unlock", "RemoveExpired", "DisposedResponse"}

\* GetSettleExpiration of an open channel
SettleExpiration == block + SettleTimeout

\* IsClosed
IsClosed(v) == v.state = "closed"

\* CanTransfer: only an open channel creates new transfers
CanTransfer(v) == v.state = "opened"

\* isChannelIdentifierValid and PreCheckRecievedTransfer: channel, nonce,
\* and a transferred amount that never decreases
PreCheckRecievedTransfer(v, m) ==
    /\ m.open = v.open
    /\ m.nonce = v.ends[m.from].nonce + 1
    /\ m.ta >= v.ends[m.from].ta

\* the checks of RegisterTransfer for each message type
ValidTransfer(v, m) ==
    LET f == v.ends[m.from]
        t == v.ends[Other(m.from)]
    IN  /\ ~IsClosed(v)
        /\ PreCheckRecievedTransfer(v, m)
        /\ CASE m.type = "Direct" ->
                    /\ 0 < m.ta - f.ta
                    /\ m.ta - f.ta <= Distributable(f, t)
                    /\ m.tree = Tree(f)
             [] m.type = "Mediated" ->
                    /\ 1 <= Distributable(f, t)
                    /\ m.exp <= SettleExpiration
                    /\ f.locks[m.lock] = "none"
                    /\ m.ta = f.ta
                    /\ m.tree = Tree(f) \cup {m.lock}
             [] m.type = "Unlock" ->
                    /\ f.locks[m.lock] # "none"
                    /\ m.ta = f.ta + 1
                    /\ m.tree = Tree(f) \ {m.lock}
             [] m.type = "RemoveExpired" ->
                    /\ m.ta = f.ta
                    /\ TryRemoveHashLock(f, m.lock, TRUE)
                    /\ m.tree = Tree(f) \ {m.lock}
             [] m.type = "DisposedResponse" ->
                    /\ m.ta = f.ta
                    /\ TryRemoveHashLock(f, m.lock, FALSE)
                    /\ m.tree = Tree(f) \ {m.lock}

\* the Channel after registering m: registerDirectTransfer,
\* registerMediatedMessage, registerSecretMessage, registerRemoveLock
Registered(v, m) ==
    LET f     == v.ends[m.from]
        locks == CASE m.type = "Direct"   -> f.locks
                   [] m.type = "Mediated" -> [f.locks EXCEPT ![m.lock] = "pending"]
                   [] OTHER               -> [f.locks EXCEPT ![m.lock] = "none"]
        exps  == IF m.type = "Mediated" THEN [f.exp EXCEPT ![m.lock] = m.exp]
                 ELSE f.exp
    IN  [v EXCEPT !.ends[m.from] = [f EXCEPT !.ta = m.ta, !.nonce = m.nonce,
                                              !.locks = locks, !.exp = exps]]

\* a node creates m, registers it on its own Channel and sends it
Send(s, m) ==
    /\ ValidTransfer(view[s], m)
    /\ view' = [view EXCEPT ![s] = Registered(view[s], m)]
    /\ net' = [net EXCEPT ![Other(s)] = Append(@, m)]

-----------------------------------------------------------------------------
Init ==
    /\ view = [n \in Nodes |-> [state |-> "opened", open |-> 1,
                                ends |-> [p \in Nodes |-> NewEnd(Deposit[p])]]]
    /\ net = [n \in Nodes |-> <<>>]
    /\ block = 1
    /\ used = [l \in LockIds |-> 0]
    /\ knows = [n \in Nodes |-> {}]
    /\ disposed = [n \in Nodes |-> {}]
    /\ onchain = [l \in LockIds |-> 0]
    /\ seen = [n \in Nodes |-> {}]
    /\ direct = 0
    /\ chain = [open |-> 1, dep |-> Deposit, at |-> 0, settled |-> FALSE,
                closer |-> NoNode, closedAt |-> 0,
                bp |-> [p \in Nodes |-> [nonce |-> 0, ta |-> 0, tree |-> {}]],
                unlocked |-> {}, closedTo |-> {}, updTo |-> {}]
    /\ panicked = {}
    /\ attempts = 0

\* CreateDirectTransfer of one unit
CreateDirectTransfer(s) ==
    LET v == view[s]
    IN  /\ CanTransfer(v)
        /\ direct < MaxDirect
        /\ 1 <= Distributable(v.ends[s], v.ends[Other(s)])
        /\ direct' = direct + 1
        /\ Send(s, BP(v, s, "Direct", NoLock, v.ends[s].ta + 1, Tree(v.ends[s])))
        /\ UNCHANGED <<block, used, knows, disposed, onchain, seen,
                       chain, panicked, attempts>>

\* CreateMediatedTransfer of one unit under a fresh lock hash l
CreateMediatedTransfer(s, l) ==
    LET v == view[s]
    IN  /\ CanTransfer(v)
        /\ used[l] = 0
        /\ 1 <= Distributable(v.ends[s], v.ends[Other(s)])
        /\ used' = [used EXCEPT ![l] = block + LockLife]
        /\ Send(s, BP(v, s, "Mediated", l, v.ends[s].ta, Tree(v.ends[s]) \cup {l}))
        /\ UNCHANGED <<block, knows, disposed, onchain, seen, direct,
                       chain, panicked, attempts>>

\* CreateUnlock: our lock whose secret we know becomes a transfer
CreateUnlock(s, l) ==
    LET v == view[s]
    IN  /\ ~IsClosed(v)
        /\ v.ends[s].locks[l] = "unclaimed"
        /\ Send(s, BP(v, s, "Unlock", l, v.ends[s].ta + 1, Tree(v.ends[s]) \ {l}))
        /\ UNCHANGED <<block, used, knows, disposed, onchain, seen, direct,
                       chain, panicked, attempts>>

\* CreateRemoveExpiredHashLockTransfer: our expired lock is taken out
CreateRemoveExpiredHashLockTransfer(s, l) ==
    LET v == view[s]
    IN  /\ ~IsClosed(v)
        /\ TryRemoveHashLock(v.ends[s], l, TRUE)
        /\ Send(s, BP(v, s, "RemoveExpired", l, v.ends[s].ta, Tree(v.ends[s]) \ {l}))
        /\ UNCHANGED <<block, used, knows, disposed, onchain, seen, direct,
                       chain, panicked, attempts>>

\* CreateAnnouceDisposed: the receiver of a lock gives it up, before it
\* knows the secret; RegisterAnnouceDisposed at the sender checks the lock
CreateAnnouceDisposed(r, l) ==
    LET v == view[r]
    IN  /\ TryRemoveHashLock(v.ends[Other(r)], l, FALSE)
        /\ l \notin knows[r] \cup disposed[r]
        /\ disposed' = [disposed EXCEPT ![r] = @ \cup {l}]
        /\ net' = [net EXCEPT ![Other(r)] = Append(@, Disposed(v, r, l))]
        /\ UNCHANGED <<view, block, used, knows, onchain, seen, direct,
                       chain, panicked, attempts>>

\* the lock sender answers with CreateAnnounceDisposedResponse; while it
\* cannot (RegisterAnnouceDisposed fails), the announcement waits
RegisterAnnouceDisposed(s) ==
    LET m == Head(net[s])
        v == view[s]
    IN  /\ net[s] # <<>>
        /\ m.type = "Disposed"
        /\ m.open = v.open
        /\ v.ends[s].locks[m.lock] = "pending"
        /\ ~IsClosed(v)
        /\ LET r == BP(v, s, "DisposedResponse", m.lock, v.ends[s].ta,
                       Tree(v.ends[s]) \ {m.lock})
           IN  /\ ValidTransfer(v, r)
               /\ view' = [view EXCEPT ![s] = Registered(v, r)]
               /\ net' = [net EXCEPT ![s] = Tail(@), ![Other(s)] = Append(@, r)]
        /\ UNCHANGED <<block, used, knows, disposed, onchain, seen, direct,
                       chain, panicked, attempts>>

\* an AnnounceDisposed that RegisterAnnouceDisposed refuses (the lock is
\* gone or its secret known) is answered with an error and dropped
RefuseAnnouceDisposed(s) ==
    LET m == Head(net[s])
    IN  /\ net[s] # <<>>
        /\ m.type = "Disposed"
        /\ ~(m.open = view[s].open /\ view[s].ends[s].locks[m.lock] = "pending")
        /\ net' = [net EXCEPT ![s] = Tail(@)]
        /\ UNCHANGED <<view, block, used, knows, disposed, onchain, seen, direct,
                       chain, panicked, attempts>>

\* RegisterTransfer on the receiving node; a message it refuses stays at
\* the head of the queue, as the sender keeps retransmitting it
RegisterTransfer(n) ==
    LET m == Head(net[n])
    IN  /\ net[n] # <<>>
        /\ m.type \in BalanceProofTypes
        /\ ValidTransfer(view[n], m)
        /\ view' = [view EXCEPT ![n] = Registered(view[n], m)]
        /\ net' = [net EXCEPT ![n] = Tail(@)]
        /\ knows' = IF m.type = "Unlock" THEN [knows EXCEPT ![n] = @ \cup {m.lock}]
                    ELSE knows
        /\ UNCHANGED <<block, used, disposed, onchain, seen, direct,
                       chain, panicked, attempts>>

\* RegisterSecret: n learns the secret of l (the receiver of the lock from
\* further along the path, the sender from the receiver's RevealSecret, or
\* the sender on the route it tried after accepting the receiver's
\* AnnounceDisposed) and marks the lock unclaimed on whichever end holds it;
\* a node that disposed of l never learns it off chain
RegisterSecret(n, l) ==
    LET v == view[n]
    IN  /\ used[l] # 0
        /\ l \notin knows[n] \cup disposed[n]
        /\ \/ v.ends[Other(n)].locks[l] # "none"
           \/ l \in knows[Other(n)]
           \/ /\ Reroutes
              /\ l \in disposed[Other(n)]
              /\ v.ends[n].locks[l] = "none"
        /\ knows' = [knows EXCEPT ![n] = @ \cup {l}]
        /\ view' = [view EXCEPT ![n].ends = [p \in Nodes |-> RegisterSecretOn(@[p], l)]]
        /\ UNCHANGED <<net, block, used, disposed, onchain, seen, direct,
                       chain, panicked, attempts>>

\* someone who knows the secret registers it in the secret registry
RegisterSecretOnChain(n, l) ==
    /\ l \in knows[n]
    /\ onchain[l] = 0
    /\ onchain' = [onchain EXCEPT ![l] = block]
    /\ UNCHANGED <<view, net, block, used, knows, disposed, seen, direct,
                       chain, panicked, attempts>>

\* the confirmed SecretRevealed event: RegisterRevealedSecretHash
SecretRevealDue(n, l) ==
    onchain[l] # 0 /\ l \notin seen[n] /\ block >= onchain[l] + ForkConfirmNumber

RegisterRevealedSecretHash(n, l) ==
    /\ SecretRevealDue(n, l)
    /\ seen' = [seen EXCEPT ![n] = @ \cup {l}]
    /\ knows' = [knows EXCEPT ![n] = @ \cup {l}]
    /\ view' = [view EXCEPT ![n].ends = [p \in Nodes |-> RegisterSecretOn(@[p], l)]]
    /\ UNCHANGED <<net, block, used, disposed, onchain, direct,
                       chain, panicked, attempts>>

-----------------------------------------------------------------------------
(* Withdraw and cooperative settle (specification section 4.3.5).  The     *)
(* service around the Channel (outside src/) prepares, sends the request   *)
(* once CanWithdrawOrCooperativeSettle holds and moves to Withdraw or      *)
(* CooperativeSettle; on a request it answers at once, and on a response   *)
(* it submits the transaction.                                             *)

\* p's balance on Channel v: EndState.Balance
Bal(v, p) == BalanceOf(v.ends[p], v.ends[Other(p)])

LocksOf(e, st) == {l \in LockIds : e.locks[l] = st}

\* hasAnyLock
HasAnyLock(v) == \E p \in Nodes : Tree(v.ends[p]) # {}

\* CanWithdrawOrCooperativeSettle, and the same test in CreateWithdrawRequest
\* and CreateCooperativeSettleRequest: our pending locks (tested twice; our
\* unclaimed locks never) and all of the partner's
CanWithdrawOrCooperativeSettle(v, n) ==
    /\ LocksOf(v.ends[n], "pending") = {}
    /\ Tree(v.ends[Other(n)]) = {}

\* the lock test of RegisterWithdrawRequest and RegisterCooperativeSettleRequest
\* at node n: all the partner's locks and our unclaimed ones, not our pending
RequestLocksFree(v, n) ==
    /\ Tree(v.ends[Other(n)]) = {}
    /\ LocksOf(v.ends[n], "unclaimed") = {}

PrepareForWithdraw(n) ==
    /\ view[n].state = "opened"
    /\ attempts < MaxAttempts
    /\ attempts' = attempts + 1
    /\ view' = [view EXCEPT ![n].state = "prepareForWithdraw"]
    /\ UNCHANGED <<net, block, used, knows, disposed, onchain, seen, direct,
                   chain, panicked>>

PrepareForCooperativeSettle(n) ==
    /\ view[n].state = "opened"
    /\ attempts < MaxAttempts
    /\ attempts' = attempts + 1
    /\ view' = [view EXCEPT ![n].state = "prepareForCooperativeSettle"]
    /\ UNCHANGED <<net, block, used, knows, disposed, onchain, seen, direct,
                   chain, panicked>>

\* ClosedBlock is set only with the Closed state, which the state test
\* already excludes
CancelWithdrawOrCooperativeSettle(n) ==
    /\ view[n].state \in {"prepareForWithdraw", "prepareForCooperativeSettle"}
    /\ view' = [view EXCEPT ![n].state = "opened"]
    /\ UNCHANGED <<net, block, used, knows, disposed, onchain, seen, direct,
                   chain, panicked, attempts>>

\* CreateWithdrawRequest: an amount above our balance makes the code
\* dereference a nil error value (channel.go:946) instead of refusing;
\* here the request is simply not created then
CreateWithdrawRequest(n) ==
    LET v == view[n]
    IN  /\ v.state = "prepareForWithdraw"
        /\ CanWithdrawOrCooperativeSettle(v, n)
        /\ WithdrawAmount <= Bal(v, n)
        /\ view' = [view EXCEPT ![n].state = "withdraw"]
        /\ net' = [net EXCEPT ![Other(n)] = Append(@,
                    SettleData(v, n, "WithdrawRequest", <<Bal(v, n), 0>>, WithdrawAmount))]
        /\ UNCHANGED <<block, used, knows, disposed, onchain, seen, direct,
                       chain, panicked, attempts>>

CreateCooperativeSettleRequest(n) ==
    LET v == view[n]
    IN  /\ v.state = "prepareForCooperativeSettle"
        /\ CanWithdrawOrCooperativeSettle(v, n)
        /\ view' = [view EXCEPT ![n].state = "cooperativeSettle"]
        /\ net' = [net EXCEPT ![Other(n)] = Append(@,
                    SettleData(v, n, "SettleRequest", <<Bal(v, n), Bal(v, Other(n))>>, 0))]
        /\ UNCHANGED <<block, used, knows, disposed, onchain, seen, direct,
                       chain, panicked, attempts>>

\* the contract takes a transaction for Channel v: same open block, and
\* neither closed nor settled
OpenOnChain(v) == chain.open = v.open /\ chain.closer = NoNode /\ ~chain.settled

\* the tests each Register* makes of a request or response at node n
AcceptWithdrawRequest(v, n, m) ==
    /\ m.open = v.open
    /\ Bal(v, m.from) = m.bal[1]
    /\ RequestLocksFree(v, n)

\* (mutant: the lock test of RegisterWithdrawRequest, roles swapped)
AcceptWithdrawResponseSwapped(v, n, m) ==
    /\ m.open = v.open
    /\ Bal(v, n) = m.bal[1]
    /\ Tree(v.ends[n]) = {}
    /\ LocksOf(v.ends[Other(n)], "unclaimed") = {}
    /\ v.state = "withdraw"

AcceptWithdrawResponse(v, n, m) ==
    /\ m.open = v.open
    /\ Bal(v, n) = m.bal[1]
    /\ ~HasAnyLock(v)
    /\ v.state = "withdraw"

\* preCheckSettleDataInMessage: the balances of participant p1 and of the
\* other as the message states them
SettleDataMatches(v, m, p1) ==
    /\ m.open = v.open
    /\ Bal(v, p1) = m.bal[1]
    /\ Bal(v, Other(p1)) = m.bal[2]

AcceptSettleRequest(v, n, m) ==
    /\ SettleDataMatches(v, m, m.from)
    /\ RequestLocksFree(v, n)

AcceptSettleResponse(v, n, m) ==
    /\ SettleDataMatches(v, m, n)
    /\ v.state = "cooperativeSettle"

Accepts(v, n, m) ==
    CASE m.type = "WithdrawRequest"  -> AcceptWithdrawRequest(v, n, m)
      [] m.type = "WithdrawResponse" -> AcceptWithdrawResponse(v, n, m)
      [] m.type = "SettleRequest"    -> AcceptSettleRequest(v, n, m)
      [] m.type = "SettleResponse"   -> AcceptSettleResponse(v, n, m)
      [] OTHER                       -> FALSE

\* (mutant: the responder's channel stays as it was)
RegisterWithdrawRequestKeepsState(n) ==
    LET m == Head(net[n])
        v == view[n]
    IN  /\ net[n] # <<>>
        /\ m.type = "WithdrawRequest"
        /\ AcceptWithdrawRequest(v, n, m)
        /\ net' = [net EXCEPT ![n] = Tail(@), ![Other(n)] = Append(@,
                    SettleData(v, n, "WithdrawResponse", <<Bal(v, Other(n)), 0>>, m.amt))]
        /\ UNCHANGED <<view, block, used, knows, disposed, onchain, seen, direct,
                       chain, panicked, attempts>>

\* RegisterWithdrawRequest, then CreateWithdrawResponse: Participant1 is
\* the requester, its balance as this node sees it
RegisterWithdrawRequest(n) ==
    LET m == Head(net[n])
        v == view[n]
    IN  /\ net[n] # <<>>
        /\ m.type = "WithdrawRequest"
        /\ AcceptWithdrawRequest(v, n, m)
        /\ view' = [view EXCEPT ![n].state = "partnerWithdrawing"]
        /\ net' = [net EXCEPT ![n] = Tail(@), ![Other(n)] = Append(@,
                    SettleData(v, n, "WithdrawResponse", <<Bal(v, Other(n)), 0>>, m.amt))]
        /\ UNCHANGED <<block, used, knows, disposed, onchain, seen, direct,
                       chain, panicked, attempts>>

\* RegisterCooperativeSettleRequest, then CreateCooperativeSettleResponse
RegisterCooperativeSettleRequest(n) ==
    LET m == Head(net[n])
        v == view[n]
    IN  /\ net[n] # <<>>
        /\ m.type = "SettleRequest"
        /\ AcceptSettleRequest(v, n, m)
        /\ view' = [view EXCEPT ![n].state = "partnerCooperativeSettling"]
        /\ net' = [net EXCEPT ![n] = Tail(@), ![Other(n)] = Append(@,
                    SettleData(v, n, "SettleResponse", <<Bal(v, Other(n)), Bal(v, n)>>, 0))]
        /\ UNCHANGED <<block, used, knows, disposed, onchain, seen, direct,
                       chain, panicked, attempts>>


\* RegisterWithdrawResponse, then Withdraw: the request is made again (its
\* lock test cannot fail after RegisterWithdrawResponse's, so Withdraw's
\* panic is out of reach) and the withdraw transaction submitted; the
\* contract takes it while the channel has the same open block and is
\* neither closed nor settled.  The new
\* OpenBlockNumber is a later block: the model counts reopenings.
RegisterWithdrawResponse(n) ==
    LET m == Head(net[n])
        v == view[n]
    IN  /\ net[n] # <<>>
        /\ m.type = "WithdrawResponse"
        /\ AcceptWithdrawResponse(v, n, m)
        /\ net' = [net EXCEPT ![n] = Tail(@)]
        /\ chain' = IF OpenOnChain(v)
                    THEN [chain EXCEPT !.open = @ + 1, !.at = block,
                           !.dep = [p \in Nodes |->
                             Bal(v, p) - (IF p = n THEN m.amt ELSE 0)]]
                    ELSE chain
        /\ UNCHANGED <<view, block, used, knows, disposed, onchain, seen, direct,
                       panicked, attempts>>

\* RegisterCooperativeSettleResponse, then CooperativeSettleChannel, which
\* makes the request again and panics if that fails
RegisterCooperativeSettleResponse(n) ==
    LET m == Head(net[n])
        v == view[n]
    IN  /\ net[n] # <<>>
        /\ m.type = "SettleResponse"
        /\ AcceptSettleResponse(v, n, m)
        /\ net' = [net EXCEPT ![n] = Tail(@)]
        /\ IF ~CanWithdrawOrCooperativeSettle(v, n)
           THEN /\ panicked' = panicked \cup {n}
                /\ UNCHANGED chain
           ELSE /\ chain' = IF OpenOnChain(v)
                            THEN [chain EXCEPT !.settled = TRUE, !.at = block]
                            ELSE chain
                /\ UNCHANGED panicked
        /\ UNCHANGED <<view, block, used, knows, disposed, onchain, seen, direct,
                       attempts>>

\* a request or response a Register* refuses is answered with an error
RefuseSettleData(n) ==
    LET m == Head(net[n])
    IN  /\ net[n] # <<>>
        /\ m.type \in {"WithdrawRequest", "WithdrawResponse",
                       "SettleRequest", "SettleResponse"}
        /\ ~Accepts(view[n], n, m)
        /\ net' = [net EXCEPT ![n] = Tail(@)]
        /\ UNCHANGED <<view, block, used, knows, disposed, onchain, seen, direct,
                       chain, panicked, attempts>>

\* the confirmed ChannelWithdraw event reaches n: HandleWithdrawed
WithdrawDue(n) == view[n].open < chain.open /\ block >= chain.at + ForkConfirmNumber

HandleWithdrawed(n) ==
    /\ WithdrawDue(n)
    /\ view' = [view EXCEPT ![n] = [state |-> "opened", open |-> chain.open,
                                    ends |-> [p \in Nodes |-> NewEnd(chain.dep[p])]]]
    /\ UNCHANGED <<net, block, used, knows, disposed, onchain, seen, direct,
                   chain, panicked, attempts>>

\* the ChannelSettled or ChannelCooperativeSettled event (no confirmation
\* wait) reaches n: HandleSettled
SettledDue(n) ==
    chain.settled /\ view[n].state # "settled" /\ view[n].open = chain.open

HandleSettled(n) ==
    /\ SettledDue(n)
    /\ view' = [view EXCEPT ![n].state = "settled"]
    /\ UNCHANGED <<net, block, used, knows, disposed, onchain, seen, direct,
                   chain, panicked, attempts>>

-----------------------------------------------------------------------------
(* Close and settle (specification section 4.3.4).  The contract keeps,   *)
(* for each participant, the balance proof of it that the other submitted: *)
(* the closer's with Close, the other's with UpdateTransfer, which only    *)
(* the non-closing participant may send and which replaces a proof of a   *)
(* lower nonce.  An on-chain Unlock pays out a lock of that proof whose    *)
(* secret was registered by its expiration.                                *)

\* p's balance proof as Channel v holds it
ProofOf(v, p) == [nonce |-> v.ends[p].nonce, ta |-> v.ends[p].ta, tree |-> Tree(v.ends[p])]

\* GetCanUnlockOnChainLocks, as the contract takes them: the partner's
\* locks whose secret n knows, in the partner's proof on chain, registered
\* in time
Unlockable(v, n) ==
    LET o == Other(n)
    IN  {l \in chain.bp[o].tree : /\ v.ends[o].locks[l] = "unclaimed"
                                  /\ onchain[l] # 0
                                  /\ onchain[l] <= v.ends[o].exp[l]}

\* Close: refused when Closed or Settled (a Close while Closing changes
\* nothing and is left out); the close transaction carries the partner's
\* balance proof, and the channel is Closing
Close(n) ==
    LET v == view[n]
    IN  /\ v.state \notin {"closing", "closed", "settled"}
        /\ view' = [view EXCEPT ![n].state = "closing"]
        /\ chain' = IF OpenOnChain(v)
                    THEN [chain EXCEPT !.closer = n, !.closedAt = block,
                                       !.bp[Other(n)] = ProofOf(v, Other(n)),
                                       !.closedTo = Nodes]
                    ELSE chain
        /\ UNCHANGED <<net, block, used, knows, disposed, onchain, seen, direct,
                       panicked, attempts>>

\* the ChannelClosed event (no confirmation wait) reaches n
ClosedDue(n) == n \in chain.closedTo /\ view[n].open = chain.open

\* HandleClosed, and the Closed state the dispatcher sets with it: the
\* non-closing node sends UpdateTransfer with the partner's proof, the
\* closer unlocks the partner's locks it can
HandleClosed(n) ==
    LET v == view[n]
        o == Other(n)
        c == [chain EXCEPT !.closedTo = @ \ {n}]
    IN  /\ ClosedDue(n)
        /\ view' = [view EXCEPT ![n].state = "closed"]
        /\ chain' = CASE chain.closer # n /\ v.ends[o].nonce > chain.bp[o].nonce ->
                              [c EXCEPT !.bp[o] = ProofOf(v, o), !.updTo = Nodes]
                      [] chain.closer = n ->
                              [c EXCEPT !.unlocked = @ \cup Unlockable(v, n)]
                      [] OTHER -> c
        /\ UNCHANGED <<net, block, used, knows, disposed, onchain, seen, direct,
                       panicked, attempts>>

\* the BalanceProofUpdated event (of the closer's proof) reaches n:
\* HandleBalanceProofUpdated; the closer unlocks the partner's locks again
HandleBalanceProofUpdated(n) ==
    /\ n \in chain.updTo
    /\ view[n].open = chain.open
    /\ chain' = [chain EXCEPT !.updTo = @ \ {n},
                              !.unlocked = IF chain.closer = n
                                           THEN @ \cup Unlockable(view[n], n)
                                           ELSE @]
    /\ UNCHANGED <<view, net, block, used, knows, disposed, onchain, seen, direct,
                   panicked, attempts>>

\* Settle: only when Closed and the settle timeout has passed; the settle
\* transaction is submitted and the channel is Settling
Settle(n) ==
    /\ view[n].state = "closed"
    /\ block >= chain.closedAt + SettleTimeout
    /\ view' = [view EXCEPT ![n].state = "settling"]
    /\ chain' = IF chain.settled THEN chain ELSE [chain EXCEPT !.settled = TRUE]
    /\ UNCHANGED <<net, block, used, knows, disposed, onchain, seen, direct,
                   panicked, attempts>>

\* a new block, once the confirmed events of the last one are delivered;
\* registering a secret on chain is left to RegisterSecretOnChain, which no
\* handler of the channel obliges anyone to take in time
NewBlock ==
    /\ block < MaxBlock
    /\ ~\E n \in Live :
            \/ WithdrawDue(n) \/ SettledDue(n) \/ ClosedDue(n) \/ n \in chain.updTo
            \/ \E l \in LockIds : SecretRevealDue(n, l)
    /\ block' = block + 1
    /\ UNCHANGED <<view, net, used, knows, disposed, onchain, seen, direct,
                       chain, panicked, attempts>>

Next ==
    \/ NewBlock
    \/ \E s \in Live : CreateDirectTransfer(s)
    \/ \E s \in Live : PrepareForWithdraw(s)
    \/ \E s \in Live : PrepareForCooperativeSettle(s)
    \/ \E s \in Live : CancelWithdrawOrCooperativeSettle(s)
    \/ \E s \in Live : CreateWithdrawRequest(s)
    \/ \E s \in Live : CreateCooperativeSettleRequest(s)
    \/ \E s \in Live : RegisterWithdrawRequest(s)
    \/ \E s \in Live : RegisterCooperativeSettleRequest(s)
    \/ \E s \in Live : RegisterWithdrawResponse(s)
    \/ \E s \in Live : RegisterCooperativeSettleResponse(s)
    \/ \E s \in Live : RefuseSettleData(s)
    \/ \E s \in Live : HandleWithdrawed(s)
    \/ \E s \in Live : HandleSettled(s)
    \/ \E s \in Live \cap Closers : Close(s)
    \/ \E s \in Live : HandleClosed(s)
    \/ \E s \in Live : HandleBalanceProofUpdated(s)
    \/ \E s \in Live : Settle(s)
    \/ \E s \in Live : RegisterTransfer(s)
    \/ \E s \in Live : RegisterAnnouceDisposed(s)
    \/ \E s \in Live : RefuseAnnouceDisposed(s)
    \/ \E s \in Live, l \in LockIds : CreateMediatedTransfer(s, l)
    \/ \E s \in Live, l \in LockIds : CreateUnlock(s, l)
    \/ \E s \in Live, l \in LockIds : CreateRemoveExpiredHashLockTransfer(s, l)
    \/ \E s \in Live, l \in LockIds : CreateAnnouceDisposed(s, l)
    \/ \E s \in Live, l \in LockIds : RegisterSecret(s, l)
    \/ \E s \in Live, l \in LockIds : RegisterSecretOnChain(s, l)
    \/ \E s \in Live, l \in LockIds : RegisterRevealedSecretHash(s, l)

Spec == Init /\ [][Next]_vars

-----------------------------------------------------------------------------
(* Properties.                                                             *)

(***************************************************************************)
(* A channel never wedges: every balance proof a node created and          *)
(* registered on its own Channel is accepted by the partner's              *)
(* RegisterTransfer when it reaches the head of the queue.  A refused      *)
(* message is retransmitted for ever and, the nonce being strictly         *)
(* sequential, blocks every later message of that direction.  A message   *)
(* of a later OpenBlockNumber waits for the receiver's HandleWithdrawed;   *)
(* one of an earlier OpenBlockNumber, sent before a withdraw the receiver  *)
(* has handled, would never be accepted.  (A node whose dispatcher         *)
(* panicked accepts nothing and is left out.)                              *)
(***************************************************************************)
NoWedgedChannel ==
    \A n \in Live :
        LET m == Head(net[n])
        IN  (net[n] # <<>> /\ m.type \in BalanceProofTypes /\ ~IsClosed(view[n]))
                => /\ m.open >= view[n].open
                   /\ m.open = view[n].open => ValidTransfer(view[n], m)

\* a removal (RemoveExpiredHashlockTransfer or AnnounceDisposedResponse) of
\* a lock whose secret the receiver learned after the sender gave it up:
\* TryRemoveHashLock refuses it, since a lock with a known secret cannot be
\* removed
RemovalOfKnownLock(n, m) ==
    /\ m.type \in {"RemoveExpired", "DisposedResponse"}
    /\ view[n].ends[Other(n)].locks[m.lock] = "unclaimed"

(***************************************************************************)
(* The only wedge is a removal of a lock whose secret the receiver knows.  *)
(* Every other balance proof at the head of a queue is accepted: no nonce  *)
(* gap, amount or locksroot mismatch arises between the two replicas, and  *)
(* no balance proof sent under an OpenBlockNumber is still in flight when  *)
(* the receiver's HandleWithdrawed moves past it, however transfers,       *)
(* expiry, disposal, withdraw, cooperative settle and close interleave.    *)
(***************************************************************************)
WedgedOnlyByKnownSecret ==
    \A n \in Live :
        LET m == Head(net[n])
        IN  (net[n] # <<>> /\ m.type \in BalanceProofTypes /\ ~IsClosed(view[n]))
                => /\ m.open >= view[n].open
                   /\ (m.open = view[n].open /\ ~ValidTransfer(view[n], m))
                         => RemovalOfKnownLock(n, m)

(***************************************************************************)
(* Refinement: read off each node's own end, the two replicas implement   *)
(* ChannelLedger.  No node spends more than its deposit plus what it has   *)
(* received although it sees the partner's transfers late, and no lock    *)
(* whose secret was registered on chain by its expiration is ever removed  *)
(* by RemoveExpiredHashlockTransfer or AnnounceDisposedResponse, however    *)
(* block arrival, SecretRevealed delivery and message delivery interleave. *)
(***************************************************************************)
Ledger == INSTANCE ChannelLedger WITH
    paid     <- [n \in Nodes |-> IF view[n].open = chain.open
                                THEN view[n].ends[n].ta ELSE 0],
    held     <- [n \in Nodes |-> IF view[n].open = chain.open
                                THEN Tree(view[n].ends[n]) ELSE {}],
    revealed <- {l \in LockIds : onchain[l] # 0 /\ onchain[l] <= used[l]},
    deposit  <- [n \in Nodes |-> IF view[n].open = chain.open
                                THEN view[n].ends[n].dep ELSE chain.dep[n]],
    closed   <- chain.closer # NoNode,
    settled  <- chain.settled

ImplementsLedger == Ledger!LSpec

(***************************************************************************)
(* Once a node has handled the close, the contract holds the latest        *)
(* balance proof of its partner that the node has accepted, so the settle  *)
(* pays it everything the partner transferred to it: the closer's Close    *)
(* and the other node's UpdateTransfer submit the proof the node holds.   *)
(* Specification 4.3.3: after Close, balance proofs are refused.           *)
(***************************************************************************)
OnChainProofIsLatest ==
    \A n \in Live :
        (/\ chain.closer # NoNode
         /\ view[n].open = chain.open
         /\ view[n].state \in {"closed", "settling", "settled"})
            => chain.bp[Other(n)].nonce = view[n].ends[Other(n)].nonce
(***************************************************************************)
(* Neither Withdraw nor CooperativeSettleChannel panics: once a response   *)
(* is registered, re-creating the request succeeds.  The code comments say *)
(* locks that appear meanwhile must be cancelled by the state manager; the *)
(* specification says the initiator has no locks on either side.          *)
(***************************************************************************)
NoPanic == panicked = {}
====
