---------------------------- MODULE ChannelLedger ----------------------------
(***************************************************************************)
(* What a payment channel promises its two participants, without replicas *)
(* or messages: each participant pays from its deposit plus what it has    *)
(* received, a token under a hash lock stays reserved until it is claimed  *)
(* or released, and a lock whose secret was registered on chain in time   *)
(* is never released (the receiver could still unlock it on chain).  A    *)
(* withdraw reopens the channel with the current balances, less the        *)
(* amount taken out, and a cooperative settle ends it; both only when no   *)
(* lock is outstanding on either side and the channel was not closed on   *)
(* chain.  A channel closed on chain is settled later, locks or not; off-  *)
(* chain payments go on until then.                                        *)
(***************************************************************************)
EXTENDS Integers, FiniteSets

CONSTANTS Nodes, Deposit, LockIds

VARIABLES
    deposit,   \* deposit[n]: n's contract balance since the channel (re)opened
    closed,    \* the channel was closed on chain
    settled,   \* the channel was settled, cooperatively or after a close
    paid,      \* paid[n]: tokens n has transferred to its partner
    held,      \* held[n]: the locks n has sent and not yet claimed or released
    revealed   \* locks whose secret reached the secret registry before expiry

Partner(n) == CHOOSE o \in Nodes : o # n

Balance(n) == deposit[n] - paid[n] + paid[Partner(n)]

\* what n can still send
Spendable(n) == Balance(n) - Cardinality(held[n])

NoLocks == \A n \in Nodes : held[n] = {}

LInit ==
    /\ deposit = Deposit
    /\ closed = FALSE
    /\ settled = FALSE
    /\ paid = [n \in Nodes |-> 0]
    /\ held = [n \in Nodes |-> {}]
    /\ revealed = {}

Pay(n) ==
    /\ ~settled
    /\ Spendable(n) >= 1
    /\ paid' = [paid EXCEPT ![n] = @ + 1]
    /\ UNCHANGED <<closed, deposit, settled, held, revealed>>

Lock(n, l) ==
    /\ ~settled
    /\ Spendable(n) >= 1
    /\ l \notin held[n]
    /\ held' = [held EXCEPT ![n] = @ \cup {l}]
    /\ UNCHANGED <<closed, deposit, settled, paid, revealed>>

Claim(n, l) ==
    /\ ~settled
    /\ l \in held[n]
    /\ held' = [held EXCEPT ![n] = @ \ {l}]
    /\ paid' = [paid EXCEPT ![n] = @ + 1]
    /\ UNCHANGED <<closed, deposit, settled, revealed>>

Release(n, l) ==
    /\ ~settled
    /\ l \in held[n]
    /\ l \notin revealed
    /\ held' = [held EXCEPT ![n] = @ \ {l}]
    /\ UNCHANGED <<closed, deposit, settled, paid, revealed>>

Reveal(l) ==
    /\ l \notin revealed
    /\ revealed' = revealed \cup {l}
    /\ UNCHANGED <<closed, deposit, settled, paid, held>>

\* n takes amt out; both restart from their balances with nothing paid
Withdraw(n, amt) ==
    /\ ~settled /\ ~closed
    /\ NoLocks
    /\ 0 < amt /\ amt <= Balance(n)
    /\ deposit' = [p \in Nodes |-> Balance(p) - (IF p = n THEN amt ELSE 0)]
    /\ paid' = [p \in Nodes |-> 0]
    /\ UNCHANGED <<closed, settled, held, revealed>>

CooperativeSettle ==
    /\ ~settled /\ ~closed
    /\ NoLocks
    /\ settled' = TRUE
    /\ UNCHANGED <<closed, deposit, paid, held, revealed>>

Close ==
    /\ ~settled /\ ~closed
    /\ closed' = TRUE
    /\ UNCHANGED <<deposit, settled, paid, held, revealed>>

Settle ==
    /\ closed /\ ~settled
    /\ settled' = TRUE
    /\ UNCHANGED <<deposit, closed, paid, held, revealed>>

\* once settled, the participants' off-chain books no longer count: a
\* node that has not handled the settle still moves them
AfterSettle ==
    /\ settled
    /\ UNCHANGED <<deposit, closed, settled, revealed>>

LNext ==
    \/ \E n \in Nodes : Pay(n)
    \/ \E n \in Nodes, l \in LockIds : Lock(n, l) \/ Claim(n, l) \/ Release(n, l)
    \/ \E l \in LockIds : Reveal(l)
    \/ \E n \in Nodes : \E amt \in 1..Balance(n) : Withdraw(n, amt)
    \/ CooperativeSettle \/ Close \/ Settle \/ AfterSettle

LSpec == LInit /\ [][LNext]_<<deposit, closed, settled, paid, held, revealed>>
====
