---------------------------- MODULE MCMediator ----------------------------
(* Model values and bounds for checking Mediator with TLC.                 *)
(* a and f are payers; c and d are candidate payees, d being the target.   *)
EXTENDS Mediator

CONSTANTS a, f, c, d

MCRouteList == <<c, d>>

\* the payer channels' settle timeouts leave room for the payers' locks,
\* c's settle timeout caps the lock forwarded to it below the payer's
MCSettleTimeout == [h \in Hops |-> IF h \in {a, f} THEN 10
                                    ELSE IF h = c THEN 5 ELSE 8]

\* the loop A-B-C-F-B: f's transfer expires no later than c's lock
\* (InitBlock + 4), leaving just enough blocks to forward it to d
MCLoopSettleTimeout == [h \in Hops |-> IF h \in {a, f} THEN 10
                                        ELSE IF h = c THEN 4 ELSE 8]
MCLoopPayerExp == [h \in Payers |-> IF h = a THEN 6 ELSE 5]

\* f sends its transfer with an expiration later than that of c's lock
MCGreedyPayerExp == [h \in Payers |-> IF h = a THEN 8 ELSE 7]

\* every lock is final ForkConfirmNumber + 1 blocks after the latest payer
\* expiration and the state manager is removed one block later
MCMaxBlock == 8 + ForkConfirmNumber + 2
MCLoopMaxBlock == 6 + ForkConfirmNumber + 2
====
