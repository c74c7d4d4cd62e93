----------------------------- MODULE MCInitiator -----------------------------
(* Model values and definitions for checking Initiator with TLC.           *)
EXTENDS Initiator

CONSTANTS c, d, t

MCHops          == {c, d}
MCRouteList     == <<c, d>>
\* c's channel has the shorter settle timeout, so a lock on d is capped by
\* the expiration of the transfer on c that it replaces
MCSettleTimeout == [h \in MCHops |-> IF h = c THEN 6 ELSE 8]
====
