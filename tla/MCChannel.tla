------------------------------ MODULE MCChannel ------------------------------
(* Model values and definitions for checking Channel with TLC.             *)
EXTENDS Channel

CONSTANTS a, b, l1, l2

MCNodes   == {a, b}
MCDeposit == [n \in MCNodes |-> IF n = a THEN 2 ELSE 1]
MCLockIds == {l1, l2}
MCOneLock == {l1}
MCClosers == {a}
====
