------------------------------ MODULE MCEvents ------------------------------
EXTENDS Events

CONSTANTS e1, e2, e3

\* a SecretRevealed or deposit log, a second one, and a ChannelClosed log
MCChainLogs   == <<e1, e2, e3>>
MCNeedConfirm == {e1, e2}
====
