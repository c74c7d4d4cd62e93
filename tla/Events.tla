------------------------------- MODULE Events -------------------------------
(***************************************************************************)
(* The chain event poller of src/blockchain/events.go: startAlarmTask and  *)
(* parseLogsToEvents.  Each poll reads the chain head, queries the logs of *)
(* [current - 2*ForkConfirmNumber, head], drops duplicates through txDone, *)
(* holds back the events that need confirmation, and writes the rest,     *)
(* sorted, to the StateChangeChannel with a BlockStateChange before each   *)
(* new block and one for the head at the end.                              *)
(*                                                                         *)
(* The chain is a fixed set of logs, each mined at a block that the        *)
(* initial state chooses; the head grows by itself.  The dispatcher is     *)
(* abstracted to the sequence it is handed, out.                           *)
(***************************************************************************)
EXTENDS Integers, Sequences, SequencesExt, FiniteSets

CONSTANTS
    ChainLogs,         \* the logs in chain order of (tx index, log index)
    NeedConfirm,       \* logs of ChannelOpenedAndDeposit, ChannelNewDeposit,
                       \* ChannelWithdraw or SecretRevealed (needConfirm)
    ForkConfirmNumber, \* params.ForkConfirmNumber (EnableForkConfirm is on)
    StartBlock,        \* the LastBlockNumber given to Start
    MaxHeight,         \* the last chain height explored
    KeepUp,            \* the poller reads every head: the chain is never more
                       \* than one block ahead of the last poll
    MaxReconnects,     \* HeaderByNumber failures explored
    MaxRestarts,       \* process restarts explored
    NoLog              \* model value: a BlockStateChange carries no log

VARIABLES
    evBlock,          \* the block each log is mined at
    head,             \* the chain height
    lastBlockNumber,  \* be.lastBlockNumber, equal to the loop's currentBlock
    startUp,          \* startUpBlockNumber of the running startAlarmTask
    firstStart,       \* be.firstStart: history-complete not yet announced
    txDone,           \* be.txDone: log -> block it was delivered at, 0 if absent
    out,              \* what was written to StateChangeChannel
    epoch,            \* process incarnation (history)
    reconnects,       \* HeaderByNumber failures so far
    restarts          \* process restarts so far

vars == <<evBlock, head, lastBlockNumber, startUp, firstStart, txDone, out,
          epoch, reconnects, restarts>>

Logs    == ToSet(ChainLogs)
Heights == 0..MaxHeight

\* the StateChangeChannel items: a BlockStateChange or a contract state change
BlockSC(b)  == [log |-> NoLog, b |-> b, epoch |-> epoch]
LogSC(l)    == [log |-> l, b |-> evBlock[l], epoch |-> epoch]

-----------------------------------------------------------------------------
\* fromBlockNumber: the query window reaches 2*ForkConfirmNumber blocks back
QueryFromNoLookback(cur) == IF cur < 0 THEN 0 ELSE cur

QueryFrom(cur) ==
    IF cur - 2 * ForkConfirmNumber < 0 THEN 0 ELSE cur - 2 * ForkConfirmNumber

\* the logs getLogsFromChain returns for [from, to]
LogsIn(from, to) == {l \in Logs : from <= evBlock[l] /\ evBlock[l] <= to}

\* needConfirm, and the SecretRevealed check: a log too close to
\* be.lastBlockNumber, which still holds the previous poll's block, waits
Unconfirmed(l, last) ==
    l \in NeedConfirm /\ last - evBlock[l] < ForkConfirmNumber

\* parseLogsToEvents: skip a log delivered at the same block, then one that
\* is not yet confirmed; every other log is delivered
parseLogsToEvents(ls, td, last) ==
    {l \in ls : ~(td[l] = evBlock[l]) /\ ~Unconfirmed(l, last)}

\* the position of a log in the chain order
LogIndex(l) == CHOOSE i \in DOMAIN ChainLogs : ChainLogs[i] = l

\* sortContractStateChange: by block, then by position in the block
ChainBefore(l1, l2) ==
    \/ evBlock[l1] < evBlock[l2]
    \/ /\ evBlock[l1] = evBlock[l2]
       /\ LogIndex(l1) < LogIndex(l2)

sortContractStateChange(S) == SetToSortSeq(S, ChainBefore)

\* the writes of one poll: a BlockStateChange whenever the block changes
\* (lastSendBlockNumber starts at 0), then the head unless it was just sent
Emission(sc, lasted) ==
    LET item(i) == IF i = 1 \/ evBlock[sc[i]] # evBlock[sc[i - 1]]
                   THEN <<BlockSC(evBlock[sc[i]]), LogSC(sc[i])>>
                   ELSE <<LogSC(sc[i])>>
        lastSend == IF sc = <<>> THEN 0 ELSE evBlock[sc[Len(sc)]]
    IN  FlattenSeq([i \in 1..Len(sc) |-> item(i)])
          \o (IF lastSend # lasted THEN <<BlockSC(lasted)>> ELSE <<>>)

\* mutant: the cache forgets one block too early
pruneTxDoneEarly(td, from) ==
    [l \in Logs |-> IF td[l] # 0 /\ td[l] <= from + 1 THEN 0 ELSE td[l]]

\* the end of the poll: forget what the next window cannot return
pruneTxDone(td, from) ==
    [l \in Logs |-> IF td[l] # 0 /\ td[l] <= from THEN 0 ELSE td[l]]

\* notifyPhotonStartupCompleteIfNeeded (the state change it writes carries
\* no log and no block the properties look at)
Notify == firstStart' = FALSE

-----------------------------------------------------------------------------
Init ==
    /\ evBlock \in [Logs -> 1..MaxHeight]
    /\ head \in IF KeepUp THEN {StartBlock} ELSE StartBlock..MaxHeight
    /\ lastBlockNumber = StartBlock
    /\ startUp = StartBlock
    /\ firstStart = TRUE
    /\ txDone = [l \in Logs |-> 0]
    /\ epoch = 1
    /\ out = <<[log |-> NoLog, b |-> StartBlock, epoch |-> 1]>>
    /\ reconnects = 0
    /\ restarts = 0

\* a new block is mined
ChainGrows ==
    /\ head < MaxHeight
    /\ KeepUp => head <= lastBlockNumber
    /\ head' = head + 1
    /\ UNCHANGED <<evBlock, lastBlockNumber, startUp, firstStart, txDone, out,
                   epoch, reconnects, restarts>>

\* a poll that finds a new head: query, parse, write, prune
PollNewHead ==
    LET lasted == head
        from   == QueryFrom(lastBlockNumber)
        sc     == parseLogsToEvents(LogsIn(from, lasted), txDone, lastBlockNumber)
        td     == [l \in Logs |-> IF l \in sc THEN evBlock[l] ELSE txDone[l]]
    IN  /\ lastBlockNumber < lasted
        /\ out' = out \o Emission(sortContractStateChange(sc), lasted)
        /\ lastBlockNumber' = lasted
        /\ txDone' = pruneTxDone(td, from)
        /\ Notify
        /\ UNCHANGED <<evBlock, head, startUp, epoch, reconnects, restarts>>

\* a poll that finds no new head: at start-up, the current block is written
\* once; the history is then complete
PollSameHead ==
    /\ lastBlockNumber >= head
    /\ startUp # 0 \/ firstStart
    /\ IF startUp >= head /\ startUp # 0
       THEN out' = Append(out, BlockSC(lastBlockNumber))
       ELSE UNCHANGED out
    /\ startUp' = IF startUp >= head THEN 0 ELSE startUp
    /\ Notify
    /\ UNCHANGED <<evBlock, head, lastBlockNumber, txDone, epoch, reconnects,
                   restarts>>

\* getLogs fails: the poll is retried with the same current block
QueryFails ==
    /\ lastBlockNumber < head
    /\ firstStart
    /\ Notify
    /\ UNCHANGED <<evBlock, head, lastBlockNumber, startUp, txDone, out, epoch,
                   reconnects, restarts>>

\* HeaderByNumber fails: the task returns, RecoverDisconnect reconnects and
\* startAlarmTask runs again on the same Events (txDone and the block kept)
Reconnect ==
    /\ reconnects < MaxReconnects
    /\ reconnects' = reconnects + 1
    /\ Notify
    /\ startUp' = lastBlockNumber
    /\ out' = Append(out, BlockSC(lastBlockNumber))
    /\ UNCHANGED <<evBlock, head, lastBlockNumber, txDone, epoch, restarts>>

\* the process restarts: a new Events is started from the last block the
\* dispatcher persisted (all it was handed); txDone is empty again
Restart ==
    /\ restarts < MaxRestarts
    /\ restarts' = restarts + 1
    /\ epoch' = epoch + 1
    /\ firstStart' = TRUE
    /\ txDone' = [l \in Logs |-> 0]
    /\ startUp' = lastBlockNumber
    /\ out' = Append(out, [log |-> NoLog, b |-> lastBlockNumber, epoch |-> epoch + 1])
    /\ UNCHANGED <<evBlock, head, lastBlockNumber, reconnects>>

Done ==
    /\ head = MaxHeight /\ lastBlockNumber = MaxHeight
    /\ UNCHANGED vars

Next ==
    \/ ChainGrows
    \/ PollNewHead
    \/ PollSameHead
    \/ QueryFails
    \/ Reconnect
    \/ Restart
    \/ Done

Spec == Init /\ [][Next]_vars /\ WF_vars(ChainGrows) /\ WF_vars(PollNewHead)

-----------------------------------------------------------------------------
(* Properties.                                                             *)

Delivered(l) == \E i \in DOMAIN out : out[i].log = l

(***************************************************************************)
(* "Events sent to the channel can duplicate but cannot be lost" (the      *)
(* comment on Start): once the poller's window has moved past a log's      *)
(* block, so that no later poll will ever query it again, the log has      *)
(* been written to the StateChangeChannel.                                 *)
(***************************************************************************)
NoLostEvent ==
    \A l \in Logs : evBlock[l] < lastBlockNumber - 2 * ForkConfirmNumber => Delivered(l)

(***************************************************************************)
(* Within one process, txDone removes every duplicate the overlapping      *)
(* query windows return: no log is written twice by the same incarnation.  *)
(***************************************************************************)
NoDuplicateDelivery ==
    \A i, j \in DOMAIN out :
        (i < j /\ out[i].log # NoLog /\ out[i].log = out[j].log)
            => out[i].epoch # out[j].epoch

====
