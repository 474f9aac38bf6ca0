-------------------------------- MODULE Indexer --------------------------------
(* The indexer's polling loop: where it goes on, which logs it asks for, what  *)
(* it has already recorded, and what errors and restarts do to a poll. What a  *)
(* handler does with an event is in the modules of the components.             *)
(* Sources: blockchain/indexer/indexer.service, indexer.router and the         *)
(* chain_event_logs table.                                                     *)
EXTENDS Integers, Sequences, FiniteSets

CONSTANTS
  Contracts,     \* the addresses that emit logs
  System,        \* those the backend knows from its configuration
  StartBlock,    \* START_BLOCK, or 0 if it is not set
  Recent,        \* blocks before the latest where an indexer without it begins
  Window,        \* MAX_BLOCK_RANGE
  Birth,         \* bound: the latest block at first
  MaxHeight,     \* bound: the latest block ever
  MaxLogs,       \* bound: the logs of a block
  AllLogs,       \* bound: the logs of the chain
  MaxFailures    \* bound: the errors and restarts

ASSUME IndexerAssumption ==
  /\ System \subseteq Contracts
  /\ StartBlock \in Nat /\ Recent \in Nat /\ Window \in Nat
  /\ MaxHeight \in Nat /\ MaxHeight < 1000000000 /\ Birth \in 1..MaxHeight /\ MaxLogs \in Nat
  /\ AllLogs \in Nat /\ MaxFailures \in Nat

VARIABLES
  height,       \* the latest block
  emitter,      \* the logs of the chain: their contracts, by <<block, index>>
  tracked,      \* the contracts that are configured or named by an assets row
  recorded,     \* the chain_event_logs rows
  routed,       \* history: how often each log went to its handler
  poll,         \* what the loop is doing
  unseen,       \* history: the logs a poll did not ask for
  cut,          \* history: the rest of a block at whose middle a poll ended
  failures

history == <<routed, unseen, cut>>
vars == <<height, emitter, tracked, recorded, poll, failures, history>>

Logs == (1..MaxHeight) \X (1..MaxLogs)
Emitted == DOMAIN emitter
Resting == [at |-> "REST", queue |-> <<>>]

Init ==
  /\ height = Birth
  /\ emitter = <<>>
  /\ tracked = System
  /\ recorded = {}
  /\ routed = [l \in Logs |-> 0]
  /\ poll = Resting
  /\ unseen = {}
  /\ cut = {}
  /\ failures = 0

-----------------------------------------------------------------------------
(* The chain, and the assets that get their contracts *)

Mine ==
  /\ height < MaxHeight
  /\ height' = height + 1
  /\ \E n \in 0..MaxLogs :
       /\ Cardinality(Emitted) + n <= AllLogs
       /\ \E block \in [{height + 1} \X (1..n) -> Contracts] :
            emitter' = [l \in Emitted \cup DOMAIN block |->
                          IF l \in Emitted THEN emitter[l] ELSE block[l]]
  /\ UNCHANGED <<tracked, recorded, poll, failures, history>>

NameContract(x) ==
  /\ x \notin tracked
  /\ tracked' = tracked \cup {x}
  /\ UNCHANGED <<height, emitter, recorded, poll, failures, history>>

-----------------------------------------------------------------------------
(* Where a poll begins *)

\* The table keeps blockNumber as text, and orders it as such.
Tens == <<1, 10, 100, 1000, 10000, 100000, 1000000, 10000000, 100000000, 1000000000>>
Digits(n) == CHOOSE d \in 1..9 : Tens[d] <= n /\ n < Tens[d + 1]
Aligned(n) == n * Tens[10 - Digits(n)]
TextLess(m, n) ==
  \/ Aligned(m) < Aligned(n)
  \/ Aligned(m) = Aligned(n) /\ Digits(m) < Digits(n)

Recorded == {l[1] : l \in recorded}
LastBlock == CHOOSE n \in Recorded : \A m \in Recorded : m = n \/ TextLess(m, n)

From ==
  IF recorded # {} THEN LastBlock + 1
  ELSE IF StartBlock # 0 THEN StartBlock
  ELSE IF height > Recent THEN height - Recent ELSE 0

\* Mistake: the last block of the range is taken to be excluded.
ToExcluded == IF From + Window < height THEN From + Window - 1 ELSE height - 1

To == IF From + Window < height THEN From + Window ELSE height

-----------------------------------------------------------------------------
(* A poll *)

Before(l, k) == l[1] < k[1] \/ (l[1] = k[1] /\ l[2] < k[2])

\* Mistake: the newest log comes first, as in the query for the last row.
NewestFirst(S) ==
  CHOOSE s \in [1..Cardinality(S) -> S] :
    \A i, j \in DOMAIN s : i < j => Before(s[j], s[i])

InOrder(S) ==
  CHOOSE s \in [1..Cardinality(S) -> S] :
    \A i, j \in DOMAIN s : i < j => Before(s[i], s[j])

StartPoll ==
  /\ poll = Resting
  /\ From <= height
  /\ LET range == {l \in Emitted : From <= l[1] /\ l[1] <= To}
         asked == {l \in range : emitter[l] \in tracked}
     IN /\ asked # {}
        /\ poll' = [at |-> "LOG", queue |-> InOrder(asked)]
        /\ unseen' = unseen \cup (range \ asked)
  /\ UNCHANGED <<height, emitter, tracked, recorded, failures, routed, cut>>

\* The poll leaves its first log and goes on with the next.
NextLog ==
  poll' = IF Len(poll.queue) = 1 THEN Resting
          ELSE [at |-> "LOG", queue |-> Tail(poll.queue)]

HasRow(l) == l \in recorded

SkipLog ==
  /\ poll.at = "LOG"
  /\ HasRow(Head(poll.queue))
  /\ NextLog
  /\ UNCHANGED <<height, emitter, tracked, recorded, failures, history>>

\* Mistake: the log is recorded first.
RouteEventLate ==
  /\ poll.at = "LOG"
  /\ ~ HasRow(Head(poll.queue))
  /\ recorded' = recorded \cup {Head(poll.queue)}
  /\ poll' = [poll EXCEPT !.at = "RECORD"]
  /\ UNCHANGED <<height, emitter, tracked, failures, history>>

\* The router catches whatever its handler throws.
RouteEvent ==
  /\ poll.at = "LOG"
  /\ ~ HasRow(Head(poll.queue))
  /\ routed' = [routed EXCEPT ![Head(poll.queue)] = @ + 1]
  /\ poll' = [poll EXCEPT !.at = "RECORD"]
  /\ UNCHANGED <<height, emitter, tracked, recorded, failures, unseen, cut>>

RecordLog ==
  /\ poll.at = "RECORD"
  /\ recorded' = recorded \cup {Head(poll.queue)}
  /\ NextLog
  /\ UNCHANGED <<height, emitter, tracked, failures, history>>

\* What a poll that ends now leaves behind of a block it has recorded a part of.
Remains ==
  {l \in {poll.queue[i] : i \in DOMAIN poll.queue} :
     l \notin recorded /\ \E k \in recorded : k[1] = l[1]}

\* Mistake: an error while recording is caught inside the loop over the logs.
ErrorPassedOver ==
  /\ failures < MaxFailures
  /\ failures' = failures + 1
  /\ poll.at = "RECORD"
  /\ NextLog
  /\ UNCHANGED <<height, emitter, tracked, recorded, routed, unseen, cut>>

\* An error of a query ends the poll, and so does a restart.
PollEnds ==
  /\ poll # Resting
  /\ failures < MaxFailures
  /\ failures' = failures + 1
  /\ cut' = cut \cup Remains
  /\ poll' = Resting
  /\ UNCHANGED <<height, emitter, tracked, recorded, routed, unseen>>

Poll == StartPoll \/ SkipLog \/ RouteEvent \/ RecordLog

-----------------------------------------------------------------------------
Next ==
  \/ Mine
  \/ \E x \in Contracts : NameContract(x)
  \/ Poll
  \/ PollEnds

Spec == Init /\ [][Next]_vars

\* The loop polls every six seconds for as long as the backend runs.
FairSpec == Spec /\ WF_vars(Poll)

-----------------------------------------------------------------------------
(* Properties *)

\* The rows are logs of the chain from blocks that are mined, and a poll works
\* on such logs in their order.
TypeInv ==
  /\ height \in Birth..MaxHeight
  /\ Emitted \subseteq Logs /\ \A l \in Emitted : emitter[l] \in Contracts /\ l[1] <= height
  /\ System \subseteq tracked /\ tracked \subseteq Contracts
  /\ recorded \subseteq Emitted
  /\ routed \in [Logs -> Nat]
  /\ poll.at \in {"REST", "LOG", "RECORD"}
  /\ poll.at = "REST" <=> poll.queue = <<>>
  /\ \A i, j \in DOMAIN poll.queue :
       poll.queue[i] \in Emitted /\ (i < j => Before(poll.queue[i], poll.queue[j]))
  /\ failures \in 0..MaxFailures

\* No row without its handler's run, and no second run of it without an error
\* or a restart: one between the two makes the handler run again, and a range
\* that is scanned for ever because its blocks order badly as text does not
\* (pollNewBlocks).
HandledOnceButForFailures ==
  \A l \in Logs : routed[l] <= 1 + failures /\ (l \in recorded => routed[l] >= 1)

\* The indexer is past a log that it has not recorded only if the contract was
\* not tracked when the range was asked for, or a poll ended within the block.
NothingSkippedSilently ==
  recorded # {} =>
    \A l \in Emitted : l[1] < From /\ l[1] >= StartBlock =>
      \/ l \in recorded \cup unseen \cup cut
      \/ \E i \in DOMAIN poll.queue : poll.queue[i] = l

\* A log of a tracked contract within the next range is recorded in the end,
\* unless a poll asked for its block before the contract was tracked, or ended
\* within it.
RecordedInTime ==
  \A l \in Logs :
    (l \in Emitted /\ emitter[l] \in tracked /\ From <= l[1] /\ l[1] <= From + Window)
      ~> (l \in recorded \cup unseen \cup cut)

\* "If there are still blocks left to catch up, log progress or loop
\* immediately" (pollNewBlocks): every log of a tracked contract is recorded.
CatchesUp ==
  \A l \in Logs :
    (l \in Emitted /\ emitter[l] \in System) ~> (l \in recorded \cup cut)
================================================================================
