----------------------------- MODULE IndexerProofs -----------------------------
(* The polling loop keeps its promise to the handlers, for every chain, window *)
(* and bound: each recorded log was handled, and handled again only after an   *)
(* error or a restart; and the loop goes past a log it has not recorded only   *)
(* where the code lets it, although it reads its cursor in the wrong order.    *)
EXTENDS Indexer, SumTheorems, TLAPS

\* The log whose handler has run and whose row is not written yet.
Handled(l) == poll.at = "RECORD" /\ l = Head(poll.queue)

PollOK ==
  /\ poll = [at |-> poll.at, queue |-> poll.queue]
  /\ poll.at \in {"REST", "LOG", "RECORD"}

Counts == routed \in [Logs -> Nat] /\ failures \in Nat

\* A log that is not recorded has been handled once per failure at most.  One
\* that is, or that the poll is about to record, was handled at least once, and
\* perhaps once more than there were failures.
Once(l) ==
  IF l \in recorded \/ Handled(l) THEN routed[l] \in 1 .. failures + 1
  ELSE routed[l] <= failures

IInv == PollOK /\ Counts /\ \A l \in Logs : Once(l)

\* Indexer (service): pollNewBlocks rests before its first poll.
LEMMA InitIInv == Init => IInv
  BY DEF Init, IInv, PollOK, Counts, Once, Handled, Resting

\* What leaves rows, counts and the log at hand alone disturbs nothing.
LEMMA Elsewhere ==
  ASSUME IInv, UNCHANGED <<recorded, routed, failures>>, PollOK', poll.at # "RECORD",
         poll'.at # "RECORD"
  PROVE  IInv'
  BY DEF IInv, Counts, Once, Handled

\* The next log, or the end of the poll: no log is at hand.
LEMMA NextLogOK == ASSUME NextLog PROVE PollOK' /\ poll'.at # "RECORD"
  BY DEF NextLog, PollOK, Resting

\* pollNewBlocks keeps the invariant, whatever chain and assets do meanwhile.
LEMMA IInvStep == IInv /\ [Next]_vars => IInv'
<1> SUFFICES ASSUME IInv, [Next]_vars PROVE IInv'
  OBVIOUS
<1>1. CASE UNCHANGED <<recorded, routed, failures, poll>>
  BY <1>1 DEF IInv, PollOK, Counts, Once, Handled
<1>2. CASE Mine \/ (\E x \in Contracts : NameContract(x)) \/ UNCHANGED vars
  BY <1>1, <1>2 DEF Mine, NameContract, vars, history
<1>3. CASE StartPoll
  <2>1. PollOK' /\ poll.at # "RECORD" /\ poll'.at # "RECORD"
    BY <1>3 DEF StartPoll, PollOK, Resting
  <2> QED BY <2>1, <1>3, Elsewhere DEF StartPoll
<1>4. CASE SkipLog
  <2>1. PollOK' /\ poll'.at # "RECORD"
    BY <1>4, NextLogOK DEF SkipLog
  <2> QED BY <2>1, <1>4, Elsewhere DEF SkipLog, history
<1>5. CASE RouteEvent
  <2> DEFINE h == Head(poll.queue)
  <2>1. /\ poll.at = "LOG" /\ h \notin recorded
        /\ routed' = [routed EXCEPT ![h] = @ + 1]
        /\ UNCHANGED <<recorded, failures>>
    BY <1>5 DEF RouteEvent, HasRow
  <2>2. PollOK' /\ poll'.at = "RECORD" /\ poll'.queue = poll.queue
    BY <1>5 DEF RouteEvent, IInv, PollOK
  <2>3. Counts'
    <3>1. routed \in [Logs -> Nat] /\ failures \in Nat
      BY DEF IInv, Counts
    <3>2. routed' = [l \in Logs |-> IF l = h THEN routed[l] + 1 ELSE routed[l]]
      BY <2>1, <3>1
    <3>3. ASSUME NEW l \in Logs PROVE (IF l = h THEN routed[l] + 1 ELSE routed[l]) \in Nat
      BY <3>1
    <3> QED BY <2>1, <3>1, <3>2, <3>3 DEF Counts
  <2>4. ASSUME NEW l \in Logs PROVE Once(l)'
    <3>1. routed[l] \in Nat /\ failures \in Nat /\ Once(l) /\ ~ Handled(l)
      BY <2>1 DEF IInv, Counts, Handled
    <3>2. CASE l = h
      <4>1. routed'[l] = routed[l] + 1 /\ routed[l] <= failures
        BY <2>1, <3>1, <3>2 DEF IInv, Counts, Once
      <4> QED BY <4>1, <2>1, <2>2, <3>1, <3>2 DEF Once, Handled
    <3>3. CASE l # h
      <4>1. routed'[l] = routed[l] /\ ~ Handled(l)'
        BY <2>1, <2>2, <3>3 DEF IInv, Counts, Handled
      <4> QED BY <4>1, <2>1, <3>1 DEF Once
    <3> QED BY <3>2, <3>3
  <2> QED BY <2>2, <2>3, <2>4 DEF IInv
<1>6. CASE RecordLog
  <2>1. PollOK' /\ poll'.at # "RECORD"
    BY <1>6, NextLogOK DEF RecordLog
  <2>2. Counts' /\ UNCHANGED <<routed, failures>>
    BY <1>6 DEF RecordLog, IInv, Counts, history
  <2>3. ASSUME NEW l \in Logs PROVE Once(l)'
    <3>1. (l \in recorded' <=> l \in recorded \/ Handled(l)) /\ ~ Handled(l)'
      BY <1>6, <2>1 DEF RecordLog, Handled
    <3> QED BY <2>2, <3>1 DEF IInv, Once
  <2> QED BY <2>1, <2>2, <2>3 DEF IInv
<1>7. CASE PollEnds
  <2>1. PollOK' /\ poll'.at = "REST"
    BY <1>7 DEF PollEnds, PollOK, Resting
  <2>2. Counts' /\ UNCHANGED <<routed, recorded>> /\ failures' = failures + 1
    BY <1>7 DEF PollEnds, IInv, Counts
  <2>3. ASSUME NEW l \in Logs PROVE Once(l)'
    <3>1. routed[l] \in Nat /\ failures \in Nat /\ ~ Handled(l)' /\ Once(l)
      BY <2>1 DEF IInv, Counts, Handled
    <3> QED BY <2>2, <3>1 DEF Once
  <2> QED BY <2>1, <2>2, <2>3 DEF IInv
<1> QED BY <1>2, <1>3, <1>4, <1>5, <1>6, <1>7 DEF Next, Poll

\* No error, restart or range that is scanned again makes the indexer record a
\* log its handler has not seen, or show it one again without need.
THEOREM HandledOnce == Spec => []HandledOnceButForFailures
<1>1. IInv => HandledOnceButForFailures
  BY DEF IInv, Counts, Once, HandledOnceButForFailures
<1> QED BY <1>1, InitIInv, IInvStep, PTL DEF Spec

-----------------------------------------------------------------------------
(* The orders: of the logs, and of block numbers as text *)

Blocks == 1 .. MaxHeight
Places == Int \X Int

LEMMA BeforeOrder ==
  /\ \A k \in Places : ~ Before(k, k)
  /\ \A k, l \in Places : k = l \/ Before(k, l) \/ Before(l, k)
  /\ \A k, l, m \in Places : Before(k, l) /\ Before(l, m) => Before(k, m)
<1>1. ASSUME NEW k \in Places, NEW l \in Places, k[1] = l[1], k[2] = l[2] PROVE k = l
  BY <1>1 DEF Places
<1>2. \A k \in Places : k[1] \in Int /\ k[2] \in Int
  BY DEF Places
<1> QED BY <1>1, <1>2 DEF Before

\* A finite set of logs has a last one.
LEMMA LastLog ==
  ASSUME NEW S \in SUBSET Places, IsFiniteSet(S), S # {}
  PROVE  \E m \in S : \A k \in S : k = m \/ Before(k, m)
<1> DEFINE HasLast(T) == \E m \in T : \A k \in T : k = m \/ Before(k, m)
           B == {T \in SUBSET S : T # {} /\ ~ HasLast(T)}
<1>1. ASSUME B # {} PROVE FALSE
  <2>1. PICK T \in B : \A U \in B : ~ (U \subseteq T /\ U # T)
    <3>1. B \in SUBSET (SUBSET S)
      OBVIOUS
    <3> HIDE DEF B
    <3> QED BY <3>1, <1>1, SmallestSubset
  <2>2. T \in SUBSET S /\ T # {} /\ ~ HasLast(T)
    BY <2>1
  <2>3. PICK x \in T : TRUE
    BY <2>2
  <2>4. CASE T \ {x} = {}
    BY <2>2, <2>3, <2>4
  <2>5. CASE T \ {x} # {}
    <3>1. HasLast(T \ {x})
      <4>1. T \ {x} \notin B /\ T \ {x} \in SUBSET S
        BY <2>1, <2>3
      <4> HIDE DEF HasLast
      <4> QED BY <4>1, <2>5
    <3>2. PICK m \in T \ {x} : \A k \in T \ {x} : k = m \/ Before(k, m)
      BY <3>1
    <3>3. x \in Places /\ m \in Places /\ \A k \in T : k \in Places
      BY <2>2, <2>3, <3>2
    <3>4. CASE Before(x, m)
      BY <2>2, <3>2, <3>4
    <3>5. CASE Before(m, x)
      <4>1. \A k \in T : k = x \/ Before(k, x)
        BY <3>2, <3>3, <3>5, BeforeOrder
      <4> QED BY <2>2, <4>1
    <3> QED BY <3>2, <3>3, <3>4, <3>5, BeforeOrder
  <2> QED BY <2>4, <2>5
<1>2. S \notin B
  BY <1>1
<1> QED BY <1>2

\* A finite set of logs can be put in order.
Sorted(s) == \A i, j \in DOMAIN s : i < j => Before(s[i], s[j])

LEMMA OrderExists ==
  ASSUME NEW S \in SUBSET Places, IsFiniteSet(S)
  PROVE  \E s \in [1 .. Cardinality(S) -> S] : Sorted(s)
<1> DEFINE Has(T) == \E s \in [1 .. Cardinality(T) -> T] : Sorted(s)
           B == {T \in SUBSET S : ~ Has(T)}
<1>1. ASSUME B # {} PROVE FALSE
  <2>1. PICK T \in B : \A U \in B : ~ (U \subseteq T /\ U # T)
    <3>1. B \in SUBSET (SUBSET S)
      OBVIOUS
    <3> HIDE DEF B
    <3> QED BY <3>1, <1>1, SmallestSubset
  <2>2. T \in SUBSET S /\ T \subseteq Places /\ IsFiniteSet(T) /\ ~ Has(T)
    BY <2>1, FS_Subset
  <2>3. T # {}
    <3>1. ASSUME T = {} PROVE FALSE
      <4>1. Cardinality(T) = 0
        BY <3>1, FS_EmptySet
      <4>2. <<>> \in [1 .. 0 -> T] /\ Sorted(<<>>)
        BY DEF Sorted
      <4> QED BY <2>2, <4>1, <4>2
    <3> QED BY <3>1
  <2>4. PICK m \in T : \A k \in T : k = m \/ Before(k, m)
    <3> HIDE DEF Has
    <3> QED BY <2>2, <2>3, LastLog
  <2> DEFINE U == T \ {m}
             n == Cardinality(U)
  <2>5. IsFiniteSet(U) /\ Cardinality(T) = n + 1 /\ n \in Nat
    <3>1. IsFiniteSet(U) /\ Cardinality(U) = Cardinality(T) - 1
      BY <2>2, <2>4, FS_RemoveElement
    <3>2. Cardinality(T) \in Nat /\ Cardinality(U) \in Nat
      BY <2>2, <3>1, FS_CardinalityType
    <3> QED BY <3>1, <3>2
  <2>6. Has(U)
    <3>1. U \in SUBSET S /\ U \notin B
      BY <2>1, <2>2, <2>4
    <3> HIDE DEF Has, U
    <3> QED BY <3>1
  <2>7. PICK s \in [1 .. n -> U] : Sorted(s)
    BY <2>6
  <2> DEFINE z == [i \in 1 .. n + 1 |-> IF i = n + 1 THEN m ELSE s[i]]
  <2>8. z \in [1 .. n + 1 -> T]
    <3>1. \A i \in 1 .. n : s[i] \in T
      BY <2>7
    <3> HIDE DEF n
    <3> QED BY <2>4, <2>5, <3>1
  <2>9. Sorted(z)
    <3> SUFFICES ASSUME NEW i \in 1 .. n + 1, NEW j \in 1 .. n + 1, i < j
                 PROVE  Before(z[i], z[j])
      BY DEF Sorted
    <3>1. i \in 1 .. n /\ z[i] = s[i] /\ s[i] \in U
      <4> HIDE DEF n, U
      <4> QED BY <2>5, <2>7
    <3>2. CASE j = n + 1
      <4>1. z[j] = m
        BY <3>2
      <4> QED BY <2>4, <3>1, <4>1
    <3>3. CASE j # n + 1
      <4>1. j \in 1 .. n /\ z[j] = s[j]
        <5> HIDE DEF n, U
        <5> QED BY <2>5, <3>3
      <4>2. DOMAIN s = 1 .. n
        BY <2>7
      <4> QED BY <2>7, <3>1, <4>1, <4>2 DEF Sorted
    <3> QED BY <3>2, <3>3
  <2> HIDE DEF z, n, U
  <2> QED BY <2>2, <2>5, <2>8, <2>9
<1>2. S \in SUBSET S /\ S \notin B
  BY <1>1
<1> QED BY <1>2

\* InOrder lists every log of the set, in order.
LEMMA InOrderLists ==
  ASSUME NEW S \in SUBSET Places, IsFiniteSet(S), S # {}
  PROVE  /\ InOrder(S) \in Seq(S) /\ InOrder(S) # <<>>
         /\ Sorted(InOrder(S))
         /\ \A l \in S : \E i \in DOMAIN InOrder(S) : InOrder(S)[i] = l
<1> DEFINE s == InOrder(S)
           n == Cardinality(S)
<1>1. s \in [1 .. n -> S] /\ Sorted(s)
  <2>1. \E f \in [1 .. n -> S] : \A i, j \in DOMAIN f : i < j => Before(f[i], f[j])
    BY OrderExists DEF Sorted
  <2> QED BY <2>1 DEF InOrder, Sorted
<1>2. n \in Nat /\ n # 0
  BY FS_CardinalityType, FS_EmptySet
<1> HIDE DEF s
<1>3. s \in Injection(1 .. n, S)
  <2> SUFFICES ASSUME NEW i \in 1 .. n, NEW j \in 1 .. n, s[i] = s[j], i # j PROVE FALSE
    BY <1>1 DEF Injection, IsInjective
  <2>1. s[i] \in Places
    BY <1>1
  <2>2. DOMAIN s = 1 .. n
    BY <1>1
  <2>3. i < j \/ j < i
    BY <1>2
  <2> QED BY <1>1, <2>1, <2>2, <2>3, BeforeOrder DEF Sorted
<1>4. Cardinality(1 .. n) = n
  BY <1>2, FS_Interval
<1>5. s \in Surjection(1 .. n, S)
  BY <1>3, <1>4, FS_Injection
<1>6. \A l \in S : \E i \in 1 .. n : s[i] = l
  BY <1>5 DEF Surjection
<1>7. s \in Seq(S) /\ DOMAIN s = 1 .. n /\ s # <<>>
  BY <1>1, <1>2
<1> QED BY <1>1, <1>6, <1>7 DEF s

\* Block numbers of at most nine digits.
LEMMA DigitsType ==
  ASSUME NEW b \in Blocks
  PROVE  Digits(b) \in 1 .. 9 /\ Tens[10 - Digits(b)] \in Nat \ {0}
<1>1. b \in Nat /\ 1 <= b /\ b < 1000000000
  BY SMT, IndexerAssumption DEF Blocks
<1>2. \E d \in 1 .. 9 : Tens[d] <= b /\ b < Tens[d + 1]
  <2>1. CASE b < 10
    BY SMT, <1>1, <2>1 DEF Tens
  <2>2. CASE 10 <= b /\ b < 100
    BY SMT, <1>1, <2>2 DEF Tens
  <2>3. CASE 100 <= b /\ b < 1000
    BY SMT, <1>1, <2>3 DEF Tens
  <2>4. CASE 1000 <= b /\ b < 10000
    BY SMT, <1>1, <2>4 DEF Tens
  <2>5. CASE 10000 <= b /\ b < 100000
    BY SMT, <1>1, <2>5 DEF Tens
  <2>6. CASE 100000 <= b /\ b < 1000000
    BY SMT, <1>1, <2>6 DEF Tens
  <2>7. CASE 1000000 <= b /\ b < 10000000
    BY SMT, <1>1, <2>7 DEF Tens
  <2>8. CASE 10000000 <= b /\ b < 100000000
    BY SMT, <1>1, <2>8 DEF Tens
  <2>9. CASE 100000000 <= b /\ b < 1000000000
    BY SMT, <1>1, <2>9 DEF Tens
  <2> QED BY SMT, <1>1, <2>1, <2>2, <2>3, <2>4, <2>5, <2>6, <2>7, <2>8, <2>9
<1>3. Digits(b) \in 1 .. 9
  BY <1>2 DEF Digits
<1>4. \A k \in 1 .. 9 : Tens[k] \in Nat \ {0}
  BY SMT DEF Tens
<1> QED BY <1>3, <1>4

LEMMA TextOrder ==
  /\ \A m, n \in Blocks : m = n \/ TextLess(m, n) \/ TextLess(n, m)
  /\ \A k, m, n \in Blocks : TextLess(k, m) /\ TextLess(m, n) => TextLess(k, n)
<1>1. \A m, n \in Int, c \in Nat \ {0} : m < n => m * c < n * c
  OBVIOUS
<1>2. \A b \in Blocks : Aligned(b) \in Int /\ Digits(b) \in Int /\ b \in Int
  BY DigitsType DEF Aligned, Blocks
<1>3. ASSUME NEW m \in Blocks, NEW n \in Blocks, Aligned(m) = Aligned(n), Digits(m) = Digits(n)
      PROVE  m = n
  <2>1. PICK c \in Nat \ {0} : c = Tens[10 - Digits(m)]
    BY DigitsType
  <2>2. m * c = n * c
    BY <1>3, <2>1 DEF Aligned
  <2>3. ~ (m < n) /\ ~ (n < m)
    BY <1>1, <1>2, <2>2
  <2> QED BY <1>2, <2>3
<1> QED BY <1>2, <1>3 DEF TextLess

\* The query for the last row finds one.
LEMMA LastRow ==
  ASSUME NEW S \in SUBSET Blocks, S # {}
  PROVE  \E n \in S : \A m \in S : m = n \/ TextLess(m, n)
<1> DEFINE HasLast(T) == \E n \in T : \A m \in T : m = n \/ TextLess(m, n)
           B == {T \in SUBSET S : T # {} /\ ~ HasLast(T)}
<1>0. IsFiniteSet(S)
  <2>1. IsFiniteSet(Blocks)
    <3>1. 1 \in Int /\ MaxHeight \in Int
      BY SMT, IndexerAssumption
    <3> QED BY <3>1, FS_Interval DEF Blocks
  <2> QED BY <2>1, FS_Subset
<1>1. ASSUME B # {} PROVE FALSE
  <2>1. PICK T \in B : \A U \in B : ~ (U \subseteq T /\ U # T)
    <3>1. B \in SUBSET (SUBSET S)
      OBVIOUS
    <3> HIDE DEF B
    <3> QED BY <3>1, <1>0, <1>1, SmallestSubset
  <2>2. T \in SUBSET S /\ T # {} /\ ~ HasLast(T)
    BY <2>1
  <2>3. PICK x \in T : TRUE
    BY <2>2
  <2>4. CASE T \ {x} = {}
    BY <2>2, <2>3, <2>4
  <2>5. CASE T \ {x} # {}
    <3>1. HasLast(T \ {x})
      <4>1. T \ {x} \notin B /\ T \ {x} \in SUBSET S
        BY <2>1, <2>3
      <4> HIDE DEF HasLast
      <4> QED BY <4>1, <2>5
    <3>2. PICK m \in T \ {x} : \A k \in T \ {x} : k = m \/ TextLess(k, m)
      BY <3>1
    <3>3. x \in Blocks /\ m \in Blocks /\ \A k \in T : k \in Blocks
      BY <2>2, <2>3, <3>2
    <3>4. CASE TextLess(x, m)
      BY <2>2, <3>2, <3>4
    <3>5. CASE TextLess(m, x)
      <4>1. \A k \in T : k = x \/ TextLess(k, x)
        BY <3>2, <3>3, <3>5, TextOrder
      <4> QED BY <2>2, <4>1
    <3> QED BY <3>2, <3>3, <3>4, <3>5, TextOrder
  <2> QED BY <2>4, <2>5
<1>2. S \notin B
  BY <1>1
<1> QED BY <1>2

-----------------------------------------------------------------------------
(* What the chain, the rows and the poll look like *)

ChainOk ==
  /\ height \in Birth .. MaxHeight
  /\ Emitted \subseteq Logs
  /\ \A l \in Emitted : emitter[l] \in Contracts /\ l[1] <= height
  /\ System \subseteq tracked /\ tracked \subseteq Contracts

QueueOk == poll.queue \in Seq(Emitted) /\ Sorted(poll.queue)

RestOk ==
  /\ poll = [at |-> poll.at, queue |-> poll.queue]
  /\ poll.at \in {"REST", "LOG", "RECORD"}
  /\ poll.at = "REST" <=> poll.queue = <<>>

RowsOk ==
  /\ recorded \subseteq Emitted
  /\ routed \in [Logs -> Nat]
  /\ failures \in 0 .. MaxFailures

\* pollNewBlocks works on logs of mined blocks, in their order, and the rows
\* it writes are such logs.
TInv == ChainOk /\ QueueOk /\ RestOk /\ RowsOk

LEMMA Bounds ==
  /\ MaxHeight \in Nat /\ Birth \in 1 .. MaxHeight
  /\ MaxLogs \in Nat /\ MaxFailures \in Nat /\ StartBlock \in Nat /\ System \subseteq Contracts
  BY SMT, IndexerAssumption

LEMMA LogsAre ==
  /\ \A l \in Logs : l \in Places /\ l[1] \in Blocks
  /\ \A b \in Blocks, k \in 1 .. MaxLogs : <<b, k>> \in Logs
  /\ IsFiniteSet(Logs)
<1>1. Logs = Blocks \X (1 .. MaxLogs)
  BY DEF Logs, Blocks
<1>2. IsFiniteSet(Blocks) /\ IsFiniteSet(1 .. MaxLogs)
  BY Bounds, FS_Interval DEF Blocks
<1>3. IsFiniteSet(Logs)
  BY <1>1, <1>2, FS_Product
<1>4. \A l \in Logs : l \in Places /\ l[1] \in Blocks
  <2>1. Blocks \subseteq Int /\ 1 .. MaxLogs \subseteq Int
    BY DEF Blocks
  <2> QED BY <1>1, <2>1 DEF Places
<1> QED BY <1>1, <1>3, <1>4

LEMMA InitTypes == Init => TInv
<1> SUFFICES ASSUME Init PROVE TInv
  OBVIOUS
<1>1. Emitted = {}
  BY DEF Init, Emitted
<1>2. ChainOk
  BY <1>1, Bounds DEF Init, ChainOk
<1>3. QueueOk /\ RestOk
  BY DEF Init, QueueOk, RestOk, Resting, Sorted
<1>4. RowsOk
  BY <1>1, Bounds DEF Init, RowsOk
<1> QED BY <1>2, <1>3, <1>4 DEF TInv

\* A block only adds logs, all of them its own.
LEMMA MineAdds ==
  ASSUME TInv, Mine
  PROVE  /\ ChainOk' /\ Emitted \subseteq Emitted'
         /\ \A l \in Emitted' : l \in Emitted \/ l[1] = height + 1
<1>1. PICK n \in 0 .. MaxLogs : \E b \in [{height + 1} \X (1 .. n) -> Contracts] :
        emitter' = [l \in Emitted \cup DOMAIN b |-> IF l \in Emitted THEN emitter[l] ELSE b[l]]
  BY DEF Mine
<1>2. PICK b \in [{height + 1} \X (1 .. n) -> Contracts] :
        emitter' = [l \in Emitted \cup DOMAIN b |-> IF l \in Emitted THEN emitter[l] ELSE b[l]]
  BY <1>1
<1> DEFINE new == {height + 1} \X (1 .. n)
<1>3. Emitted' = Emitted \cup new
  BY <1>2 DEF Emitted
<1>4. \A l \in Emitted' : emitter'[l] = IF l \in Emitted THEN emitter[l] ELSE b[l]
  BY <1>2, <1>3
<1>5. height + 1 \in Birth .. MaxHeight /\ height + 1 \in Blocks /\ height' = height + 1
      /\ height \in Int
  BY Bounds DEF Mine, TInv, ChainOk, Blocks
<1>6. ASSUME NEW l \in new PROVE l \in Logs /\ l[1] = height + 1 /\ b[l] \in Contracts
  <2>1. l[1] = height + 1 /\ l[2] \in 1 .. n /\ l = <<l[1], l[2]>>
    OBVIOUS
  <2>2. l[2] \in 1 .. MaxLogs
    BY <2>1, Bounds
  <2>3. b[l] \in Contracts
    BY <1>2
  <2> HIDE DEF new
  <2> QED BY <1>5, <2>1, <2>2, <2>3, LogsAre
<1> HIDE DEF new
<1>7. \A l \in Emitted' : l \in Emitted \/ l[1] = height + 1
  BY <1>3, <1>6
<1>8. Emitted' \subseteq Logs
  BY <1>3, <1>6 DEF TInv, ChainOk
<1>9. ASSUME NEW l \in Emitted' PROVE emitter'[l] \in Contracts /\ l[1] <= height'
  <2>1. CASE l \in Emitted
    <3>1. l[1] \in Int /\ l[1] <= height
      BY <2>1, LogsAre DEF TInv, ChainOk, Blocks
    <3> QED BY <1>4, <1>5, <2>1, <3>1 DEF TInv, ChainOk
  <2>2. CASE l \notin Emitted
    BY <1>3, <1>4, <1>5, <1>6, <2>2
  <2> QED BY <2>1, <2>2
<1>10. UNCHANGED tracked
  BY DEF Mine
<1> QED BY <1>3, <1>5, <1>7, <1>8, <1>9, <1>10 DEF ChainOk, TInv

\* The logs a poll asks for are a finite set.
LEMMA AskedInOrder ==
  ASSUME TInv, StartPoll
  PROVE  \E asked \in SUBSET Emitted :
           /\ asked = {l \in Emitted : From <= l[1] /\ l[1] <= To /\ emitter[l] \in tracked}
           /\ poll' = [at |-> "LOG", queue |-> InOrder(asked)]
           /\ unseen' = unseen \cup
                ({l \in Emitted : From <= l[1] /\ l[1] <= To} \ asked)
           /\ InOrder(asked) \in Seq(asked) /\ InOrder(asked) # <<>> /\ Sorted(InOrder(asked))
           /\ \A l \in asked : \E i \in DOMAIN InOrder(asked) : InOrder(asked)[i] = l
<1> DEFINE asked == {l \in Emitted : From <= l[1] /\ l[1] <= To /\ emitter[l] \in tracked}
           range == {l \in Emitted : From <= l[1] /\ l[1] <= To}
<1>1. asked = {l \in range : emitter[l] \in tracked}
  OBVIOUS
<1>2. /\ asked # {}
      /\ poll' = [at |-> "LOG", queue |-> InOrder(asked)]
      /\ unseen' = unseen \cup (range \ asked)
  <2> HIDE DEF asked
  <2> QED BY <1>1 DEF StartPoll
<1>3. asked \in SUBSET Emitted /\ asked \in SUBSET Logs
  BY DEF TInv, ChainOk
<1> HIDE DEF asked
<1>4. asked \in SUBSET Places /\ IsFiniteSet(asked)
  BY <1>3, LogsAre, FS_Subset
<1>5. /\ InOrder(asked) \in Seq(asked) /\ InOrder(asked) # <<>> /\ Sorted(InOrder(asked))
      /\ \A l \in asked : \E i \in DOMAIN InOrder(asked) : InOrder(asked)[i] = l
  BY <1>2, <1>4, InOrderLists
<1>6. asked = {l \in Emitted : From <= l[1] /\ l[1] <= To /\ emitter[l] \in tracked}
  BY DEF asked
<1> QED BY <1>2, <1>3, <1>5, <1>6

Waiting(l) == \E i \in DOMAIN poll.queue : poll.queue[i] = l

LEMMA TailOf ==
  ASSUME NEW S, NEW s \in Seq(S), s # <<>>
  PROVE  Tail(s) = <<>> <=> Len(s) = 1
<1>1. Len(s) \in Nat /\ Len(s) # 0
  OBVIOUS
<1>2. Tail(s) \in Seq(S) /\ Len(Tail(s)) = Len(s) - 1
  BY <1>1
<1>3. \A t \in Seq(S) : t = <<>> <=> Len(t) = 0
  OBVIOUS
<1>4. Tail(s) = <<>> <=> Len(Tail(s)) = 0
  BY <1>2, <1>3, Zenon
<1>5. Len(Tail(s)) = 0 <=> Len(s) = 1
  BY <1>1, <1>2
<1> QED BY <1>4, <1>5

\* The next log: the others keep their places.
LEMMA OthersWait ==
  ASSUME TInv, NextLog, poll.queue # <<>>
  PROVE  /\ RestOk'
         /\ poll'.queue \in Seq(Emitted) /\ Sorted(poll'.queue)
         /\ Head(poll.queue) \in Emitted
         /\ 1 \in DOMAIN poll.queue /\ poll.queue[1] = Head(poll.queue)
         /\ \A i \in DOMAIN poll'.queue :
              i + 1 \in DOMAIN poll.queue /\ poll'.queue[i] = poll.queue[i + 1]
         /\ \A l : Waiting(l) => l = Head(poll.queue) \/ Waiting(l)'
<1> DEFINE q == poll.queue
           r == poll'.queue
<1>1. q \in Seq(Emitted) /\ q # <<>> /\ Sorted(q)
  BY DEF TInv, QueueOk
<1>2. r = Tail(q) /\ RestOk'
  <2>1. CASE Len(q) = 1
    <3>1. Tail(q) = <<>>
      BY <1>1, <2>1, TailOf
    <3> QED BY <2>1, <3>1 DEF NextLog, Resting, RestOk
  <2>2. CASE Len(q) # 1
    <3>1. Tail(q) # <<>>
      BY <1>1, <2>2, TailOf
    <3> QED BY <2>2, <3>1 DEF NextLog, RestOk
  <2> QED BY <2>1, <2>2
<1>3. \A l : Waiting(l) <=> \E i \in DOMAIN q : q[i] = l
  BY DEF Waiting
<1>4. \A l : Waiting(l)' <=> \E i \in DOMAIN r : r[i] = l
  BY DEF Waiting
<1> HIDE DEF q, r
<1>5. /\ Len(q) \in Nat /\ Len(q) >= 1 /\ DOMAIN q = 1 .. Len(q)
      /\ Head(q) \in Emitted /\ q[1] = Head(q)
  BY <1>1
<1>6. r \in Seq(Emitted) /\ DOMAIN r = 1 .. Len(q) - 1
      /\ \A i \in DOMAIN r : r[i] = q[i + 1]
  BY <1>1, <1>2
<1>7. \A i \in DOMAIN r : i + 1 \in DOMAIN q /\ r[i] = q[i + 1]
  BY <1>5, <1>6
<1>8. Sorted(r)
  BY <1>1, <1>5, <1>6, <1>7 DEF Sorted
<1>9. ASSUME NEW i \in DOMAIN q, i # 1 PROVE i - 1 \in DOMAIN r /\ r[i - 1] = q[i]
  BY <1>5, <1>6, <1>9
<1>10. \A l : Waiting(l) => l = Head(q) \/ Waiting(l)'
  BY <1>3, <1>4, <1>5, <1>9
<1> QED BY <1>2, <1>5, <1>6, <1>7, <1>8, <1>10 DEF q, r

LEMMA TypesStep == TInv /\ [Next]_vars => TInv'
<1> SUFFICES ASSUME TInv, [Next]_vars PROVE TInv'
  OBVIOUS
<1>1. ASSUME UNCHANGED <<height, emitter, tracked>> PROVE ChainOk'
  BY <1>1 DEF TInv, ChainOk, Emitted
<1>2. ASSUME UNCHANGED <<poll, emitter>> PROVE QueueOk' /\ RestOk'
  BY <1>2 DEF TInv, QueueOk, RestOk, Emitted
<1>3. ASSUME UNCHANGED <<recorded, routed, failures, emitter>> PROVE RowsOk'
  BY <1>3 DEF TInv, RowsOk, Emitted
<1>4. CASE Mine
  <2>1. ChainOk' /\ Emitted \subseteq Emitted'
    BY <1>4, MineAdds
  <2>2. UNCHANGED <<poll, recorded, routed, failures>>
    BY <1>4 DEF Mine, history
  <2>3. poll.queue \in Seq(Emitted')
    <3>1. \A S, T : S \subseteq T => Seq(S) \subseteq Seq(T)
      OBVIOUS
    <3> QED BY <2>1, <3>1 DEF TInv, QueueOk
  <2>4. QueueOk' /\ RestOk'
    BY <2>2, <2>3 DEF TInv, QueueOk, RestOk
  <2>5. RowsOk'
    BY <2>1, <2>2 DEF TInv, RowsOk
  <2> QED BY <2>1, <2>4, <2>5 DEF TInv
<1>5. CASE \E x \in Contracts : NameContract(x)
  <2>1. ChainOk'
    BY <1>5 DEF NameContract, TInv, ChainOk, Emitted
  <2>2. UNCHANGED <<poll, recorded, routed, failures, emitter>>
    BY <1>5 DEF NameContract, history
  <2> QED BY <1>2, <1>3, <2>1, <2>2 DEF TInv
<1>6. CASE StartPoll
  <2>1. UNCHANGED <<height, emitter, tracked, recorded, routed, failures>>
    BY <1>6 DEF StartPoll
  <2>2. PICK asked \in SUBSET Emitted :
          /\ poll' = [at |-> "LOG", queue |-> InOrder(asked)]
          /\ InOrder(asked) \in Seq(asked) /\ InOrder(asked) # <<>> /\ Sorted(InOrder(asked))
    BY <1>6, AskedInOrder
  <2>3. InOrder(asked) \in Seq(Emitted)
    <3>1. \A S, T : S \subseteq T => Seq(S) \subseteq Seq(T)
      OBVIOUS
    <3> QED BY <2>2, <3>1
  <2>4. poll'.queue \in Seq(Emitted) /\ Sorted(poll'.queue) /\ poll'.queue # <<>>
        /\ poll' = [at |-> "LOG", queue |-> poll'.queue] /\ poll'.at = "LOG"
    BY <2>2, <2>3
  <2>5. Emitted' = Emitted
    BY <2>1 DEF Emitted
  <2>6. QueueOk' /\ RestOk'
    BY <2>4, <2>5 DEF QueueOk, RestOk
  <2> QED BY <1>1, <1>3, <2>1, <2>6 DEF TInv
<1>7. CASE SkipLog \/ RecordLog
  <2>1. UNCHANGED <<height, emitter, tracked, routed, failures>> /\ NextLog
    BY <1>7 DEF SkipLog, RecordLog, history
  <2>2. poll.queue # <<>>
    BY <1>7 DEF SkipLog, RecordLog, TInv, RestOk
  <2>3. Emitted' = Emitted
    BY <2>1 DEF Emitted
  <2>4. QueueOk' /\ RestOk' /\ Head(poll.queue) \in Emitted
    BY <2>1, <2>2, <2>3, OthersWait DEF QueueOk
  <2>5. recorded' \subseteq Emitted
    BY <1>7, <2>4 DEF SkipLog, RecordLog, TInv, RowsOk
  <2>6. RowsOk'
    BY <2>1, <2>3, <2>5 DEF TInv, RowsOk
  <2> QED BY <1>1, <2>1, <2>4, <2>6 DEF TInv
<1>8. CASE RouteEvent
  <2>1. UNCHANGED <<height, emitter, tracked, recorded, failures>>
    BY <1>8 DEF RouteEvent
  <2>2. poll'.queue = poll.queue /\ RestOk'
    BY <1>8 DEF RouteEvent, TInv, RestOk
  <2>3. Emitted' = Emitted
    BY <2>1 DEF Emitted
  <2>4. QueueOk'
    BY <2>2, <2>3 DEF TInv, QueueOk
  <2>5. routed' \in [Logs -> Nat]
    <3>1. routed \in [Logs -> Nat]
      BY DEF TInv, RowsOk
    <3>2. routed' = [routed EXCEPT ![Head(poll.queue)] = routed[Head(poll.queue)] + 1]
      BY <1>8 DEF RouteEvent
    <3> DEFINE h == Head(poll.queue)
    <3>3. routed' = [l \in Logs |-> IF l = h THEN routed[l] + 1 ELSE routed[l]]
      BY <3>1, <3>2
    <3> HIDE DEF h
    <3>4. ASSUME NEW l \in Logs PROVE (IF l = h THEN routed[l] + 1 ELSE routed[l]) \in Nat
      BY <3>1
    <3> QED BY <3>3, <3>4
  <2>6. RowsOk'
    BY <2>1, <2>3, <2>5 DEF TInv, RowsOk
  <2> QED BY <1>1, <2>1, <2>2, <2>4, <2>6 DEF TInv
<1>9. CASE PollEnds
  <2>1. UNCHANGED <<height, emitter, tracked, recorded, routed>> /\ poll' = Resting
        /\ failures' = failures + 1 /\ failures < MaxFailures
    BY <1>9 DEF PollEnds
  <2>2. QueueOk' /\ RestOk'
    BY <2>1 DEF QueueOk, RestOk, Resting, Sorted
  <2>3. failures' \in 0 .. MaxFailures
    BY <2>1, Bounds DEF TInv, RowsOk
  <2>4. Emitted' = Emitted
    BY <2>1 DEF Emitted
  <2>5. RowsOk'
    BY <2>1, <2>3, <2>4 DEF TInv, RowsOk
  <2> QED BY <1>1, <2>1, <2>2, <2>5 DEF TInv
<1>10. CASE UNCHANGED vars
  BY <1>1, <1>2, <1>3, <1>10 DEF TInv, vars, history
<1> QED BY <1>4, <1>5, <1>6, <1>7, <1>8, <1>9, <1>10 DEF Next, Poll

\* The indexer works on logs of the chain, from blocks that are mined, and in
\* their order: no row is of a log that was never emitted.
THEOREM IndexerTypes == Spec => []TypeInv
<1>1. TInv => TypeInv
  <2> SUFFICES ASSUME TInv PROVE TypeInv
    OBVIOUS
  <2>1. \A i, j \in DOMAIN poll.queue :
          poll.queue[i] \in Emitted /\ (i < j => Before(poll.queue[i], poll.queue[j]))
    BY DEF TInv, QueueOk, Sorted
  <2> QED BY <2>1 DEF TInv, ChainOk, RestOk, RowsOk, TypeInv
<1> QED BY <1>1, InitTypes, TypesStep, PTL DEF Spec

-----------------------------------------------------------------------------
(* No log is left behind *)

Passed(l) == l \in recorded \cup unseen \cup cut

\* A log up to whose block there is a row was recorded, is a known miss, or is
\* still to come, its block's row being that of an earlier log.
RowsBehind ==
  \A l \in Emitted : \A k \in recorded :
    StartBlock <= l[1] /\ l[1] <= k[1] => Passed(l) \/ (Waiting(l) /\ l[1] = k[1])

\* And what the poll at work has asked for has no gaps.
QueueBehind ==
  \A l \in Emitted : \A i \in DOMAIN poll.queue :
    StartBlock <= l[1] /\ l[1] <= poll.queue[i][1] => Passed(l) \/ Waiting(l)

\* pollNewBlocks goes on where the rows end, as far as the table's text order
\* lets it see, and never past a log that it still has to record.
GInv == TInv /\ RowsBehind /\ QueueBehind

\* A row that is the last in the text order is the row of a mined block.
LEMMA LastBlockOf ==
  ASSUME TInv, recorded # {}
  PROVE  \E k \in recorded : LastBlock = k[1]
<1>1. Recorded \in SUBSET Blocks /\ Recorded # {}
  <2>1. \A k \in recorded : k[1] \in Blocks
    BY LogsAre DEF TInv, RowsOk, ChainOk
  <2> QED BY <2>1 DEF Recorded
<1>2. \E n \in Recorded : \A m \in Recorded : m = n \/ TextLess(m, n)
  BY <1>1, LastRow
<1>3. LastBlock \in Recorded
  BY <1>2 DEF LastBlock
<1> QED BY <1>3 DEF Recorded

LEMMA EmittedPlaces ==
  ASSUME TInv
  PROVE  /\ \A l \in Emitted : l[1] \in Int /\ l[2] \in Int /\ l[1] <= height
         /\ height \in Int /\ StartBlock \in Int /\ recorded \subseteq Emitted
<1>1. \A l \in Emitted : l \in Places
  BY LogsAre DEF TInv, ChainOk
<1>2. \A l \in Places : l[1] \in Int /\ l[2] \in Int
  BY DEF Places
<1> QED BY <1>1, <1>2, Bounds DEF TInv, ChainOk, RowsOk

LEMMA GapsStart ==
  ASSUME GInv, StartPoll, StartBlock # 0
  PROVE  (RowsBehind /\ QueueBehind)'
<1>1. PICK asked \in SUBSET Emitted :
           /\ asked = {l \in Emitted : From <= l[1] /\ l[1] <= To /\ emitter[l] \in tracked}
           /\ poll' = [at |-> "LOG", queue |-> InOrder(asked)]
           /\ unseen' = unseen \cup
                ({l \in Emitted : From <= l[1] /\ l[1] <= To} \ asked)
           /\ InOrder(asked) \in Seq(asked) /\ InOrder(asked) # <<>> /\ Sorted(InOrder(asked))
           /\ \A l \in asked : \E i \in DOMAIN InOrder(asked) : InOrder(asked)[i] = l
  BY AskedInOrder DEF GInv
<1>2. UNCHANGED <<emitter, recorded, cut>> /\ Emitted' = Emitted /\ poll = Resting
  BY DEF StartPoll, Emitted
<1>3. \A l : ~ Waiting(l)
  BY <1>2 DEF Waiting, Resting
<1>4. \A l : Passed(l) => Passed(l)'
  BY <1>1, <1>2 DEF Passed
<1>5. RowsBehind'
  BY <1>2, <1>3, <1>4 DEF RowsBehind, GInv
<1>6. \A l \in asked : Waiting(l)'
  BY <1>1 DEF Waiting
<1>7. \A i \in DOMAIN poll'.queue : poll'.queue[i] \in asked
  BY <1>1
<1>8. ASSUME NEW l \in Emitted, StartBlock <= l[1], l[1] < From PROVE Passed(l)
  <2>1. CASE recorded = {}
    BY <1>8, <2>1, EmittedPlaces DEF From, GInv
  <2>2. CASE recorded # {}
    <3>1. PICK k \in recorded : LastBlock = k[1]
      BY <2>2, LastBlockOf DEF GInv
    <3>2. l[1] <= k[1]
      BY <1>8, <2>2, <3>1, EmittedPlaces DEF From, GInv
    <3> QED BY <1>3, <1>8, <3>2 DEF RowsBehind, GInv
  <2> QED BY <2>1, <2>2
<1>9. From \in Int
  <2>1. CASE recorded = {}
    BY <2>1, EmittedPlaces DEF From, GInv
  <2>2. CASE recorded # {}
    BY <2>2, LastBlockOf, EmittedPlaces DEF From, GInv
  <2> QED BY <2>1, <2>2
<1>10. To \in Int
  BY SMT, <1>9, EmittedPlaces, IndexerAssumption DEF To, GInv
<1>11. ASSUME NEW l \in Emitted, NEW i \in DOMAIN poll'.queue,
              StartBlock <= l[1], l[1] <= poll'.queue[i][1]
       PROVE  Passed(l)' \/ Waiting(l)'
  <2>1. CASE l[1] < From
    BY <1>4, <1>8, <1>11, <2>1
  <2>2. CASE From <= l[1]
    <3>1. poll'.queue[i] \in Emitted /\ poll'.queue[i][1] <= To
      BY <1>1, <1>7
    <3>2. l[1] <= To
      BY <1>10, <1>11, <3>1, EmittedPlaces DEF GInv
    <3>3. CASE emitter[l] \in tracked
      <4>1. l \in asked
        BY <1>1, <2>2, <3>2, <3>3
      <4> QED BY <1>6, <4>1
    <3>4. CASE emitter[l] \notin tracked
      <4>1. l \notin asked
        BY <1>1, <3>4
      <4>2. l \in unseen'
        BY <1>1, <2>2, <3>2, <4>1
      <4> QED BY <4>2 DEF Passed
    <3> QED BY <3>3, <3>4
  <2> QED BY <1>9, <1>11, <2>1, <2>2, EmittedPlaces DEF GInv
<1>12. QueueBehind'
  BY <1>2, <1>11 DEF QueueBehind
<1> QED BY <1>5, <1>12

LEMMA GapsNext ==
  ASSUME GInv, SkipLog \/ RecordLog
  PROVE  (RowsBehind /\ QueueBehind)'
<1> DEFINE h == Head(poll.queue)
<1>1. NextLog /\ recorded' = recorded \cup {h} /\ UNCHANGED <<emitter, unseen, cut>>
  BY DEF SkipLog, RecordLog, HasRow, history
<1>2. poll.queue # <<>>
  BY DEF SkipLog, RecordLog, GInv, TInv, RestOk
<1>3. /\ h \in Emitted /\ 1 \in DOMAIN poll.queue /\ poll.queue[1] = h
      /\ \A i \in DOMAIN poll'.queue :
           i + 1 \in DOMAIN poll.queue /\ poll'.queue[i] = poll.queue[i + 1]
      /\ \A l : Waiting(l) => l = h \/ Waiting(l)'
  BY <1>1, <1>2, OthersWait DEF GInv
<1> HIDE DEF h
<1>4. Emitted' = Emitted
  BY <1>1 DEF Emitted
<1>5. \A l : Passed(l) \/ l = h => Passed(l)'
  BY <1>1 DEF Passed
<1>6. QueueBehind'
  BY <1>3, <1>4, <1>5 DEF QueueBehind, GInv
<1>7. ASSUME NEW l, Waiting(l) PROVE l \in Emitted /\ h[1] <= l[1]
  <2>1. PICK i \in DOMAIN poll.queue : poll.queue[i] = l
    BY <1>7 DEF Waiting
  <2>2. i \in Nat /\ i >= 1 /\ l \in Emitted
    BY <2>1 DEF GInv, TInv, QueueOk
  <2>3. i = 1 \/ Before(h, l)
    BY <1>3, <2>1, <2>2 DEF GInv, TInv, QueueOk, Sorted
  <2> QED BY <1>3, <2>1, <2>2, <2>3, EmittedPlaces DEF Before, GInv
<1>8. ASSUME NEW l \in Emitted, NEW k \in recorded', StartBlock <= l[1], l[1] <= k[1]
      PROVE  Passed(l)' \/ (Waiting(l)' /\ l[1] = k[1])
  <2>1. CASE k \in recorded
    BY <1>3, <1>5, <1>8, <2>1 DEF RowsBehind, GInv
  <2>2. CASE k = h
    <3>1. Passed(l) \/ Waiting(l)
      BY <1>3, <1>8, <2>2 DEF QueueBehind, GInv
    <3>2. CASE Waiting(l)
      <4>1. l[1] = k[1]
        BY <1>3, <1>7, <1>8, <2>2, <3>2, EmittedPlaces DEF GInv
      <4> QED BY <1>3, <1>5, <3>2, <4>1
    <3> QED BY <1>5, <3>1, <3>2
  <2> QED BY <1>1, <2>1, <2>2
<1>9. RowsBehind'
  BY <1>4, <1>8 DEF RowsBehind
<1> QED BY <1>6, <1>9

LEMMA GapsStep == StartBlock # 0 /\ GInv /\ [Next]_vars => GInv'
<1> SUFFICES ASSUME StartBlock # 0, GInv, [Next]_vars PROVE GInv'
  OBVIOUS
<1>1. TInv'
  BY TypesStep DEF GInv
<1> SUFFICES (RowsBehind /\ QueueBehind)'
  BY <1>1 DEF GInv
<1>2. ASSUME UNCHANGED <<emitter, recorded, unseen, cut>>, poll'.queue = poll.queue
      PROVE  (RowsBehind /\ QueueBehind)'
  BY <1>2 DEF GInv, RowsBehind, QueueBehind, Emitted, Passed, Waiting
<1>3. CASE Mine
  <2>1. \A l \in Emitted' : l \in Emitted \/ l[1] = height + 1
    BY <1>3, MineAdds DEF GInv
  <2>2. UNCHANGED <<recorded, poll, unseen, cut>>
    BY <1>3 DEF Mine, history
  <2>3. \A k \in recorded : k[1] \in Int /\ k[1] <= height
    BY EmittedPlaces DEF GInv
  <2>4. \A i \in DOMAIN poll.queue : poll.queue[i][1] \in Int /\ poll.queue[i][1] <= height
    <3>1. \A i \in DOMAIN poll.queue : poll.queue[i] \in Emitted
      BY DEF GInv, TInv, QueueOk
    <3> QED BY <3>1, EmittedPlaces DEF GInv
  <2>5. height \in Int
    BY EmittedPlaces DEF GInv
  <2>6. RowsBehind'
    BY <2>1, <2>2, <2>3, <2>5 DEF GInv, RowsBehind, Passed, Waiting
  <2>7. QueueBehind'
    BY <2>1, <2>2, <2>4, <2>5 DEF GInv, QueueBehind, Passed, Waiting
  <2> QED BY <2>6, <2>7
<1>4. CASE \E x \in Contracts : NameContract(x)
  BY <1>2, <1>4 DEF NameContract, history
<1>5. CASE StartPoll
  BY <1>5, GapsStart
<1>6. CASE SkipLog \/ RecordLog
  BY <1>6, GapsNext
<1>7. CASE RouteEvent
  BY <1>2, <1>7 DEF RouteEvent, GInv, TInv, RestOk
<1>8. CASE PollEnds
  <2>1. UNCHANGED <<emitter, recorded, unseen>> /\ poll' = Resting /\ cut' = cut \cup Remains
    BY <1>8 DEF PollEnds
  <2>2. QueueBehind'
    BY <2>1 DEF QueueBehind, Resting
  <2>3. \A l : Passed(l) => Passed(l)'
    BY <2>1 DEF Passed
  <2>4. ASSUME NEW l, NEW k \in recorded, Waiting(l), l[1] = k[1] PROVE Passed(l)'
    <3>1. l \in recorded \/ l \in Remains
      BY <2>4 DEF Remains, Waiting
    <3> QED BY <2>1, <3>1 DEF Passed
  <2>5. RowsBehind'
    BY <2>1, <2>3, <2>4 DEF RowsBehind, GInv, Emitted
  <2> QED BY <2>2, <2>5
<1>9. CASE UNCHANGED vars
  BY <1>2, <1>9 DEF vars, history
<1> QED BY <1>3, <1>4, <1>5, <1>6, <1>7, <1>8, <1>9 DEF Next, Poll

\* An indexer with a start block is past a log that it has not recorded only
\* if the contract was not tracked when the range was asked for, or a poll ended
\* within the block: the text order of the rows costs it time, never a log
\* (pollNewBlocks).  Without START_BLOCK it begins a few blocks ago and leaves
\* what is older.
THEOREM NothingIsSkipped ==
  ASSUME StartBlock # 0
  PROVE  Spec => []NothingSkippedSilently
<1>1. Init => GInv
  <2> SUFFICES ASSUME Init PROVE GInv
    OBVIOUS
  <2>1. recorded = {} /\ poll.queue = <<>>
    BY DEF Init, Resting
  <2> QED BY <2>1, InitTypes DEF GInv, RowsBehind, QueueBehind
<1>2. GInv /\ [Next]_vars => GInv'
  BY GapsStep
<1>3. GInv => NothingSkippedSilently
  <2> SUFFICES ASSUME GInv, recorded # {}, NEW l \in Emitted, l[1] < From, l[1] >= StartBlock
               PROVE  Passed(l) \/ Waiting(l)
    BY DEF NothingSkippedSilently, Passed, Waiting
  <2>1. PICK k \in recorded : LastBlock = k[1]
    BY LastBlockOf DEF GInv
  <2>2. l[1] <= k[1] /\ StartBlock <= l[1]
    BY <2>1, EmittedPlaces DEF From, GInv
  <2> QED BY <2>2 DEF RowsBehind, GInv
<1> QED BY <1>1, <1>2, <1>3, PTL DEF Spec
=============================================================================
