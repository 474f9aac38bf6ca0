------------------------- MODULE AssetGovernanceProofs -------------------------
(* Prices, pods, proposals and rows of an asset agree with the contracts, for  *)
(* every set of assets, pods and requests, and any number of restarts.          *)
EXTENDS AssetGovernance, SequenceTheorems, WellFoundedInduction, TLAPS

-----------------------------------------------------------------------------
(* The inductive invariant *)

Governing == {"propose", "execute", "liquidate"}
Deploying == {"approve", "tokenize"}
Places == {"DEPLOY", "SAVE", "LINK", "WHITELIST", "COMMIT", "QUEUED", "SYNC", "MARK",
           "UPDATE", "WAIT", "BAND", "SYNCED", "UNSYNCED", "CHAIN", "RECORD", "CLOSE"}

Busy == [op : Governing \cup Deploying \cup {"status", "price"}, asset : Assets,
         at : Places, row : Row, pod : Pods \cup {NoPod}, arg : Nat \cup {None}]

Events == [type : {"AssetPodDeployed"}, pod : Pods]
            \cup [type : {"ProposalCreated"}, pod : Pods, id : 1..Proposals]

Heals == [at : {"SAVE"}, asset : Assets, row : Row]

Chain == [owner : [Pods -> SUBSET Assets], whitelisted : SUBSET Pods, band : [Pods -> Nat],
          count : [Pods -> 0..Proposals], executed : SUBSET (Pods \X Nat),
          paused : SUBSET Pods]

ProposalRow == [asset : Assets, id : 1..Proposals,
                status : {"PENDING", "EXECUTED", "LIQUIDATED"}, by : {"service", "indexer"}]

Mutexes == [{"tokenization", "price", "oracle"} -> Calls \cup {None}]

Requests ==
  /\ call \in [Calls -> Busy \cup {NoCall, Done}]
  /\ mutex \in Mutexes
  /\ locks \in [Assets -> Calls \cup {None}]

Stores ==
  /\ asset \in [Assets -> Row]
  /\ tokenized \subseteq Assets
  /\ proposal \subseteq ProposalRow
  /\ chain \in Chain
  /\ inbox \in Seq(Events)
  /\ healing \in Heals \cup {NoCall}
  /\ homes \subseteq (Assets \X Pods)
  /\ crashes \in 0..MaxCrashes

Shape == Requests /\ Stores

\* A row somebody has read and may save: its asset has the same price still,
\* and has named its pod.
Known(a, row) ==
  /\ Exists(a) /\ row.status # None
  /\ row.price = asset[a].price
  /\ row.pod # NoPod => <<a, row.pod>> \in homes

RowsKnown == \A a \in Assets : asset[a].pod # NoPod => <<a, asset[a].pod>> \in homes

\* What a request that runs may rely on.
CallOK(c) ==
  /\ Known(call[c].asset, call[c].row)
  /\ call[c].at \in {"DEPLOY", "LINK", "WHITELIST", "COMMIT"} => call[c].op \in Deploying
  /\ call[c].at \in {"LINK", "WHITELIST", "COMMIT"} =>
       call[c].pod \in Pods /\ chain.owner[call[c].pod] = {call[c].asset}
  /\ call[c].at = "COMMIT" => call[c].pod \in chain.whitelisted
  /\ call[c].op \in Governing =>
       /\ call[c].at \in {"CHAIN", "RECORD", "CLOSE"}
       /\ call[c].pod \in Pods /\ <<call[c].asset, call[c].pod>> \in homes
  /\ call[c].op = "propose" /\ call[c].at = "RECORD" =>
       call[c].arg \in 1..chain.count[call[c].pod]
  /\ call[c].op = "execute" =>
       /\ call[c].arg \in Nat
       /\ call[c].at = "RECORD" => <<call[c].pod, call[c].arg>> \in chain.executed
  /\ call[c].op = "liquidate" /\ call[c].at = "RECORD" => call[c].pod \in chain.paused
  /\ call[c].op = "price" => call[c].arg \in Nat
  /\ call[c].op = "price" /\ call[c].at \in {"SYNC", "WAIT", "BAND", "SYNCED", "UNSYNCED"} =>
       locks[call[c].asset] = c
  /\ call[c].at \in {"WAIT", "BAND", "SYNCED", "UNSYNCED"} =>
       call[c].pod = call[c].row.pod /\ call[c].pod \in Pods

CallsOK == \A c \in Calls : call[c] \in Busy => CallOK(c)

HealOK ==
  healing # NoCall =>
    /\ inbox # <<>> /\ Head(inbox).type = "AssetPodDeployed"
    /\ Known(healing.asset, healing.row)

Owners ==
  /\ \A m \in DOMAIN mutex : mutex[m] # None => call[mutex[m]] \in Busy
  /\ \A a \in Assets : locks[a] # None => call[locks[a]] \in Busy

Base == Shape /\ RowsKnown /\ CallsOK /\ HealOK /\ Owners

\* What no step takes back.
Kept ==
  /\ homes \subseteq homes'
  /\ \A a \in Assets : Exists(a) => Exists(a)' /\ asset'[a].price = asset[a].price
  /\ \A p \in Pods : chain.owner[p] # {} => chain'.owner[p] = chain.owner[p]
  /\ chain.whitelisted \subseteq chain'.whitelisted
  /\ chain.executed \subseteq chain'.executed
  /\ chain.paused \subseteq chain'.paused
  /\ \A p \in Pods : chain.count[p] <= chain'.count[p]

-----------------------------------------------------------------------------
(* Numbers and rows *)

\* Oldest returns a member of the set it is given.
LEMMA OldestIn == ASSUME NEW S, S \subseteq Nat, S # {} PROVE Oldest(S) \in S
<1> DEFINE R == {ss \in Nat \X Nat : ss[1] < ss[2]}
<1>1. IsWellFoundedOn(R, Nat)
  BY NatLessThanWellFounded DEF OpToRel
<1>2. PICK x \in S : \A y \in S : ~ (<<y, x>> \in R)
  <2> HIDE DEF R
  <2> QED BY <1>1, WFMin, Zenon
<1>3. ASSUME NEW y \in S PROVE x <= y
  <2>1. <<y, x>> \in Nat \X Nat /\ ~ (<<y, x>>[1] < <<y, x>>[2])
    BY <1>2
  <2> QED BY <2>1
<1> QED BY <1>3 DEF Oldest

\* A unit price is a number of cents.
LEMMA UnitPriceNat ==
  ASSUME NEW t \in Nat, NEW s \in Nat \ {0}
  PROVE  UnitPrice(t, s) \in Nat
  BY DEF UnitPrice

\* A row saved over its predecessor: its pod is recorded, all else is kept.
LEMMA SaveRowOK ==
  ASSUME Base, NEW a \in Assets, NEW row \in Row, row.status # None,
         Exists(a) => row.price = asset[a].price, SaveRow(a, row)
  PROVE  /\ asset' \in [Assets -> Row] /\ asset'[a] = row
         /\ homes' \subseteq (Assets \X Pods) /\ homes \subseteq homes'
         /\ RowsKnown'
         /\ row.pod # NoPod => <<a, row.pod>> \in homes'
         /\ \A b \in Assets : Exists(b) => Exists(b)' /\ asset'[b].price = asset[b].price
<1>1. /\ asset \in [Assets -> Row] /\ homes \subseteq (Assets \X Pods)
      /\ asset' = [asset EXCEPT ![a] = row]
      /\ homes' = IF row.pod = NoPod THEN homes ELSE homes \cup {<<a, row.pod>>}
  BY DEF SaveRow, Base, Shape, Requests, Stores
<1>2. row.pod # NoPod => <<a, row.pod>> \in Assets \X Pods
  BY DEF Row
<1>3. homes \subseteq homes' /\ homes' \subseteq (Assets \X Pods)
      /\ (row.pod # NoPod => <<a, row.pod>> \in homes')
  BY <1>1, <1>2
<1>4. asset' \in [Assets -> Row] /\ asset'[a] = row
      /\ \A b \in Assets : b # a => asset'[b] = asset[b]
  BY <1>1
<1>5. RowsKnown'
  BY <1>3, <1>4 DEF RowsKnown, Base
<1> QED BY <1>3, <1>4, <1>5 DEF Exists

\* Requests of different kinds, and those that do not run.
LEMMA Idle ==
  /\ NoCall \notin Busy /\ Done \notin Busy /\ NoCall \notin Heals
  /\ \A k \in Busy : k.at \notin {"NEW", "DONE"}
  BY DEF NoCall, Done, Busy, Places, Heals

LEMMA BusyAt ==
  ASSUME Base, NEW c \in Calls, call[c].at \in Places
  PROVE  call[c] \in Busy /\ CallOK(c)
  BY DEF Base, Shape, Requests, CallsOK, NoCall, Done, Places

\* A row that was read stays known.
LEMMA KnownKept ==
  ASSUME NEW a \in Assets, NEW row, Known(a, row), Kept
  PROVE  Known(a, row)'
  BY DEF Known, Kept, Exists

\* What others do leaves a request's knowledge true.
LEMMA CallKept ==
  ASSUME Base, Kept, chain' \in Chain, NEW c \in Calls, call[c] \in Busy, call'[c] = call[c],
         \A a \in Assets : locks[a] = c => locks'[a] = c
  PROVE  CallOK(c)'
<1>1. CallOK(c) /\ call[c].asset \in Assets
  BY DEF Base, CallsOK, Busy
<1>2. Known(call[c].asset, call[c].row)'
  BY <1>1, KnownKept DEF CallOK
<1>3. call[c].at \in {"LINK", "WHITELIST", "COMMIT"} =>
        call[c].pod \in Pods /\ chain'.owner[call[c].pod] = {call[c].asset}
  BY <1>1 DEF CallOK, Kept
<1>4. call[c].op = "propose" /\ call[c].at = "RECORD" =>
        call[c].arg \in 1..chain'.count[call[c].pod]
  <2> SUFFICES ASSUME call[c].op = "propose", call[c].at = "RECORD"
               PROVE  call[c].arg \in 1..chain'.count[call[c].pod]
    OBVIOUS
  <2>1. call[c].pod \in Pods /\ call[c].arg \in 1..chain.count[call[c].pod]
    BY <1>1 DEF CallOK, Governing
  <2>2. chain.count[call[c].pod] \in Int /\ chain'.count[call[c].pod] \in Int
    <3>1. chain.count \in [Pods -> 0..Proposals] /\ chain'.count \in [Pods -> 0..Proposals]
      BY DEF Base, Shape, Stores, Chain
    <3>2. chain.count[call[c].pod] \in 0..Proposals /\ chain'.count[call[c].pod] \in 0..Proposals
      BY <2>1, <3>1
    <3> QED BY <3>2, AssetAssumption
  <2> QED BY <2>1, <2>2 DEF Kept
<1> QED BY <1>1, <1>2, <1>3, <1>4 DEF CallOK, Kept

LEMMA HealKept ==
  ASSUME Base, Kept, healing' = healing, healing # NoCall => inbox' # <<>> /\ Head(inbox') = Head(inbox)
  PROVE  HealOK'
<1> SUFFICES ASSUME healing # NoCall PROVE HealOK'
  BY DEF HealOK
<1>1. healing \in Heals /\ HealOK
  BY DEF Base, Shape, Requests, Stores
<1>2. healing.asset \in Assets
  BY <1>1 DEF Heals
<1> QED BY <1>1, <1>2, KnownKept DEF HealOK

-----------------------------------------------------------------------------
(* The initial states *)

LEMMA InitBase == Init => Base
<1> SUFFICES ASSUME Init PROVE Base
  OBVIOUS
<1> USE AssetAssumption
<1> DEFINE S == {UnitPrice(o[1], o[2]) : o \in Offers}
<1>1. S \subseteq Nat /\ S # {}
  <2>1. ASSUME NEW o \in Offers PROVE UnitPrice(o[1], o[2]) \in Nat
    <3>1. o[1] \in Nat /\ o[2] \in Nat \ {0}
      OBVIOUS
    <3> QED BY <3>1, UnitPriceNat
  <2> QED BY <2>1
<1>2. LowestPrice \in Nat
  BY <1>1, OldestIn DEF LowestPrice
<1>3. Oldest(Listed) \in Listed
  BY OldestIn
<1>4. asset \in [Assets -> Row] /\ RowsKnown
  <2>1. ASSUME NEW a \in Assets
        PROVE  /\ asset[a] \in Row
               /\ asset[a].pod # NoPod => a = Oldest(Listed) /\ asset[a].pod = 1
    BY <1>2 DEF Init, Row, NoRow, NoPod
  <2>2. asset \in [Assets -> Row]
    BY <2>1 DEF Init
  <2> QED BY <2>1, <2>2 DEF RowsKnown, Init
<1>5. chain \in Chain
  <2>1. [p \in Pods |-> IF p = 1 THEN {Oldest(Listed)} ELSE {}] \in [Pods -> SUBSET Assets]
    BY <1>3
  <2> QED BY <2>1 DEF Init, Chain
<1>6. call \in [Calls -> Busy \cup {NoCall, Done}] /\ \A c \in Calls : call[c] \notin Busy
  BY Idle DEF Init
<1>7. mutex \in Mutexes
      /\ \A m \in DOMAIN mutex : mutex[m] = None
  BY DEF Init, Mutexes
<1>8. locks \in [Assets -> Calls \cup {None}] /\ \A a \in Assets : locks[a] = None
  BY DEF Init
<1>9. homes \subseteq (Assets \X Pods) /\ inbox \in Seq(Events) /\ healing = NoCall
      /\ tokenized = {} /\ proposal = {} /\ crashes \in 0..MaxCrashes
  <2>1. <<Oldest(Listed), 1>> \in Assets \X Pods
    BY <1>3
  <2>2. inbox \in Seq(Events)
    BY DEF Init
  <2>3. homes = {<<Oldest(Listed), 1>>}
    BY DEF Init
  <2>4. 0 \in 0..MaxCrashes
    OBVIOUS
  <2> QED BY <2>1, <2>2, <2>3, <2>4 DEF Init
<1>10. Shape
  BY <1>4, <1>5, <1>6, <1>7, <1>8, <1>9 DEF Shape, Requests, Stores
<1> QED BY <1>4, <1>6, <1>7, <1>8, <1>9, <1>10 DEF Base, CallsOK, HealOK, Owners

-----------------------------------------------------------------------------
(* Steps *)

LEMMA KeptStill == ASSUME Base, UNCHANGED <<asset, chain, homes>> PROVE Kept
<1>1. \A p \in Pods : chain.count[p] <= chain.count[p]
  <2>1. chain.count \in [Pods -> 0..Proposals]
    BY DEF Base, Shape, Stores, Chain
  <2> QED BY <2>1, AssetAssumption
<1> QED BY <1>1 DEF Kept, Exists

\* Nothing is stored: what was known is known.
LEMMA Still ==
  ASSUME Base, UNCHANGED <<asset, tokenized, proposal, chain, inbox, healing, homes, crashes>>
  PROVE  Stores' /\ Kept /\ RowsKnown' /\ HealOK'
<1>1. Stores'
  BY DEF Base, Shape, Stores
<1>3. Kept
  BY KeptStill
<1>4. HealOK'
  BY <1>3, HealKept DEF Base, HealOK
<1> QED BY <1>1, <1>3, <1>4 DEF RowsKnown, Base

\* A request goes on, as k, and may take mutexes or locks that are free.
LEMMA GoesOn ==
  ASSUME Base, Kept, Stores', RowsKnown', HealOK',
         NEW c \in Calls, NEW k \in Busy, call' = [call EXCEPT ![c] = k], CallOK(c)',
         mutex' \in Mutexes, \A m \in DOMAIN mutex : mutex'[m] \in {mutex[m], None, c},
         locks' \in [Assets -> Calls \cup {None}],
         \A a \in Assets : locks'[a] = locks[a] \/ (locks[a] = None /\ locks'[a] = c)
  PROVE  Base'
<1>1. call \in [Calls -> Busy \cup {NoCall, Done}] /\ call' \in [Calls -> Busy \cup {NoCall, Done}]
  BY DEF Base, Shape, Requests
<1>2. call'[c] = k /\ \A d \in Calls : d # c => call'[d] = call[d]
  BY <1>1
<1>3. CallsOK'
  <2> SUFFICES ASSUME NEW d \in Calls, call'[d] \in Busy PROVE CallOK(d)'
    BY DEF CallsOK
  <2>1. CASE d = c
    BY <2>1
  <2>2. CASE d # c
    <3>1. d # None
      BY AssetAssumption
    <3>2. call'[d] = call[d] /\ \A a \in Assets : locks[a] = d => locks'[a] = d
      BY <1>2, <2>2, <3>1
    <3> QED BY <3>2, CallKept DEF Stores
  <2> QED BY <2>1, <2>2
<1>4. Owners'
  <2>1. c # None /\ DOMAIN mutex = DOMAIN mutex'
    BY AssetAssumption DEF Base, Shape, Requests, Mutexes
  <2>2. ASSUME NEW m \in DOMAIN mutex', mutex'[m] # None PROVE call'[mutex'[m]] \in Busy
    <3>1. mutex'[m] \in Calls /\ (mutex'[m] = c \/ call[mutex'[m]] \in Busy)
      BY <2>1, <2>2 DEF Base, Owners, Mutexes
    <3> QED BY <3>1, <1>2
  <2>3. ASSUME NEW a \in Assets, locks'[a] # None PROVE call'[locks'[a]] \in Busy
    <3>1. locks'[a] \in Calls /\ (locks'[a] = c \/ call[locks'[a]] \in Busy)
      BY <2>3 DEF Base, Owners
    <3> QED BY <3>1, <1>2
  <2> QED BY <2>2, <2>3 DEF Owners
<1> QED BY <1>1, <1>3, <1>4 DEF Base, Shape, Requests

\* A request ends.
LEMMA Ends ==
  ASSUME Base, Kept, Stores', RowsKnown', HealOK', NEW c \in Calls, End(c)
  PROVE  Base'
<1>1. /\ call \in [Calls -> Busy \cup {NoCall, Done}]
      /\ mutex \in Mutexes /\ locks \in [Assets -> Calls \cup {None}]
  BY DEF Base, Shape, Requests
<1>2. /\ call' = [call EXCEPT ![c] = Done]
      /\ mutex' = [m \in DOMAIN mutex |-> IF mutex[m] = c THEN None ELSE mutex[m]]
      /\ locks' = [a \in Assets |-> IF locks[a] = c THEN None ELSE locks[a]]
  BY DEF End
<1>3. Requests'
  <2>1. call' \in [Calls -> Busy \cup {NoCall, Done}]
    BY <1>1, <1>2
  <2>2. mutex' \in Mutexes
    BY <1>1, <1>2 DEF Mutexes
  <2>3. locks' \in [Assets -> Calls \cup {None}]
    BY <1>1, <1>2
  <2> QED BY <2>1, <2>2, <2>3 DEF Requests
<1>4. call'[c] = Done /\ \A d \in Calls : d # c => call'[d] = call[d]
  BY <1>1, <1>2
<1>5. CallsOK'
  <2> SUFFICES ASSUME NEW d \in Calls, call'[d] \in Busy PROVE CallOK(d)'
    BY DEF CallsOK
  <2>1. d # c /\ call'[d] = call[d] /\ \A a \in Assets : locks[a] = d => locks'[a] = d
    BY <1>2, <1>4, Idle
  <2> QED BY <2>1, CallKept DEF Stores
<1>6. Owners'
  <2>1. ASSUME NEW m \in DOMAIN mutex', mutex'[m] # None PROVE call'[mutex'[m]] \in Busy
    <3>1. m \in DOMAIN mutex /\ mutex[m] # c /\ mutex'[m] = mutex[m] /\ mutex[m] # None
      BY <1>2, <2>1
    <3>2. mutex[m] \in Calls /\ call[mutex[m]] \in Busy
      BY <1>1, <3>1 DEF Base, Owners, Mutexes
    <3> QED BY <3>1, <3>2, <1>4
  <2>2. ASSUME NEW a \in Assets, locks'[a] # None PROVE call'[locks'[a]] \in Busy
    <3>1. locks[a] # c /\ locks'[a] = locks[a] /\ locks[a] # None
      BY <1>2, <2>2
    <3>2. locks[a] \in Calls /\ call[locks[a]] \in Busy
      BY <1>1, <3>1 DEF Base, Owners
    <3> QED BY <3>1, <3>2, <1>4
  <2> QED BY <2>1, <2>2 DEF Owners
<1> QED BY <1>3, <1>5, <1>6 DEF Base, Shape

\* The indexer, or someone outside: every request stays where it is.
LEMMA Others ==
  ASSUME Base, Kept, Stores', RowsKnown', HealOK', UNCHANGED <<call, mutex, locks>>
  PROVE  Base'
<1>1. ASSUME NEW c \in Calls, call[c] \in Busy PROVE CallOK(c)'
  BY <1>1, CallKept DEF Stores
<1>2. CallsOK'
  BY <1>1 DEF CallsOK
<1> QED BY <1>2 DEF Base, Shape, Requests, Owners

\* A new request, for a row as it is but for its status.
LEMMA BeginOK ==
  ASSUME Base, NEW c \in Calls, NEW a \in Assets, NEW op, NEW at, NEW row \in Row,
         NEW arg \in Nat \cup {None}, Begin(c, op, a, at, row, arg),
         row.status # None, row.pod = asset[a].pod, row.price = asset[a].price,
         op \in Governing \cup Deploying \cup {"status", "price"},
         at \in {"DEPLOY", "SAVE", "QUEUED", "CHAIN"},
         at = "DEPLOY" => op \in Deploying,
         op \in Governing => at = "CHAIN" /\ asset[a].pod # NoPod,
         op \in {"execute", "price"} => arg \in Nat
  PROVE  Base' /\ Kept
<1> DEFINE k == [op |-> op, asset |-> a, at |-> at, row |-> row, pod |-> row.pod, arg |-> arg]
<1>1. Stores' /\ Kept /\ RowsKnown' /\ HealOK'
  BY Still DEF Begin, history
<1>2. k \in Busy
  BY DEF Busy, Places, Row
<1>3. call \in [Calls -> Busy \cup {NoCall, Done}] /\ call' = [call EXCEPT ![c] = k]
  BY DEF Begin, Base, Shape, Requests
<1>4. call'[c] = k
  BY <1>3
<1>5. CallOK(c)'
  <2>1. Known(a, row)'
    BY DEF Begin, Known, Exists, RowsKnown, Base, history
  <2>2. asset[a].pod # NoPod => asset[a].pod \in Pods /\ <<a, asset[a].pod>> \in homes
    BY DEF Base, RowsKnown, Shape, Stores, Row
  <2>3. UNCHANGED homes
    BY DEF Begin, history
  <2> QED BY <2>1, <2>2, <2>3, <1>4 DEF CallOK, Governing, Deploying
<1>6. mutex' \in Mutexes /\ locks' \in [Assets -> Calls \cup {None}] /\ UNCHANGED <<mutex, locks>>
  BY DEF Begin, Base, Shape, Requests
<1>7. Base'
  <2> HIDE DEF k
  <2> QED BY <1>1, <1>2, <1>3, <1>5, <1>6, GoesOn
<1> QED BY <1>1, <1>7

\* Every kind of request begins well.
LEMMA RequestOK == ASSUME Base, NEW c \in Calls, Request(c) PROVE Base' /\ Kept
<1> USE AssetAssumption
<1>1. PICK a \in Assets :
        \/ Approve(c, a)
        \/ \E s \in Statuses : SetStatus(c, a, s)
        \/ RequestTokenization(c, a)
        \/ \E n \in Prices : RequestPrice(c, a, n)
        \/ Govern(c, "propose", a, None)
        \/ \E id \in 1..Proposals : Govern(c, "execute", a, id)
        \/ Govern(c, "liquidate", a, None)
  BY DEF Request
<1>2. asset[a] \in Row
  BY DEF Base, Shape, Stores
<1>3. ASSUME NEW s \in {"APPROVED"} \cup Statuses
      PROVE  LET r == [asset[a] EXCEPT !.status = s] IN
             r \in Row /\ r.status # None /\ r.pod = asset[a].pod /\ r.price = asset[a].price
  BY <1>2 DEF Row, None
<1>4. ASSUME NEW op, NEW at, NEW row, NEW arg, Begin(c, op, a, at, row, arg) PROVE asset[a].status # None
  BY <1>4 DEF Begin, Exists
<1>5. CASE Approve(c, a)
  BY <1>3, <1>5, BeginOK DEF Approve, Governing, Deploying
<1>6. CASE \E s \in Statuses : SetStatus(c, a, s)
  BY <1>3, <1>6, BeginOK DEF SetStatus, Governing
<1>7. CASE RequestTokenization(c, a)
  BY <1>2, <1>4, <1>7, BeginOK DEF RequestTokenization, Governing, Deploying
<1>8. CASE \E n \in Prices : RequestPrice(c, a, n)
  BY <1>2, <1>4, <1>8, BeginOK DEF RequestPrice, Governing
<1>9. CASE Govern(c, "propose", a, None)
  BY <1>2, <1>4, <1>9, BeginOK DEF Govern, Governing
<1>10. CASE \E id \in 1..Proposals : Govern(c, "execute", a, id)
  <2>1. PICK id \in 1..Proposals : Govern(c, "execute", a, id)
    BY <1>10
  <2>2. id \in Nat
    OBVIOUS
  <2> QED BY <1>2, <1>4, <2>1, <2>2, BeginOK DEF Govern, Governing
<1>11. CASE Govern(c, "liquidate", a, None)
  BY <1>2, <1>4, <1>11, BeginOK DEF Govern, Governing
<1> QED BY <1>1, <1>5, <1>6, <1>7, <1>8, <1>9, <1>10, <1>11

\* A request goes to another place, with all it has read.
LEMMA GoOK ==
  ASSUME Base, Kept, Stores', RowsKnown', HealOK',
         NEW c \in Calls, NEW at \in Places, call[c] \in Busy, Go(c, at),
         LET k == [call[c] EXCEPT !.at = at] IN call'[c] = k => CallOK(c)',
         mutex' \in Mutexes, \A m \in DOMAIN mutex : mutex'[m] \in {mutex[m], None, c},
         locks' \in [Assets -> Calls \cup {None}],
         \A a \in Assets : locks'[a] = locks[a] \/ (locks[a] = None /\ locks'[a] = c)
  PROVE  Base'
<1> DEFINE k == [call[c] EXCEPT !.at = at]
<1>1. k \in Busy
  BY DEF Busy
<1>2. call \in [Calls -> Busy \cup {NoCall, Done}] /\ call' = [call EXCEPT ![c] = k]
  BY DEF Go, Base, Shape, Requests
<1>3. CallOK(c)'
  BY <1>2
<1> HIDE DEF k
<1> QED BY <1>1, <1>2, <1>3, GoesOn

-----------------------------------------------------------------------------
(* Steps of a request that store nothing *)

LEMMA SameOwners ==
  ASSUME Base, UNCHANGED <<mutex, locks>>
  PROVE  mutex' \in Mutexes /\ locks' \in [Assets -> Calls \cup {None}]
  BY DEF Base, Shape, Requests

LEMMA LinkTokenOK == ASSUME Base, NEW c \in Calls, LinkToken(c) PROVE Base' /\ Kept
<1>1. Stores' /\ Kept /\ RowsKnown' /\ HealOK'
  BY Still DEF LinkToken, history
<1>2. call[c] \in Busy /\ CallOK(c)
  BY BusyAt DEF LinkToken, Places
<1>3. PICK at \in {"SAVE", "WHITELIST"} : Go(c, at)
  BY DEF LinkToken
<1>4. ASSUME call'[c] = [call[c] EXCEPT !.at = at] PROVE CallOK(c)'
  BY <1>2, <1>4 DEF CallOK, Known, Exists, Busy, LinkToken, history, Governing, Deploying
<1> QED BY <1>1, <1>2, <1>3, <1>4, GoOK, SameOwners DEF LinkToken, Places

LEMMA ChainFailsOK == ASSUME Base, NEW c \in Calls, ChainFails(c) PROVE Base' /\ Kept
  BY Still, Ends DEF ChainFails, history

LEMMA EnterTokenizationOK ==
  ASSUME Base, NEW c \in Calls, EnterTokenization(c) PROVE Base' /\ Kept
<1>1. Stores' /\ Kept /\ RowsKnown' /\ HealOK'
  BY Still DEF EnterTokenization, history
<1>2. call[c] \in Busy /\ CallOK(c)
  BY BusyAt DEF EnterTokenization, Places
<1>3. CASE End(c)
  BY <1>1, <1>3, Ends
<1>4. CASE ~ End(c)
  <2>0. PICK a \in Assets, r \in Row, b \in Busy :
          b = call[c] /\ a = b.asset /\ r = asset[a] /\ Exists(a)
    BY <1>2 DEF Busy, Base, Shape, Stores, CallOK, Known
  <2> DEFINE k == [b EXCEPT !.at = "DEPLOY", !.row = r]
  <2>1. /\ mutex.tokenization = None /\ mutex' = [mutex EXCEPT !.tokenization = c]
        /\ call' = [call EXCEPT ![c].at = "DEPLOY", ![c].row = r] /\ UNCHANGED locks
        /\ call[c].op = "tokenize"
    BY <1>4, <2>0 DEF EnterTokenization
  <2>3. k \in Busy /\ k.at = "DEPLOY" /\ k.op = b.op /\ k.asset = a /\ k.row = r
    BY <2>0 DEF Busy, Places
  <2>4. call \in [Calls -> Busy \cup {NoCall, Done}] /\ call' = [call EXCEPT ![c] = k]
    BY <2>0, <2>1 DEF Base, Shape, Requests
  <2> HIDE DEF k
  <2>5. call'[c] = k
    BY <2>4
  <2>6. CallOK(c)'
    <3>1. Known(a, r)'
      BY <2>0 DEF EnterTokenization, Known, Exists, RowsKnown, Base, history
    <3>2. call'[c].at = "DEPLOY" /\ call'[c].op = "tokenize" /\ call'[c].asset = a /\ call'[c].row = r
      BY <2>0, <2>1, <2>3, <2>5
    <3> QED BY <3>1, <3>2 DEF CallOK, Governing, Deploying
  <2>7. /\ mutex' \in Mutexes /\ \A m \in DOMAIN mutex : mutex'[m] \in {mutex[m], None, c}
        /\ locks' \in [Assets -> Calls \cup {None}]
    BY <2>1 DEF Base, Shape, Requests, Mutexes
  <2> HIDE DEF k
  <2> QED BY <1>1, <2>1, <2>3, <2>4, <2>6, <2>7, GoesOn
<1> QED BY <1>3, <1>4

LEMMA EnterPricingOK == ASSUME Base, NEW c \in Calls, EnterPricing(c) PROVE Base' /\ Kept
<1>1. Stores' /\ Kept /\ RowsKnown' /\ HealOK'
  BY Still DEF EnterPricing, history
<1>2. call[c] \in Busy /\ CallOK(c)
  BY BusyAt DEF EnterPricing, Places
<1>3. ASSUME call'[c] = [call[c] EXCEPT !.at = "UPDATE"] PROVE CallOK(c)'
  BY <1>2, <1>3 DEF CallOK, Known, Exists, Busy, EnterPricing, history, Governing, Deploying
<1>4. /\ mutex' \in Mutexes /\ \A m \in DOMAIN mutex : mutex'[m] \in {mutex[m], None, c}
      /\ locks' \in [Assets -> Calls \cup {None}] /\ UNCHANGED locks
  BY DEF EnterPricing, Base, Shape, Requests, Mutexes
<1>5. Go(c, "UPDATE")
  BY DEF EnterPricing
<1> QED BY <1>1, <1>2, <1>3, <1>4, <1>5, GoOK DEF Places

LEMMA UpdatePriceOK == ASSUME Base, NEW c \in Calls, UpdatePrice(c) PROVE Base' /\ Kept
<1>1. Stores' /\ Kept /\ RowsKnown' /\ HealOK'
  BY Still DEF UpdatePrice, history
<1>2. call[c] \in Busy /\ CallOK(c) /\ call[c].asset \in Assets
  BY BusyAt DEF UpdatePrice, Places, Busy
<1>3. /\ mutex' \in Mutexes /\ UNCHANGED mutex
      /\ locks' \in [Assets -> Calls \cup {None}] /\ locks'[call[c].asset] = c
      /\ \A a \in Assets : locks'[a] = locks[a] \/ (locks[a] = None /\ locks'[a] = c)
  BY <1>2 DEF UpdatePrice, RowFree, Base, Shape, Requests
<1>4. ASSUME call'[c] = [call[c] EXCEPT !.at = "SYNC"] PROVE CallOK(c)'
  BY <1>2, <1>3, <1>4 DEF CallOK, Known, Exists, Busy, UpdatePrice, history, Governing, Deploying
<1>5. Go(c, "SYNC")
  BY DEF UpdatePrice
<1> QED BY <1>1, <1>2, <1>3, <1>4, <1>5, GoOK DEF Places

LEMMA SyncOK ==
  ASSUME Base, NEW c \in Calls, SyncAssetPriceToOracle(c) PROVE Base' /\ Kept
<1> DEFINE row == asset[call[c].asset]
<1>1. Stores' /\ Kept /\ RowsKnown' /\ HealOK'
  BY Still DEF SyncAssetPriceToOracle, history
<1>2. call[c] \in Busy /\ CallOK(c) /\ call[c].asset \in Assets /\ call[c].at = "SYNC"
  BY BusyAt DEF SyncAssetPriceToOracle, Places, Busy
<1>3. CASE row.pod # NoPod /\ row.price > 0
  <2>0. PICK a \in Assets, r \in Row, b \in Busy :
          b = call[c] /\ a = b.asset /\ r = row /\ Exists(a) /\ r.pod \in Pods
    BY <1>2, <1>3 DEF Base, Shape, Stores, CallOK, Known, Row
  <2> DEFINE k == [b EXCEPT !.at = "WAIT", !.row = r, !.pod = r.pod]
  <2>1. /\ call' = [call EXCEPT ![c].at = "WAIT", ![c].row = r, ![c].pod = r.pod]
        /\ UNCHANGED <<mutex, locks>>
    BY <1>3, <2>0 DEF SyncAssetPriceToOracle
  <2>3. /\ k \in Busy /\ k.at = "WAIT" /\ k.op = b.op /\ k.asset = a
        /\ k.row = r /\ k.pod = r.pod /\ k.arg = b.arg
    BY <2>0 DEF Busy, Places
  <2>4. call \in [Calls -> Busy \cup {NoCall, Done}] /\ call' = [call EXCEPT ![c] = k]
    BY <2>0, <2>1 DEF Base, Shape, Requests
  <2> HIDE DEF k
  <2>5. call'[c] = k
    BY <2>4
  <2>6. CallOK(c)'
    <3>1. Known(a, r)'
      BY <1>2, <2>0 DEF SyncAssetPriceToOracle, Known, Exists, RowsKnown, Base, history
    <3>2. /\ call'[c].at = "WAIT" /\ call'[c].op = call[c].op /\ call'[c].asset = a
          /\ call'[c].row = r /\ call'[c].pod = r.pod /\ call'[c].arg = call[c].arg
      BY <2>0, <2>3, <2>5
    <3>3. call[c].op \notin Governing /\ (call[c].op = "price" => call[c].arg \in Nat /\ locks[a] = c)
      BY <1>2, <2>0 DEF CallOK
    <3> QED BY <2>0, <2>1, <3>1, <3>2, <3>3 DEF CallOK, Governing, Deploying
  <2> HIDE DEF k
  <2> QED BY <1>1, <2>1, <2>3, <2>4, <2>6, SameOwners, GoesOn
<1>4. CASE ~ (row.pod # NoPod /\ row.price > 0) /\ call[c].op = "tokenize"
  <2>1. Go(c, "MARK") /\ UNCHANGED <<mutex, locks>>
    BY <1>4 DEF SyncAssetPriceToOracle
  <2>2. ASSUME call'[c] = [call[c] EXCEPT !.at = "MARK"] PROVE CallOK(c)'
    BY <1>2, <2>2 DEF CallOK, Known, Exists, Busy, SyncAssetPriceToOracle, history, Governing, Deploying
  <2> QED BY <1>1, <1>2, <2>1, <2>2, GoOK, SameOwners DEF Places
<1>5. CASE ~ (row.pod # NoPod /\ row.price > 0) /\ call[c].op # "tokenize"
  BY <1>1, <1>5, Ends DEF SyncAssetPriceToOracle
<1> QED BY <1>3, <1>4, <1>5

LEMMA EnterOracleOK == ASSUME Base, NEW c \in Calls, EnterOracle(c) PROVE Base' /\ Kept
<1>1. Stores' /\ Kept /\ RowsKnown' /\ HealOK'
  BY Still DEF EnterOracle, history
<1>2. call[c] \in Busy /\ CallOK(c)
  BY BusyAt DEF EnterOracle, Places
<1>3. ASSUME call'[c] = [call[c] EXCEPT !.at = "BAND"] PROVE CallOK(c)'
  BY <1>2, <1>3 DEF CallOK, Known, Exists, Busy, EnterOracle, history, Governing, Deploying
<1>4. /\ mutex' \in Mutexes /\ \A m \in DOMAIN mutex : mutex'[m] \in {mutex[m], None, c}
      /\ locks' \in [Assets -> Calls \cup {None}] /\ UNCHANGED locks
  BY DEF EnterOracle, Base, Shape, Requests, Mutexes
<1>5. Go(c, "BAND")
  BY DEF EnterOracle
<1> QED BY <1>1, <1>2, <1>3, <1>4, <1>5, GoOK DEF Places

-----------------------------------------------------------------------------
(* Steps that write the contracts *)

LEMMA ChainFields ==
  ASSUME Base
  PROVE  /\ chain.owner \in [Pods -> SUBSET Assets] /\ chain.whitelisted \subseteq Pods
         /\ chain.band \in [Pods -> Nat]
         /\ chain.count \in [Pods -> Int] /\ \A p \in Pods : chain.count[p] \in 0..Proposals
         /\ chain.executed \subseteq (Pods \X Nat) /\ chain.paused \subseteq Pods
  BY DEF Base, Shape, Stores, Chain

\* The contracts only add; events come last.
LEMMA ChainWritten ==
  ASSUME Base, chain' \in Chain, UNCHANGED <<asset, tokenized, proposal, healing, homes, crashes>>,
         inbox' = inbox \/ \E e \in Events : inbox' = Append(inbox, e),
         \A p \in Pods : chain.owner[p] # {} => chain'.owner[p] = chain.owner[p],
         chain.whitelisted \subseteq chain'.whitelisted,
         chain.executed \subseteq chain'.executed, chain.paused \subseteq chain'.paused,
         \A p \in Pods : chain'.count[p] = chain.count[p] \/ chain'.count[p] = chain.count[p] + 1
  PROVE  Stores' /\ Kept /\ RowsKnown' /\ HealOK'
<1>1. inbox \in Seq(Events)
  BY DEF Base, Shape, Stores
<1>2. inbox' \in Seq(Events) /\ (inbox # <<>> => inbox' # <<>> /\ Head(inbox') = Head(inbox))
  BY <1>1
<1>3. Stores'
  BY <1>2 DEF Base, Shape, Stores
<1>4. Kept
  <2>1. \A p \in Pods : chain.count[p] <= chain'.count[p]
    BY ChainFields
  <2> QED BY <2>1 DEF Kept, Exists
<1>5. HealOK'
  BY <1>2, <1>4, HealKept DEF Base, HealOK
<1> QED BY <1>3, <1>4, <1>5 DEF RowsKnown, Base

LEMMA DeployOK ==
  ASSUME Base, NEW c \in Calls, DeployAssetContract(c) PROVE Base' /\ Kept
<1>1. PICK b \in Busy, a \in Assets : b = call[c] /\ a = b.asset /\ CallOK(c) /\ b.at = "DEPLOY"
  BY BusyAt DEF DeployAssetContract, Places, Busy
<1>2. PICK p \in Pods :
        /\ chain.owner[p] = {}
        /\ chain' = [chain EXCEPT !.owner[p] = {a}]
        /\ inbox' = Append(inbox, [type |-> "AssetPodDeployed", pod |-> p])
        /\ call' = [call EXCEPT ![c].pod = p, ![c].at = "LINK"]
  <2>1. Oldest(Fresh) \in Fresh
    BY OldestIn, AssetAssumption DEF DeployAssetContract, Fresh
  <2> QED BY <1>1, <2>1 DEF DeployAssetContract, Fresh
<1>3. /\ chain' \in Chain /\ chain'.owner = [chain.owner EXCEPT ![p] = {a}]
      /\ chain'.whitelisted = chain.whitelisted /\ chain'.executed = chain.executed
      /\ chain'.paused = chain.paused /\ chain'.count = chain.count
  BY <1>2 DEF Base, Shape, Stores, Chain
<1>4. [type |-> "AssetPodDeployed", pod |-> p] \in Events
  BY DEF Events
<1>5. \A q \in Pods : chain.owner[q] # {} => chain'.owner[q] = chain.owner[q]
  BY <1>2, <1>3, ChainFields
<1>6. Stores' /\ Kept /\ RowsKnown' /\ HealOK'
  BY <1>2, <1>3, <1>4, <1>5, ChainWritten DEF DeployAssetContract, history
<1> DEFINE k == [b EXCEPT !.pod = p, !.at = "LINK"]
<1>7. /\ k \in Busy /\ k.at = "LINK" /\ k.pod = p /\ k.op = b.op /\ k.asset = a
      /\ k.row = b.row /\ k.arg = b.arg
  BY <1>1 DEF Busy, Places
<1>8. call \in [Calls -> Busy \cup {NoCall, Done}] /\ call' = [call EXCEPT ![c] = k]
  BY <1>1, <1>2 DEF Base, Shape, Requests
<1> HIDE DEF k
<1>9. call'[c] = k
  BY <1>8
<1>10. CallOK(c)'
  <2>1. Known(a, b.row)'
    BY <1>1, <1>6, KnownKept DEF CallOK
  <2>2. chain'.owner[p] = {a}
    BY <1>3, ChainFields
  <2>3. b.op \in Deploying
    BY <1>1 DEF CallOK
  <2> QED BY <1>7, <1>9, <2>1, <2>2, <2>3 DEF CallOK, Governing, Deploying
<1>11. Base'
  BY <1>6, <1>7, <1>8, <1>10, SameOwners, GoesOn DEF DeployAssetContract
<1> QED BY <1>6, <1>11

LEMMA WhitelistVaultOK ==
  ASSUME Base, NEW c \in Calls, WhitelistVault(c) PROVE Base' /\ Kept
<1>1. call[c] \in Busy /\ CallOK(c) /\ call[c].at = "WHITELIST" /\ call[c].pod \in Pods
      /\ call[c].asset \in Assets
  BY BusyAt DEF WhitelistVault, Places, CallOK, Busy
<1>2. /\ chain' \in Chain /\ chain'.whitelisted = chain.whitelisted \cup {call[c].pod}
      /\ UNCHANGED <<chain.owner, chain.executed, chain.paused, chain.count>>
  BY <1>1 DEF WhitelistVault, Base, Shape, Stores, Chain
<1>3. Stores' /\ Kept /\ RowsKnown' /\ HealOK'
  BY <1>2, ChainWritten DEF WhitelistVault, history
<1>4. ASSUME call'[c] = [call[c] EXCEPT !.at = "COMMIT"] PROVE CallOK(c)'
  BY <1>1, <1>2, <1>4 DEF CallOK, Known, Exists, Busy, WhitelistVault, history, Governing, Deploying
<1>5. Go(c, "COMMIT")
  BY DEF WhitelistVault
<1> QED BY <1>1, <1>3, <1>4, <1>5, GoOK, SameOwners DEF WhitelistVault, Places

LEMMA UpdatePriceBandOK ==
  ASSUME Base, NEW c \in Calls, UpdatePriceBand(c) PROVE Base' /\ Kept
<1>1. /\ call[c] \in Busy /\ CallOK(c) /\ call[c].at = "BAND" /\ call[c].pod \in Pods
      /\ call[c].asset \in Assets /\ call[c].row.price \in Nat
  BY BusyAt DEF UpdatePriceBand, Places, CallOK, Busy, Row
<1>2. /\ chain' \in Chain
      /\ UNCHANGED <<chain.owner, chain.whitelisted, chain.executed, chain.paused, chain.count>>
  <2>0. chain \in Chain
    BY DEF Base, Shape, Stores
  <2>1. CASE UNCHANGED chain
    BY <2>0, <2>1
  <2>2. CASE chain' = [chain EXCEPT !.band[call[c].pod] = call[c].row.price]
    <3>1. PICK p \in Pods, n \in Nat : chain' = [chain EXCEPT !.band[p] = n]
      BY <1>1, <2>2
    <3> QED BY <2>0, <3>1 DEF Chain
  <2> QED BY <2>1, <2>2 DEF UpdatePriceBand
<1>3. Stores' /\ Kept /\ RowsKnown' /\ HealOK'
  BY <1>2, ChainWritten DEF UpdatePriceBand, history
<1>4. PICK at \in {"SYNCED", "UNSYNCED"} : Go(c, at)
  BY DEF UpdatePriceBand
<1>5. ASSUME call'[c] = [call[c] EXCEPT !.at = at] PROVE CallOK(c)'
  BY <1>1, <1>2, <1>5 DEF CallOK, Known, Exists, Busy, UpdatePriceBand, history, Governing, Deploying
<1> QED BY <1>1, <1>3, <1>4, <1>5, GoOK, SameOwners DEF UpdatePriceBand, Places

\* A proposal is numbered and announced.
LEMMA AnnounceOK ==
  ASSUME Base, NEW p \in Pods, Announce(p),
         UNCHANGED <<asset, tokenized, proposal, healing, homes, crashes>>
  PROVE  /\ Stores' /\ Kept /\ RowsKnown' /\ HealOK'
         /\ chain.count[p] + 1 \in 1..chain'.count[p]
<1> USE AssetAssumption
<1>1. chain.count[p] \in 0..Proposals /\ chain.count[p] < Proposals
  BY ChainFields DEF Announce
<1>2. /\ chain' \in Chain /\ chain'.count = [chain.count EXCEPT ![p] = chain.count[p] + 1]
      /\ UNCHANGED <<chain.owner, chain.whitelisted, chain.executed, chain.paused>>
  <2>0. chain.count[p] + 1 \in 0..Proposals
    BY <1>1
  <2>1. PICK n \in 0..Proposals : n = chain.count[p] + 1 /\ chain' = [chain EXCEPT !.count[p] = n]
    BY <2>0, Zenon DEF Announce
  <2> QED BY <2>1 DEF Base, Shape, Stores, Chain
<1>3. \A q \in Pods : chain'.count[q] = chain.count[q] \/ chain'.count[q] = chain.count[q] + 1
  BY <1>2, ChainFields
<1>4. \E e \in Events : inbox' = Append(inbox, e)
  <2>1. [type |-> "ProposalCreated", pod |-> p, id |-> chain.count[p] + 1] \in Events
    BY <1>1 DEF Events
  <2> QED BY <2>1 DEF Announce
<1>5. chain'.count[p] = chain.count[p] + 1
  BY <1>2, ChainFields
<1> QED BY <1>1, <1>2, <1>3, <1>4, <1>5, ChainWritten

LEMMA ProposeElsewhereOK ==
  ASSUME Base, NEW p \in Pods, ProposeElsewhere(p) PROVE Base' /\ Kept
<1>1. Stores' /\ Kept /\ RowsKnown' /\ HealOK'
  BY AnnounceOK DEF ProposeElsewhere, backend, history
<1>2. UNCHANGED <<call, mutex, locks>>
  BY DEF ProposeElsewhere, backend
<1> QED BY <1>1, <1>2, Others

LEMMA CreateProposalOK ==
  ASSUME Base, NEW c \in Calls, CreateProposal(c) PROVE Base' /\ Kept
<1>1. PICK b \in Busy : b = call[c] /\ CallOK(c) /\ b.at = "CHAIN" /\ b.op = "propose"
  BY BusyAt DEF CreateProposal, Places
<1>2. b.pod \in Pods /\ b.asset \in Assets
  BY <1>1 DEF CallOK, Governing, Busy
<1>3. /\ Stores' /\ Kept /\ RowsKnown' /\ HealOK'
      /\ chain.count[b.pod] + 1 \in 1..chain'.count[b.pod]
  BY <1>1, <1>2, AnnounceOK DEF CreateProposal, history
<1>4. PICK n \in Nat : n = chain.count[b.pod] + 1
  BY <1>2, ChainFields
<1> DEFINE k == [b EXCEPT !.at = "RECORD", !.arg = n]
<1>5. /\ k \in Busy /\ k.at = "RECORD" /\ k.pod = b.pod /\ k.op = "propose" /\ k.asset = b.asset
      /\ k.row = b.row /\ k.arg = n
  BY <1>1 DEF Busy, Places
<1>6. call \in [Calls -> Busy \cup {NoCall, Done}] /\ call' = [call EXCEPT ![c] = k]
  BY <1>1, <1>4 DEF CreateProposal, Base, Shape, Requests
<1> HIDE DEF k
<1>7. call'[c] = k
  BY <1>6
<1>8. CallOK(c)'
  <2>1. Known(b.asset, b.row)'
    BY <1>1, <1>2, <1>3, KnownKept DEF CallOK
  <2>2. <<b.asset, b.pod>> \in homes'
    BY <1>1, <1>3 DEF CallOK, Kept, Governing
  <2> QED BY <1>2, <1>3, <1>4, <1>5, <1>7, <2>1, <2>2 DEF CallOK, Governing, Deploying
<1>9. Base'
  BY <1>3, <1>5, <1>6, <1>8, SameOwners, GoesOn DEF CreateProposal
<1> QED BY <1>3, <1>9

LEMMA ExecuteProposalOK ==
  ASSUME Base, NEW c \in Calls, ExecuteProposal(c) PROVE Base' /\ Kept
<1>1. /\ call[c] \in Busy /\ CallOK(c) /\ call[c].at = "CHAIN" /\ call[c].op = "execute"
      /\ call[c].pod \in Pods /\ call[c].arg \in Nat /\ call[c].asset \in Assets
  BY BusyAt DEF ExecuteProposal, Places, CallOK, Governing, Busy
<1>2. /\ chain' \in Chain
      /\ chain'.executed = chain.executed \cup {<<call[c].pod, call[c].arg>>}
      /\ UNCHANGED <<chain.owner, chain.whitelisted, chain.paused, chain.count>>
  <2>1. PICK e \in Pods \X Nat : /\ e = <<call[c].pod, call[c].arg>>
                                /\ chain' = [chain EXCEPT !.executed = chain.executed \cup {e}]
    BY <1>1 DEF ExecuteProposal
  <2> QED BY <2>1 DEF Base, Shape, Stores, Chain
<1>3. Stores' /\ Kept /\ RowsKnown' /\ HealOK'
  BY <1>2, ChainWritten DEF ExecuteProposal, history
<1>4. ASSUME call'[c] = [call[c] EXCEPT !.at = "RECORD"] PROVE CallOK(c)'
  BY <1>1, <1>2, <1>4 DEF CallOK, Known, Exists, Busy, ExecuteProposal, history, Governing, Deploying
<1>5. Go(c, "RECORD")
  BY DEF ExecuteProposal
<1> QED BY <1>1, <1>3, <1>4, <1>5, GoOK, SameOwners DEF ExecuteProposal, Places

LEMMA TriggerLiquidationOK ==
  ASSUME Base, NEW c \in Calls, TriggerLiquidation(c) PROVE Base' /\ Kept
<1>1. /\ call[c] \in Busy /\ CallOK(c) /\ call[c].at = "CHAIN" /\ call[c].op = "liquidate"
      /\ call[c].pod \in Pods /\ call[c].asset \in Assets
  BY BusyAt DEF TriggerLiquidation, Places, CallOK, Governing, Busy
<1>2. /\ chain' \in Chain /\ chain'.paused = chain.paused \cup {call[c].pod}
      /\ UNCHANGED <<chain.owner, chain.whitelisted, chain.executed, chain.count>>
  BY <1>1 DEF TriggerLiquidation, Base, Shape, Stores, Chain
<1>3. Stores' /\ Kept /\ RowsKnown' /\ HealOK'
  BY <1>2, ChainWritten DEF TriggerLiquidation, history
<1>4. ASSUME call'[c] = [call[c] EXCEPT !.at = "RECORD"] PROVE CallOK(c)'
  BY <1>1, <1>2, <1>4 DEF CallOK, Known, Exists, Busy, TriggerLiquidation, history, Governing, Deploying
<1>5. Go(c, "RECORD")
  BY DEF TriggerLiquidation
<1> QED BY <1>1, <1>3, <1>4, <1>5, GoOK, SameOwners DEF TriggerLiquidation, Places

-----------------------------------------------------------------------------
(* Steps that write rows *)

\* Rows of proposals, the contracts and all else as they were.
LEMMA ProposalsWritten ==
  ASSUME Base, proposal' \subseteq ProposalRow,
         UNCHANGED <<asset, tokenized, chain, healing, homes, crashes>>,
         inbox' \in Seq(Events),
         healing # NoCall => inbox' = inbox
  PROVE  Stores' /\ Kept /\ RowsKnown' /\ HealOK'
<1>1. Stores'
  BY DEF Base, Shape, Stores
<1>2. Kept
  BY KeptStill
<1>3. HealOK'
  BY <1>2, HealKept DEF Base, HealOK
<1> QED BY <1>1, <1>2, <1>3 DEF RowsKnown, Base

LEMMA MarkedOK ==
  ASSUME Base, NEW R \in SUBSET proposal, NEW s \in {"PENDING", "EXECUTED", "LIQUIDATED"}
  PROVE  Marked(R, s) \subseteq ProposalRow
<1>1. proposal \subseteq ProposalRow
  BY DEF Base, Shape, Stores
<1>2. ASSUME NEW r \in R PROVE [r EXCEPT !.status = s] \in ProposalRow
  BY <1>1 DEF ProposalRow
<1> QED BY <1>1, <1>2 DEF Marked

LEMMA RecordProposalOK ==
  ASSUME Base, NEW c \in Calls, RecordProposal(c) PROVE Base' /\ Kept
<1>1. /\ call[c] \in Busy /\ CallOK(c) /\ call[c].asset \in Assets
      /\ call[c].arg \in 1..chain.count[call[c].pod] /\ call[c].pod \in Pods
  BY BusyAt DEF RecordProposal, Places, CallOK, Busy, Governing
<1>2. call[c].arg \in 1..Proposals
  <2>1. chain.count[call[c].pod] \in 0..Proposals
    BY <1>1, ChainFields
  <2> QED BY <1>1, <2>1, AssetAssumption
<1>3. NewRow(call[c].asset, call[c].arg, "service") \in ProposalRow
  BY <1>1, <1>2 DEF NewRow, ProposalRow
<1>4. proposal' \subseteq ProposalRow /\ inbox' \in Seq(Events)
  BY <1>3 DEF RecordProposal, Base, Shape, Stores
<1>5. Stores' /\ Kept /\ RowsKnown' /\ HealOK'
  BY <1>4, ProposalsWritten DEF RecordProposal, history
<1> QED BY <1>5, Ends DEF RecordProposal

LEMMA RecordExecutionOK ==
  ASSUME Base, NEW c \in Calls, RecordExecution(c) PROVE Base' /\ Kept
<1>1. proposal' \subseteq ProposalRow /\ inbox' \in Seq(Events)
  BY MarkedOK DEF RecordExecution, RowsOf, Base, Shape, Stores
<1>2. Stores' /\ Kept /\ RowsKnown' /\ HealOK'
  BY <1>1, ProposalsWritten DEF RecordExecution, history
<1> QED BY <1>2, Ends DEF RecordExecution

LEMMA RecordLiquidationOK ==
  ASSUME Base, NEW c \in Calls, RecordLiquidation(c) PROVE Base' /\ Kept
<1>1. proposal' \subseteq ProposalRow /\ inbox' \in Seq(Events)
  BY MarkedOK DEF RecordLiquidation, Base, Shape, Stores
<1>2. Stores' /\ Kept /\ RowsKnown' /\ HealOK'
  BY <1>1, ProposalsWritten DEF RecordLiquidation, history
<1>3. call[c] \in Busy /\ CallOK(c) /\ call[c].at = "RECORD" /\ call[c].op = "liquidate"
  BY BusyAt DEF RecordLiquidation, Places
<1>4. ASSUME call'[c] = [call[c] EXCEPT !.at = "CLOSE"] PROVE CallOK(c)'
  BY <1>3, <1>4 DEF CallOK, Known, Exists, Busy, RecordLiquidation, history, Governing, Deploying
<1>5. Go(c, "CLOSE")
  BY DEF RecordLiquidation
<1> QED BY <1>2, <1>3, <1>4, <1>5, GoOK, SameOwners DEF RecordLiquidation, Places

\* A row of an asset is saved, and nothing else.
LEMMA RowWritten ==
  ASSUME Base, NEW a \in Assets, NEW row \in Row, row.status # None,
         Exists(a) => row.price = asset[a].price, SaveRow(a, row),
         tokenized' \subseteq Assets, UNCHANGED <<proposal, chain, inbox, healing>>
  PROVE  /\ Stores' /\ Kept /\ RowsKnown' /\ HealOK'
         /\ asset'[a] = row /\ (row.pod # NoPod => <<a, row.pod>> \in homes')
<1>1. /\ asset' \in [Assets -> Row] /\ asset'[a] = row
      /\ homes' \subseteq (Assets \X Pods) /\ homes \subseteq homes'
      /\ RowsKnown'
      /\ row.pod # NoPod => <<a, row.pod>> \in homes'
      /\ \A b \in Assets : Exists(b) => Exists(b)' /\ asset'[b].price = asset[b].price
  BY SaveRowOK
<1>2. Stores'
  BY <1>1 DEF SaveRow, Base, Shape, Stores
<1>3. Kept
  BY <1>1, ChainFields, AssetAssumption DEF Kept
<1>4. HealOK'
  BY <1>3, HealKept DEF Base, HealOK
<1> QED BY <1>1, <1>2, <1>3, <1>4

LEMMA UpdateStatusOK ==
  ASSUME Base, NEW a \in Assets, NEW s, UpdateStatus(a, s), s \in {"SYNC_PENDING", "LIQUIDATED", "APPROVED"},
         UNCHANGED <<tokenized, proposal, chain, inbox, healing>>
  PROVE  Stores' /\ Kept /\ RowsKnown' /\ HealOK'
<1>1. asset[a] \in Row /\ tokenized' \subseteq Assets
  BY DEF Base, Shape, Stores
<1>2. PICK row \in Row : /\ row = [asset[a] EXCEPT !.status = s] /\ row.status # None
                        /\ row.price = asset[a].price
  <2> DEFINE r == [asset[a] EXCEPT !.status = s]
  <2>1. r \in Row /\ r.status # None /\ r.price = asset[a].price
    BY <1>1 DEF Row, None
  <2> QED BY <2>1
<1> QED BY <1>1, <1>2, RowWritten DEF UpdateStatus

LEMMA LiquidateAssetOK ==
  ASSUME Base, NEW c \in Calls, LiquidateAsset(c) PROVE Base' /\ Kept
<1>1. call[c].asset \in Assets
  BY BusyAt DEF LiquidateAsset, Places, Busy
<1>2. Stores' /\ Kept /\ RowsKnown' /\ HealOK'
  BY <1>1, UpdateStatusOK DEF LiquidateAsset
<1> QED BY <1>2, Ends DEF LiquidateAsset

LEMMA MarkPendingOK ==
  ASSUME Base, NEW c \in Calls, MarkPending(c) PROVE Base' /\ Kept
<1>1. call[c].asset \in Assets
  BY BusyAt DEF MarkPending, Places, Busy
<1>2. Stores' /\ Kept /\ RowsKnown' /\ HealOK'
  BY <1>1, UpdateStatusOK DEF MarkPending
<1> QED BY <1>2, Ends DEF MarkPending

LEMMA SaveAssetOK == ASSUME Base, NEW c \in Calls, SaveAsset(c) PROVE Base' /\ Kept
<1>1. PICK b \in Busy, a \in Assets, r \in Row : b = call[c] /\ a = b.asset /\ r = b.row /\ Known(a, r)
  BY BusyAt DEF SaveAsset, Places, Busy, CallOK
<1>2. PICK row \in Row : row = [r EXCEPT !.pod = b.pod] /\ row.status # None /\ row.price = asset[a].price
  <2> DEFINE n == [r EXCEPT !.pod = b.pod]
  <2>1. n \in Row /\ n.status # None /\ n.price = asset[a].price
    BY <1>1 DEF Row, Busy, Known
  <2> QED BY <2>1
<1>3. tokenized' \subseteq Assets
  BY DEF SaveAsset, Base, Shape, Stores
<1>4. Stores' /\ Kept /\ RowsKnown' /\ HealOK'
  BY <1>1, <1>2, <1>3, RowWritten DEF SaveAsset
<1> QED BY <1>4, Ends DEF SaveAsset

LEMMA CommitTokenOK == ASSUME Base, NEW c \in Calls, CommitToken(c) PROVE Base' /\ Kept
<1>1. PICK b \in Busy, a \in Assets, r \in Row :
        /\ b = call[c] /\ a = b.asset /\ r = b.row /\ Known(a, r) /\ CallOK(c)
        /\ b.at = "COMMIT" /\ b.op \in Deploying /\ b.pod \in Pods
  BY BusyAt DEF CommitToken, Places, Busy, CallOK
<1>2. CASE a \in tokenized
  <2>1. Stores' /\ Kept /\ RowsKnown' /\ HealOK' /\ End(c)
    BY <1>1, <1>2, Still DEF CommitToken, history
  <2> QED BY <2>1, Ends
<1>3. CASE a \notin tokenized
  <2>1. PICK row \in Row : /\ row = [r EXCEPT !.pod = b.pod, !.status = "APPROVED"]
                          /\ row.status # None /\ row.price = asset[a].price
    <3> DEFINE n == [r EXCEPT !.pod = b.pod, !.status = "APPROVED"]
    <3>1. n \in Row /\ n.status # None /\ n.price = asset[a].price
      BY <1>1 DEF Row, Busy, Known, None
    <3> QED BY <3>1
  <2>2. tokenized' \subseteq Assets
    BY <1>1, <1>3 DEF CommitToken, Base, Shape, Stores
  <2>3. SaveRow(a, row) /\ Go(c, "SYNC") /\ UNCHANGED <<mutex, locks, proposal, chain, inbox, healing>>
    BY <1>1, <1>3, <2>1 DEF CommitToken
  <2>4. Stores' /\ Kept /\ RowsKnown' /\ HealOK'
    BY <1>1, <2>1, <2>2, <2>3, RowWritten
  <2>5. ASSUME call'[c] = [call[c] EXCEPT !.at = "SYNC"] PROVE CallOK(c)'
    <3>1. Known(a, r)'
      BY <1>1, <2>4, KnownKept
    <3> QED BY <1>1, <2>5, <3>1 DEF CallOK, Busy, Governing, Deploying
  <2> QED BY <1>1, <2>3, <2>4, <2>5, GoOK, SameOwners DEF Places
<1> QED BY <1>2, <1>3

LEMMA RecordSyncOK == ASSUME Base, NEW c \in Calls, RecordSync(c) PROVE Base' /\ Kept
<1>1. PICK b \in Busy, a \in Assets :
        b = call[c] /\ a = b.asset /\ CallOK(c) /\ b.at \in {"SYNCED", "UNSYNCED"} /\ Exists(a)
  BY BusyAt DEF RecordSync, Places, Busy, CallOK, Known
\* A price update would wait for its own lock.
<1>2. b.op # "price"
  <2>1. locks[a] = None /\ c # None
    BY <1>1, AssetAssumption DEF RecordSync, Unlocked, RowFree
  <2> QED BY <1>1, <2>1 DEF CallOK
<1>3. PICK s \in {"APPROVED", "SYNC_PENDING"} : asset' = [asset EXCEPT ![a] = [asset[a] EXCEPT !.status = s]]
  <2>1. PICK s \in {"APPROVED", "SYNC_PENDING"} :
          asset' = [asset EXCEPT ![a] = [asset[a] EXCEPT !.status = s, !.price = asset[a].price]]
    BY <1>1, <1>2 DEF RecordSync
  <2>2. asset[a] \in Row
    BY DEF Base, Shape, Stores
  <2>3. [asset[a] EXCEPT !.status = s, !.price = asset[a].price] = [asset[a] EXCEPT !.status = s]
    BY <2>2 DEF Row
  <2> QED BY <2>1, <2>3
<1>4. UNCHANGED <<tokenized, proposal, chain, inbox, healing, homes, crashes>>
  BY DEF RecordSync, history
<1>5. asset \in [Assets -> Row] /\ [asset[a] EXCEPT !.status = s] \in Row
  BY DEF Base, Shape, Stores, Row
<1>6. /\ asset' \in [Assets -> Row] /\ asset'[a].pod = asset[a].pod /\ asset'[a].price = asset[a].price
      /\ asset'[a].status # None /\ \A d \in Assets : d # a => asset'[d] = asset[d]
  BY <1>3, <1>5 DEF Row, None
<1>7. Stores' /\ Kept /\ RowsKnown' /\ HealOK'
  <2>1. Stores'
    BY <1>4, <1>6 DEF Base, Shape, Stores
  <2>2. Kept
    BY <1>4, <1>6, ChainFields, AssetAssumption DEF Kept, Exists
  <2>3. HealOK'
    BY <1>4, <2>2, HealKept DEF Base, HealOK
  <2> QED BY <1>4, <1>6, <2>1, <2>2, <2>3 DEF RowsKnown, Base
<1>8. CASE End(c)
  BY <1>7, <1>8, Ends
<1>9. CASE Go(c, "MARK") /\ mutex' = [mutex EXCEPT !.oracle = None] /\ UNCHANGED locks
  <2>1. ASSUME call'[c] = [call[c] EXCEPT !.at = "MARK"] PROVE CallOK(c)'
    <3>1. Known(a, b.row)'
      BY <1>1, <1>7, KnownKept DEF CallOK
    <3> QED BY <1>1, <1>2, <2>1, <3>1 DEF CallOK, Busy, Governing, Deploying
  <2>2. /\ mutex' \in Mutexes /\ \A m \in DOMAIN mutex : mutex'[m] \in {mutex[m], None, c}
        /\ locks' \in [Assets -> Calls \cup {None}]
    BY <1>9 DEF Base, Shape, Requests, Mutexes
  <2> QED BY <1>1, <1>7, <1>9, <2>1, <2>2, GoOK DEF Places
<1> QED BY <1>7, <1>8, <1>9 DEF RecordSync

LEMMA CreateAssetOK ==
  ASSUME Base, NEW a \in Assets, NEW o \in Offers, CreateAsset(a, o[1], o[2])
  PROVE  Base' /\ Kept
<1>1. UnitPrice(o[1], o[2]) \in Nat
  <2>1. o[1] \in Nat /\ o[2] \in Nat \ {0}
    BY AssetAssumption
  <2> QED BY <2>1, UnitPriceNat
<1>2. PICK row \in Row : row.status # None /\ SaveRow(a, row)
  <2> DEFINE n == [status |-> "SUBMITTED", pod |-> NoPod, price |-> UnitPrice(o[1], o[2])]
  <2>1. n \in Row /\ n.status # None
    BY <1>1 DEF Row, None
  <2> QED BY <2>1 DEF CreateAsset
<1>3. ~ Exists(a) /\ tokenized' \subseteq Assets
  BY DEF CreateAsset, Base, Shape, Stores
<1>4. Stores' /\ Kept /\ RowsKnown' /\ HealOK'
  BY <1>2, <1>3, RowWritten DEF CreateAsset, backend
<1> QED BY <1>4, Others DEF CreateAsset, backend

\* The indexer is done with the first event.
LEMMA Handled ==
  ASSUME Base, inbox # <<>>, inbox' = Tail(inbox)
  PROVE  inbox' \in Seq(Events)
  BY DEF Base, Shape, Stores

LEMMA FindPodAssetOK == ASSUME Base, FindPodAsset PROVE Base' /\ Kept
<1>0. /\ healing = NoCall /\ inbox # <<>> /\ inbox \in Seq(Events)
      /\ Head(inbox).type = "AssetPodDeployed"
      /\ UNCHANGED <<asset, tokenized, proposal, chain, homes, crashes>>
  BY DEF FindPodAsset, history, Base, Shape, Stores
<1>1. Kept
  BY <1>0, KeptStill
<1>2. CASE inbox' = Tail(inbox) /\ UNCHANGED healing
  <2>1. Stores'
    BY <1>0, <1>2, Handled DEF Base, Shape, Stores
  <2>2. HealOK'
    BY <1>0, <1>2 DEF HealOK
  <2> QED BY <1>0, <1>1, <2>1, <2>2, Others DEF FindPodAsset, RowsKnown, Base
<1>3. CASE \E a \in Candidates(Head(inbox).pod) \ Holders(Head(inbox).pod) :
             healing' = [at |-> "SAVE", asset |-> a, row |-> asset[a]] /\ UNCHANGED inbox
  <2>1. PICK a \in Candidates(Head(inbox).pod) \ Holders(Head(inbox).pod) :
          healing' = [at |-> "SAVE", asset |-> a, row |-> asset[a]] /\ UNCHANGED inbox
    BY <1>3
  <2>2. a \in Approved
    <3>1. Approved # {} => Oldest(Approved) \in Approved
      BY OldestIn, AssetAssumption DEF Approved
    <3> QED BY <3>1 DEF Candidates
  <2>3. a \in Assets /\ asset[a] \in Row /\ asset[a].status # None
    BY <2>2 DEF Approved, None, Base, Shape, Stores
  <2>4. healing' \in Heals
    BY <2>1, <2>3 DEF Heals
  <2>5. Stores'
    BY <1>0, <2>1, <2>4 DEF Base, Shape, Stores
  <2>6. HealOK'
    <3>1. PICK r \in Row : r = asset[a]
      BY <2>3
    <3>2. Known(a, r)'
      BY <1>0, <2>3, <3>1 DEF Known, Exists, RowsKnown, Base
    <3>3. healing'.asset = a /\ healing'.row = r
      BY <2>1, <3>1
    <3> QED BY <1>0, <2>1, <3>2, <3>3 DEF HealOK
  <2> QED BY <1>0, <1>1, <2>5, <2>6, Others DEF FindPodAsset, RowsKnown, Base
<1> QED BY <1>2, <1>3 DEF FindPodAsset

LEMMA HealPodAssetOK == ASSUME Base, HealPodAsset PROVE Base' /\ Kept
<1>1. /\ healing \in Heals /\ inbox # <<>> /\ Head(inbox).type = "AssetPodDeployed"
      /\ Known(healing.asset, healing.row) /\ inbox \in Seq(Events)
  BY DEF HealPodAsset, Base, Shape, Stores, HealOK
<1>2. PICK a \in Assets, r \in Row : a = healing.asset /\ r = healing.row
  BY <1>1 DEF Heals
<1>3. PICK p \in Pods : p = Head(inbox).pod
  <2>1. Head(inbox) \in Events
    BY <1>1
  <2> QED BY <2>1 DEF Events
<1>4. PICK row \in Row : /\ row = [r EXCEPT !.pod = p, !.status = "APPROVED"]
                        /\ row.status # None /\ row.price = asset[a].price
  <2> DEFINE n == [r EXCEPT !.pod = p, !.status = "APPROVED"]
  <2>1. n \in Row /\ n.status # None /\ n.price = asset[a].price
    BY <1>1, <1>2 DEF Row, Known, None
  <2> QED BY <2>1
<1>5. /\ asset' \in [Assets -> Row] /\ homes' \subseteq (Assets \X Pods) /\ homes \subseteq homes'
      /\ RowsKnown' /\ \A b \in Assets : Exists(b) => Exists(b)' /\ asset'[b].price = asset[b].price
  BY <1>2, <1>3, <1>4, SaveRowOK DEF HealPodAsset
<1>6. Stores'
  BY <1>1, <1>5, Handled DEF HealPodAsset, SaveRow, Base, Shape, Stores
<1>7. Kept
  BY <1>5, ChainFields, AssetAssumption DEF Kept, HealPodAsset
<1>8. HealOK'
  BY DEF HealPodAsset, HealOK
<1> QED BY <1>5, <1>6, <1>7, <1>8, Others DEF HealPodAsset

LEMMA HandleProposalCreatedOK == ASSUME Base, HandleProposalCreated PROVE Base' /\ Kept
<1>0. healing = NoCall /\ inbox # <<>> /\ inbox' = Tail(inbox) /\ inbox \in Seq(Events)
  BY DEF HandleProposalCreated, Base, Shape, Stores
<1>1. proposal' \subseteq ProposalRow
  <2>1. proposal \subseteq ProposalRow /\ Head(inbox) \in Events
    BY <1>0 DEF Base, Shape, Stores
  <2>2. Head(inbox).id \in 1..Proposals
    BY <2>1 DEF HandleProposalCreated, Events
  <2>3. ASSUME NEW a \in Assets PROVE NewRow(a, Head(inbox).id, "indexer") \in ProposalRow
    BY <2>2 DEF NewRow, ProposalRow
  <2>4. \A p : Holders(p) \subseteq Assets
    BY DEF Holders
  <2> QED BY <2>1, <2>3, <2>4 DEF HandleProposalCreated
<1>2. Stores' /\ Kept /\ RowsKnown' /\ HealOK'
  BY <1>0, <1>1, Handled, ProposalsWritten DEF HandleProposalCreated, backend
<1> QED BY <1>2, Others DEF HandleProposalCreated, backend

\* indexer.router: an error in a handler ends with its event.
LEMMA HandlerFailsOK == ASSUME Base, HandlerFails PROVE Base' /\ Kept
<1>1. Kept
  BY KeptStill DEF HandlerFails
<1>2. Stores' /\ HealOK'
  BY Handled DEF HandlerFails, Base, Shape, Stores, HealOK
<1> QED BY <1>1, <1>2, Others DEF HandlerFails, RowsKnown, Base

LEMMA CrashOK == ASSUME Base, Crash PROVE Base' /\ Kept
<1>1. Kept
  BY KeptStill DEF Crash
<1>2. inbox' \in Seq(Events)
  BY Handled DEF Crash, Base, Shape, Stores
<1>3. Stores'
  <2>1. crashes' \in 0..MaxCrashes
    BY AssetAssumption DEF Crash, Base, Shape, Stores
  <2> QED BY <1>2, <2>1 DEF Crash, Base, Shape, Stores
<1>4. call' \in [Calls -> Busy \cup {NoCall, Done}] /\ \A c \in Calls : call'[c] \notin Busy
  BY Idle DEF Crash
<1>5. /\ mutex' \in Mutexes /\ locks' \in [Assets -> Calls \cup {None}]
      /\ \A m \in DOMAIN mutex' : mutex'[m] = None
      /\ \A a \in Assets : locks'[a] = None
  BY DEF Crash, Base, Shape, Requests, Mutexes
<1> QED BY <1>1, <1>3, <1>4, <1>5 DEF Crash, Base, Shape, Requests, CallsOK, Owners, HealOK, RowsKnown

LEMMA StepOK == ASSUME Base, NEW c \in Calls, Step(c) PROVE Base' /\ Kept
  BY SaveAssetOK, DeployOK, LinkTokenOK, ChainFailsOK, EnterTokenizationOK, WhitelistVaultOK,
     CommitTokenOK, MarkPendingOK, EnterPricingOK, UpdatePriceOK, SyncOK, EnterOracleOK,
     UpdatePriceBandOK, RecordSyncOK, CreateProposalOK, ExecuteProposalOK,
     TriggerLiquidationOK, RecordProposalOK, RecordExecutionOK, RecordLiquidationOK,
     LiquidateAssetOK
     DEF Step

\* Every step keeps the invariant and takes back nothing.
LEMMA BaseStep == Base /\ [Next]_vars => Base' /\ Kept
<1> SUFFICES ASSUME Base, [Next]_vars PROVE Base' /\ Kept
  OBVIOUS
<1>1. CASE UNCHANGED vars
  BY <1>1, Still, Others DEF vars, backend, history
<1>2. CASE \E c \in Calls : Request(c) \/ Step(c)
  BY <1>2, RequestOK, StepOK
<1>3. CASE \E a \in Assets, o \in Offers : CreateAsset(a, o[1], o[2])
  BY <1>3, CreateAssetOK
<1>4. CASE \E p \in Pods : ProposeElsewhere(p)
  BY <1>4, ProposeElsewhereOK
<1>5. CASE Indexer
  BY <1>5, FindPodAssetOK, HealPodAssetOK, HandleProposalCreatedOK DEF Indexer
<1>6. CASE Crash
  BY <1>6, CrashOK
<1>7. CASE HandlerFails
  BY <1>7, HandlerFailsOK
<1> QED BY <1>1, <1>2, <1>3, <1>4, <1>5, <1>6, <1>7 DEF Next

LEMMA BaseTyped == Base => TypeInv
<1> SUFFICES ASSUME Base PROVE TypeInv
  OBVIOUS
<1>1. /\ chain.whitelisted \subseteq Pods /\ chain.paused \subseteq Pods
      /\ \A p \in Pods : chain.count[p] \in 0..Proposals
  BY ChainFields
<1>2. \A r \in proposal :
        /\ r.asset \in Assets /\ r.id \in 1..Proposals /\ r.by \in {"service", "indexer"}
        /\ r.status \in {"PENDING", "EXECUTED", "LIQUIDATED"}
  BY DEF Base, Shape, Stores, ProposalRow
<1>3. \A m \in DOMAIN mutex : mutex[m] \in Calls \cup {None} /\ (mutex[m] # None => Running(mutex[m]))
  BY Idle DEF Base, Shape, Requests, Mutexes, Owners, Running
<1>4. \A a \in Assets : locks[a] # None => Running(locks[a])
  BY Idle DEF Base, Owners, Running
<1>5. healing # NoCall => inbox # <<>> /\ healing.asset \in Assets
  BY DEF Base, HealOK, Shape, Stores, Heals
<1> QED BY <1>1, <1>2, <1>3, <1>4, <1>5 DEF TypeInv, Base, Shape, Requests, Stores

\* Rows, contracts, mutexes and locks keep their shape, and only a request that
\* runs has a mutex or a lock: none is left behind by an error (runExclusive).
THEOREM TypeCorrect == Spec => []TypeInv
  BY InitBase, BaseStep, BaseTyped, PTL DEF Spec

-----------------------------------------------------------------------------
(* The rows and the contracts *)

\* Who writes what: the rest of the actions leave these alone.
LEMMA Writers ==
  ASSUME Base, [Next]_vars
  PROVE  /\ tokenized' = tokenized \/ \E c \in Calls : CommitToken(c)
         /\ chain'.band = chain.band \/ \E c \in Calls : UpdatePriceBand(c)
         /\ \/ proposal' = proposal
            \/ \E c \in Calls : RecordProposal(c) \/ RecordExecution(c) \/ RecordLiquidation(c)
            \/ HandleProposalCreated
<1>0. chain \in Chain
  BY DEF Base, Shape, Stores
<1>1. CASE UNCHANGED <<tokenized, chain, proposal>>
  BY <1>1
<1>2. CASE \E c \in Calls : Request(c)
  <2>1. PICK c \in Calls : Request(c)
    BY <1>2
  <2>2. UNCHANGED <<tokenized, chain, proposal>>
    BY <2>1 DEF Request, Approve, SetStatus, RequestTokenization, RequestPrice, Govern, Begin
  <2> QED BY <2>2
<1>3. CASE \E c \in Calls : Step(c)
  <2>1. PICK c \in Calls : Step(c)
    BY <1>3
  <2>2. CASE \/ SaveAsset(c) \/ LinkToken(c) \/ ChainFails(c) \/ EnterTokenization(c)
            \/ MarkPending(c) \/ EnterPricing(c) \/ UpdatePrice(c) \/ SyncAssetPriceToOracle(c)
            \/ EnterOracle(c) \/ RecordSync(c) \/ LiquidateAsset(c)
    BY <2>2 DEF SaveAsset, LinkToken, ChainFails, EnterTokenization, MarkPending, EnterPricing,
                UpdatePrice, SyncAssetPriceToOracle, EnterOracle, RecordSync, LiquidateAsset
  <2>3. CASE DeployAssetContract(c) \/ WhitelistVault(c) \/ CreateProposal(c)
             \/ ExecuteProposal(c) \/ TriggerLiquidation(c)
    <3>1. UNCHANGED <<tokenized, proposal>>
      BY <2>3 DEF DeployAssetContract, WhitelistVault, CreateProposal, ExecuteProposal, TriggerLiquidation
    <3>2. chain'.band = chain.band
      BY <1>0, <2>3 DEF DeployAssetContract, WhitelistVault, CreateProposal, ExecuteProposal,
                        TriggerLiquidation, Announce, Chain
    <3> QED BY <3>1, <3>2
  <2>4. CASE CommitToken(c)
    BY <2>4 DEF CommitToken
  <2>5. CASE UpdatePriceBand(c)
    BY <2>5 DEF UpdatePriceBand
  <2>6. CASE RecordProposal(c) \/ RecordExecution(c) \/ RecordLiquidation(c)
    BY <2>6 DEF RecordProposal, RecordExecution, RecordLiquidation
  <2> QED BY <2>1, <2>2, <2>3, <2>4, <2>5, <2>6 DEF Step
<1>4. CASE \E p \in Pods : ProposeElsewhere(p)
  <2>1. UNCHANGED <<tokenized, proposal>>
    BY <1>4 DEF ProposeElsewhere
  <2>2. chain'.band = chain.band
    BY <1>0, <1>4 DEF ProposeElsewhere, Announce, Chain
  <2> QED BY <2>1, <2>2
<1>5. CASE HandleProposalCreated
  BY <1>5 DEF HandleProposalCreated
<1>6. CASE \/ \E a \in Assets, o \in Offers : CreateAsset(a, o[1], o[2])
           \/ FindPodAsset \/ HealPodAsset \/ HandlerFails \/ Crash \/ UNCHANGED vars
  <2>1. UNCHANGED <<tokenized, chain, proposal>>
    BY <1>6 DEF CreateAsset, FindPodAsset, HealPodAsset, HandlerFails, Crash, vars
  <2> QED BY <2>1
<1> QED BY <1>2, <1>3, <1>4, <1>5, <1>6 DEF Next, Indexer

LEMMA VaultsStep == Base /\ VaultsWhitelisted /\ [Next]_vars => VaultsWhitelisted'
<1> SUFFICES ASSUME Base, VaultsWhitelisted, [Next]_vars, NEW a \in tokenized'
             PROVE  \E p \in chain'.whitelisted : chain'.owner[p] = {a} /\ <<a, p>> \in homes'
  BY DEF VaultsWhitelisted
<1>1. Base' /\ Kept
  BY BaseStep
<1>2. CASE a \in tokenized
  <2>1. PICK p \in chain.whitelisted : chain.owner[p] = {a} /\ <<a, p>> \in homes
    BY <1>2 DEF VaultsWhitelisted
  <2>2. p \in Pods
    BY <2>1, ChainFields
  <2> QED BY <1>1, <2>1, <2>2 DEF Kept
<1>3. CASE a \notin tokenized
  <2>1. PICK c \in Calls : CommitToken(c)
    BY <1>3, Writers
  <2>2. PICK b \in Busy, p \in Pods :
          /\ b = call[c] /\ p = b.pod /\ a = b.asset /\ p \in chain.whitelisted /\ chain.owner[p] = {a}
    <3>1. call[c] \in Busy /\ CallOK(c) /\ call[c].at = "COMMIT"
      BY <2>1, BusyAt DEF CommitToken, Places
    <3>2. a = call[c].asset
      BY <1>3, <2>1 DEF CommitToken
    <3> QED BY <3>1, <3>2 DEF CallOK
  <2>3. a \in Assets /\ b.row \in Row /\ SaveRow(a, [b.row EXCEPT !.pod = p, !.status = "APPROVED"])
    BY <1>3, <2>1, <2>2 DEF CommitToken, Busy
  <2>4. <<a, p>> \in homes'
    <3>1. [b.row EXCEPT !.pod = p, !.status = "APPROVED"].pod = p /\ p # NoPod
      BY <2>2, <2>3, AssetAssumption DEF Row, NoPod
    <3> QED BY <2>3, <3>1 DEF SaveRow
  <2> QED BY <1>1, <2>2, <2>4 DEF Kept
<1> QED BY <1>2, <1>3

\* BandIsThePrice, and the asset exists: nothing writes its price any more.
BandOK ==
  \A p \in Pods : chain.band[p] # 0 =>
    \E a \in Assets : Exists(a) /\ <<a, p>> \in homes /\ asset[a].price = chain.band[p]

LEMMA BandStep == Base /\ BandOK /\ [Next]_vars => BandOK'
<1> SUFFICES ASSUME Base, BandOK, [Next]_vars, NEW p \in Pods, chain'.band[p] # 0
             PROVE  \E a \in Assets :
                      Exists(a)' /\ <<a, p>> \in homes' /\ asset'[a].price = chain'.band[p]
  BY DEF BandOK
<1>1. Base' /\ Kept
  BY BaseStep
<1>2. CASE chain'.band[p] = chain.band[p]
  <2>1. PICK a \in Assets : Exists(a) /\ <<a, p>> \in homes /\ asset[a].price = chain.band[p]
    BY <1>2 DEF BandOK
  <2> QED BY <1>1, <1>2, <2>1 DEF Kept
<1>3. CASE chain'.band[p] # chain.band[p]
  <2>1. PICK c \in Calls : UpdatePriceBand(c)
    BY <1>3, Writers
  <2>2. PICK b \in Busy, a \in Assets :
          /\ b = call[c] /\ a = b.asset /\ b.pod = b.row.pod /\ b.pod \in Pods /\ Known(a, b.row)
    BY <2>1, BusyAt DEF UpdatePriceBand, Places, CallOK, Busy
  <2>3. p = b.pod /\ chain'.band[p] = b.row.price
    <3>1. PICK q \in Pods, n \in Nat : q = b.pod /\ n = b.row.price
      BY <2>2 DEF Busy, Row
    <3>2. chain' = [chain EXCEPT !.band[q] = n]
      BY <1>3, <2>1, <2>2, <3>1 DEF UpdatePriceBand
    <3>3. chain'.band = [chain.band EXCEPT ![q] = n]
      BY <3>2 DEF Base, Shape, Stores, Chain
    <3> QED BY <1>3, <3>1, <3>3, ChainFields
  <2>4. <<a, p>> \in homes /\ asset[a].price = b.row.price /\ Exists(a)
    BY <2>2, <2>3, AssetAssumption DEF Known, NoPod
  <2> QED BY <1>1, <2>2, <2>3, <2>4 DEF Kept
<1> QED BY <1>2, <1>3

\* Marking rows changes their status only.
LEMMA RowsStay ==
  ASSUME Base, [Next]_vars, NEW r \in proposal
  PROVE  \E q \in proposal' : q.asset = r.asset /\ q.id = r.id
<1>1. r \in ProposalRow
  BY DEF Base, Shape, Stores
<1>2. ASSUME NEW R, NEW s, proposal' = Marked(R, s) PROVE \E q \in proposal' : q.asset = r.asset /\ q.id = r.id
  <2>1. CASE r \notin R
    BY <1>2, <2>1 DEF Marked
  <2>2. CASE r \in R
    <3> DEFINE q == [r EXCEPT !.status = s]
    <3>1. q \in proposal'
      BY <1>2, <2>2 DEF Marked
    <3>2. q.asset = r.asset /\ q.id = r.id
      BY <1>1 DEF ProposalRow
    <3> QED BY <3>1, <3>2
  <2> QED BY <2>1, <2>2
<1>3. CASE r \in proposal'
  BY <1>3
<1>4. CASE \E c \in Calls : RecordExecution(c) \/ RecordLiquidation(c)
  BY <1>2, <1>4 DEF RecordExecution, RecordLiquidation
<1>5. CASE HandleProposalCreated
  BY <1>3, <1>5 DEF HandleProposalCreated
<1>6. CASE \E c \in Calls : RecordProposal(c)
  BY <1>3, <1>6 DEF RecordProposal
<1> QED BY <1>3, <1>4, <1>5, <1>6, Writers

LEMMA StatusStep == Base /\ StatusFollowsChain /\ [Next]_vars => StatusFollowsChain'
<1> SUFFICES ASSUME Base, StatusFollowsChain, [Next]_vars PROVE StatusFollowsChain'
  OBVIOUS
<1> DEFINE OK(r) ==
      /\ r.status = "EXECUTED" =>
           \E e \in chain'.executed : e[2] = r.id /\ <<r.asset, e[1]>> \in homes'
      /\ r.status = "LIQUIDATED" => \E p \in chain'.paused : <<r.asset, p>> \in homes'
<1>1. Kept /\ proposal \subseteq ProposalRow
  BY BaseStep DEF Base, Shape, Stores
<1>2. ASSUME NEW r \in proposal PROVE OK(r)
  BY <1>1 DEF Kept, StatusFollowsChain
<1>3. ASSUME NEW r, r.status = "PENDING" PROVE OK(r)
  BY <1>3
<1>4. CASE proposal' = proposal
  BY <1>2, <1>4 DEF StatusFollowsChain
<1>5. CASE \/ \E c \in Calls : RecordProposal(c)
           \/ HandleProposalCreated
  <2>1. ASSUME NEW r \in proposal' PROVE r \in proposal \/ r.status = "PENDING"
    BY <1>5, <2>1 DEF RecordProposal, HandleProposalCreated, NewRow
  <2> HIDE DEF OK
  <2>2. ASSUME NEW r \in proposal' PROVE OK(r)
    BY <1>2, <1>3, <2>1
  <2> USE DEF OK
  <2> QED BY <2>2 DEF StatusFollowsChain
<1>7. CASE \E c \in Calls : RecordExecution(c)
  <2>1. PICK c \in Calls : RecordExecution(c)
    BY <1>7
  <2>2. PICK b \in Busy :
          /\ b = call[c] /\ <<b.pod, b.arg>> \in chain.executed /\ <<b.asset, b.pod>> \in homes
    BY <2>1, BusyAt DEF RecordExecution, Places, CallOK, Governing
  <2>3. ASSUME NEW q \in RowsOf(b.asset, b.arg), NEW r, r = [q EXCEPT !.status = "EXECUTED"] PROVE OK(r)
    <3>1. r.status = "EXECUTED" /\ r.asset = b.asset /\ r.id = b.arg
      BY <1>1, <2>3 DEF RowsOf, ProposalRow
    <3>2. <<b.pod, b.arg>> \in chain'.executed /\ <<b.asset, b.pod>> \in homes'
      BY <1>1, <2>2 DEF Kept
    <3> QED BY <3>1, <3>2
  <2>4. ASSUME NEW r \in proposal' PROVE OK(r)
    BY <1>2, <2>1, <2>2, <2>3 DEF RecordExecution, Marked
  <2> QED BY <2>4 DEF StatusFollowsChain
<1>8. CASE \E c \in Calls : RecordLiquidation(c)
  <2>1. PICK c \in Calls : RecordLiquidation(c)
    BY <1>8
  <2>2. PICK b \in Busy : b = call[c] /\ b.pod \in chain.paused /\ <<b.asset, b.pod>> \in homes
    BY <2>1, BusyAt DEF RecordLiquidation, Places, CallOK, Governing
  <2>3. ASSUME NEW q \in proposal, q.asset = b.asset, NEW r, r = [q EXCEPT !.status = "LIQUIDATED"]
        PROVE  OK(r)
    <3>1. r.status = "LIQUIDATED" /\ r.asset = b.asset
      BY <1>1, <2>3 DEF ProposalRow
    <3> QED BY <1>1, <2>2, <3>1 DEF Kept
  <2>4. ASSUME NEW r \in proposal' PROVE OK(r)
    BY <1>2, <2>1, <2>2, <2>3 DEF RecordLiquidation, Marked
  <2> QED BY <2>4 DEF StatusFollowsChain
<1> QED BY <1>4, <1>5, <1>7, <1>8, Writers

-----------------------------------------------------------------------------
(* The proposals of the contracts *)

\* What becomes of a proposal of the contract: the parts of ProposalsRecorded.
Waits(p, id) ==
  \E i \in DOMAIN inbox : inbox[i] = [type |-> "ProposalCreated", pod |-> p, id |-> id]
HasRow(p, id) == \E r \in proposal : r.id = id /\ <<r.asset, p>> \in homes

\* Who writes the inbox and the number of the proposals.
LEMMA Hears ==
  ASSUME Base, [Next]_vars
  PROVE  \/ inbox' = inbox /\ chain'.count = chain.count /\ missed' = missed
         \/ (\E p \in Pods : Announce(p)) /\ missed' = missed
         \/ \E c \in Calls : DeployAssetContract(c)
         \/ FindPodAsset \/ HealPodAsset \/ HandleProposalCreated \/ HandlerFails \/ Crash
<1>0. chain \in Chain
  BY DEF Base, Shape, Stores
<1>1. CASE UNCHANGED <<inbox, chain, missed>>
  BY <1>1
<1>2. CASE \E c \in Calls : Request(c)
  <2>1. PICK c \in Calls : Request(c)
    BY <1>2
  <2>2. UNCHANGED <<inbox, chain, missed>>
    BY <2>1 DEF Request, Approve, SetStatus, RequestTokenization, RequestPrice, Govern, Begin, history
  <2> QED BY <2>2
<1>3. CASE \E c \in Calls : Step(c)
  <2>1. PICK c \in Calls : Step(c)
    BY <1>3
  <2>2. CASE \/ SaveAsset(c) \/ LinkToken(c) \/ ChainFails(c) \/ EnterTokenization(c)
             \/ MarkPending(c) \/ EnterPricing(c) \/ UpdatePrice(c) \/ SyncAssetPriceToOracle(c)
             \/ EnterOracle(c) \/ RecordSync(c) \/ LiquidateAsset(c)
    <3>1. UNCHANGED <<inbox, chain, missed>>
      BY <2>2 DEF SaveAsset, LinkToken, ChainFails, EnterTokenization, MarkPending, EnterPricing,
                  UpdatePrice, SyncAssetPriceToOracle, EnterOracle, RecordSync, LiquidateAsset,
                  UpdateStatus, SaveRow, history
    <3> QED BY <3>1
  <2>3. CASE CommitToken(c)
    <3>1. UNCHANGED <<inbox, chain, missed>>
      BY <2>3 DEF CommitToken, SaveRow, history
    <3> QED BY <3>1
  <2>4. CASE WhitelistVault(c) \/ ExecuteProposal(c) \/ TriggerLiquidation(c) \/ UpdatePriceBand(c)
    <3>1. UNCHANGED <<inbox, missed>>
      BY <2>4 DEF WhitelistVault, ExecuteProposal, TriggerLiquidation, UpdatePriceBand, history
    <3>2. chain'.count = chain.count
      BY <1>0, <2>4 DEF WhitelistVault, ExecuteProposal, TriggerLiquidation, UpdatePriceBand, Chain
    <3> QED BY <3>1, <3>2
  <2>5. CASE DeployAssetContract(c)
    BY <2>5
  <2>6. CASE CreateProposal(c)
    <3>1. PICK p \in Pods : p = call[c].pod
      BY <2>6, BusyAt DEF CreateProposal, Places, CallOK, Governing
    <3>2. Announce(p) /\ missed' = missed
      BY <2>6, <3>1 DEF CreateProposal, history
    <3> QED BY <3>2
  <2>7. CASE RecordProposal(c) \/ RecordExecution(c) \/ RecordLiquidation(c)
    <3>1. UNCHANGED <<inbox, chain, missed>>
      BY <2>7 DEF RecordProposal, RecordExecution, RecordLiquidation, history
    <3> QED BY <3>1
  <2> QED BY <2>1, <2>2, <2>3, <2>4, <2>5, <2>6, <2>7 DEF Step
<1>4. CASE \E p \in Pods : ProposeElsewhere(p)
  BY <1>4 DEF ProposeElsewhere, history
<1>5. CASE \/ \E a \in Assets, o \in Offers : CreateAsset(a, o[1], o[2])
           \/ UNCHANGED vars
  <2>1. UNCHANGED <<inbox, chain, missed>>
    BY <1>5 DEF CreateAsset, SaveRow, vars, history
  <2> QED BY <2>1
<1> QED BY <1>2, <1>3, <1>4, <1>5 DEF Next, Indexer

\* A row that names the pod's asset stays, and so does the asset's history.
LEMMA HasRowStays ==
  ASSUME Base, [Next]_vars, NEW p, NEW id, HasRow(p, id) PROVE HasRow(p, id)'
<1>1. PICK r \in proposal : r.id = id /\ <<r.asset, p>> \in homes
  BY DEF HasRow
<1>2. PICK q \in proposal' : q.asset = r.asset /\ q.id = r.id
  BY RowsStay
<1>3. homes \subseteq homes'
  BY BaseStep DEF Kept
<1> QED BY <1>1, <1>2, <1>3 DEF HasRow

\* An event stays while others are put behind it.
LEMMA WaitsBehind ==
  ASSUME Base, NEW e, inbox' = Append(inbox, e), NEW p, NEW id, Waits(p, id)
  PROVE  Waits(p, id)'
<1>1. inbox \in Seq(Events)
  BY DEF Base, Shape, Stores
<1>2. PICK i \in DOMAIN inbox : inbox[i] = [type |-> "ProposalCreated", pod |-> p, id |-> id]
  BY DEF Waits
<1>3. i \in DOMAIN inbox' /\ inbox'[i] = inbox[i]
  BY <1>1, <1>2
<1> QED BY <1>2, <1>3 DEF Waits

\* When the first event leaves, every other one waits on.
LEMMA WaitsAhead ==
  ASSUME Base, inbox # <<>>, inbox' = Tail(inbox), NEW p, NEW id, Waits(p, id),
         Head(inbox) # [type |-> "ProposalCreated", pod |-> p, id |-> id]
  PROVE  Waits(p, id)'
<1>1. inbox \in Seq(Events)
  BY DEF Base, Shape, Stores
<1>2. PICK i \in DOMAIN inbox : inbox[i] = [type |-> "ProposalCreated", pod |-> p, id |-> id]
  BY DEF Waits
<1>3. i # 1
  BY <1>1, <1>2
<1>4. i - 1 \in DOMAIN inbox' /\ inbox'[i - 1] = inbox[i]
  BY <1>1, <1>2, <1>3
<1> QED BY <1>2, <1>4 DEF Waits

LEMMA RecordedStep == Base /\ ProposalsRecorded /\ [Next]_vars => ProposalsRecorded'
<1> SUFFICES ASSUME Base, ProposalsRecorded, [Next]_vars, NEW p \in Pods,
                    NEW id \in 1..chain'.count[p]
             PROVE  <<p, id>> \in missed' \/ Waits(p, id)' \/ HasRow(p, id)'
  BY DEF ProposalsRecorded, Waits, HasRow
<1> DEFINE e == [type |-> "ProposalCreated", pod |-> p, id |-> id]
<1>1. inbox \in Seq(Events) /\ chain \in Chain
  BY DEF Base, Shape, Stores
<1>2. ASSUME id \in 1..chain.count[p] PROVE <<p, id>> \in missed \/ Waits(p, id) \/ HasRow(p, id)
  BY <1>2 DEF ProposalsRecorded, Waits, HasRow
<1>3. CASE inbox' = inbox /\ chain'.count = chain.count /\ missed' = missed
  BY <1>2, <1>3, HasRowStays DEF Waits
<1>4. CASE (\E q \in Pods : Announce(q)) /\ missed' = missed
  <2>1. PICK q \in Pods : Announce(q)
    BY <1>4
  <2>2. PICK n : n = chain.count[q] + 1
    OBVIOUS
  <2>3. /\ inbox' = Append(inbox, [type |-> "ProposalCreated", pod |-> q, id |-> n])
        /\ chain'.count = [chain.count EXCEPT ![q] = n]
    BY <1>1, <2>1, <2>2 DEF Announce, Chain
  <2>4. CASE id \in 1..chain.count[p]
    BY <1>2, <1>4, <2>3, <2>4, HasRowStays, WaitsBehind
  <2>5. CASE id \notin 1..chain.count[p]
    <3>1. p = q /\ id = n
      <4>1. chain.count \in [Pods -> 0..Proposals]
        BY <1>1 DEF Chain
      <4>2. chain.count[p] \in 0..Proposals
        BY <4>1
      <4>3. p = q
        BY <2>3, <2>5, <4>1
      <4>4. id \in 1..(chain.count[p] + 1) /\ chain.count[p] \in Int
        BY <2>2, <2>3, <4>1, <4>2, <4>3, AssetAssumption
      <4> QED BY <2>2, <2>5, <4>3, <4>4
    <3>2. Len(inbox) + 1 \in DOMAIN inbox' /\ inbox'[Len(inbox) + 1] = e
      BY <1>1, <2>3, <3>1
    <3> QED BY <3>2 DEF Waits
  <2> QED BY <2>4, <2>5
<1>5. CASE \E c \in Calls : DeployAssetContract(c)
  <2>1. PICK c \in Calls : DeployAssetContract(c)
    BY <1>5
  <2>2. PICK d : inbox' = Append(inbox, d)
    BY <2>1 DEF DeployAssetContract
  <2>3. chain'.count = chain.count /\ missed' = missed
    BY <1>1, <2>1 DEF DeployAssetContract, Chain, history
  <2> QED BY <1>2, <2>2, <2>3, HasRowStays, WaitsBehind
<1>6. CASE FindPodAsset \/ HealPodAsset
  <2>1. chain'.count = chain.count /\ missed' = missed
    BY <1>6 DEF FindPodAsset, HealPodAsset, SaveRow, history
  <2>2. \/ inbox' = inbox
        \/ inbox' = Tail(inbox) /\ inbox # <<>> /\ Head(inbox).type = "AssetPodDeployed"
    BY <1>6 DEF FindPodAsset, HealPodAsset, Base, HealOK
  <2>3. CASE inbox' = inbox
    BY <1>2, <2>1, <2>3, HasRowStays DEF Waits
  <2>4. CASE inbox' = Tail(inbox) /\ inbox # <<>> /\ Head(inbox).type = "AssetPodDeployed"
    <3>1. Head(inbox) # e
      BY <2>4
    <3> QED BY <1>2, <2>1, <2>4, <3>1, HasRowStays, WaitsAhead
  <2> QED BY <2>2, <2>3, <2>4
<1>7. CASE HandleProposalCreated
  <2>1. /\ inbox # <<>> /\ inbox' = Tail(inbox) /\ Head(inbox).type = "ProposalCreated"
        /\ chain'.count = chain.count /\ homes' = homes
    BY <1>7 DEF HandleProposalCreated
  <2>2. CASE Head(inbox) # e
    <3>1. missed \subseteq missed'
      BY <1>7 DEF HandleProposalCreated, Lost
    <3> QED BY <1>2, <2>1, <2>2, <3>1, HasRowStays, WaitsAhead
  <2>3. CASE Head(inbox) = e
    <3>1. Head(inbox).pod = p /\ Head(inbox).id = id
      BY <2>3
    <3>2. CASE missed' = missed \cup {<<p, id>>}
      BY <3>2
    <3>3. CASE \E a \in Holders(p) :
                 proposal' = IF RowsOf(a, id) # {} THEN proposal
                             ELSE proposal \cup {NewRow(a, id, "indexer")}
      <4>1. PICK a \in Holders(p) :
              proposal' = IF RowsOf(a, id) # {} THEN proposal
                          ELSE proposal \cup {NewRow(a, id, "indexer")}
        BY <3>3
      <4>2. <<a, p>> \in homes'
        BY <2>1, AssetAssumption DEF Holders, Base, RowsKnown, NoPod
      <4>3. \E r \in proposal' : r.id = id /\ r.asset = a
        <5>1. CASE RowsOf(a, id) # {}
          BY <4>1, <5>1 DEF RowsOf
        <5>2. CASE RowsOf(a, id) = {}
          <6>1. NewRow(a, id, "indexer") \in proposal'
            BY <4>1, <5>2
          <6>2. NewRow(a, id, "indexer").id = id /\ NewRow(a, id, "indexer").asset = a
            BY DEF NewRow
          <6> QED BY <6>1, <6>2
        <5> QED BY <5>1, <5>2
      <4> QED BY <4>2, <4>3 DEF HasRow
    <3> QED BY <1>7, <3>1, <3>2, <3>3 DEF HandleProposalCreated, Lost
  <2> QED BY <2>2, <2>3
<1>8. CASE inbox # <<>> /\ inbox' = Tail(inbox) /\ missed' = Lost(Head(inbox)) /\ chain' = chain
  <2>1. missed \subseteq missed'
    BY <1>8 DEF Lost
  <2>2. CASE Head(inbox) # e
    BY <1>2, <1>8, <2>1, <2>2, HasRowStays, WaitsAhead
  <2>3. CASE Head(inbox) = e
    BY <1>8, <2>3 DEF Lost
  <2> QED BY <2>2, <2>3
<1>9. CASE HandlerFails
  BY <1>8, <1>9 DEF HandlerFails
<1>10. CASE Crash
  BY <1>3, <1>8, <1>10 DEF Crash
<1> QED BY <1>3, <1>4, <1>5, <1>6, <1>7, <1>9, <1>10, Hears

-----------------------------------------------------------------------------
(* The theorems *)

\* Whatever approvals, tokenizations and restarts overlap, a tokenized asset
\* has had a pod of its own whose treasury the identity registry knows.
THEOREM TokenizedAreWhitelisted == Spec => []VaultsWhitelisted
<1>1. Init => VaultsWhitelisted
  BY DEF Init, VaultsWhitelisted
<1> QED BY <1>1, InitBase, BaseStep, VaultsStep, PTL DEF Spec

\* The oracle's band is around the price of an asset that has had the token,
\* whatever syncs and price updates overlap.
THEOREM BandsArePrices == Spec => []BandIsThePrice
<1>1. Init => BandOK
  BY DEF Init, BandOK
<1>2. BandOK => BandIsThePrice
  BY DEF BandOK, BandIsThePrice
<1> QED BY <1>1, <1>2, InitBase, BaseStep, BandStep, PTL DEF Spec

\* A proposal's row never runs ahead of the governance contract.
THEOREM StatusIsBacked == Spec => []StatusFollowsChain
<1>1. Init => StatusFollowsChain
  BY DEF Init, StatusFollowsChain
<1> QED BY <1>1, InitBase, BaseStep, StatusStep, PTL DEF Spec

\* No proposal is lost whose event was handled: it has a row or its event is to
\* come, unless no row matched the event, its handler failed or a restart
\* skipped it.
THEOREM ProposalsKept == Spec => []ProposalsRecorded
<1>1. Init => ProposalsRecorded
  <2>1. ASSUME Init, NEW p \in Pods PROVE chain.count[p] = 0
    BY <2>1 DEF Init
  <2> QED BY <2>1 DEF ProposalsRecorded
<1> QED BY <1>1, InitBase, BaseStep, RecordedStep, PTL DEF Spec

=============================================================================
