---------------------------- MODULE AssetGovernance ----------------------------
(* The life of an asset: its row in the assets table, the pod of contracts     *)
(* (token, treasury, governance) deployed for it, its price band in the price  *)
(* oracle, its governance proposals, and the indexer that hears of both.       *)
(* Sources: asset/, tokenization/, governance/, secondary-market/trade/oracle, *)
(* the asset part of admin/ and the asset and governance indexer handlers.     *)
EXTENDS Integers, Sequences, FiniteSets

CONSTANTS
  Assets,        \* numbers, in the order of createdAt
  Listed,        \* those approved at first, for the lowest price, the first with a pod
  Offers,        \* what partners ask: <<total value in cents, token supply>>
  Prices,        \* the prices an admin sets
  Statuses,      \* the statuses an admin sets
  Pods,          \* bound: the pods ever deployed
  Proposals,     \* bound: the proposals of a pod
  Calls,         \* bound: the requests ever handled
  MaxCrashes     \* bound: the restarts of the backend

NoPod == 0
None == "NONE"

ASSUME AssetAssumption ==
  /\ Assets \subseteq Nat /\ IsFiniteSet(Assets)
  /\ Listed \subseteq Assets /\ Listed # {}
  /\ Offers # {} /\ Offers \subseteq (Nat \X (Nat \ {0}))
  /\ Prices \subseteq Nat
  /\ Pods \subseteq (Nat \ {0}) /\ 1 \in Pods
  /\ Proposals \in Nat
  /\ MaxCrashes \in Nat
  /\ None \notin Statuses \cup Calls

VARIABLES
  asset,        \* the committed assets rows
  tokenized,    \* the assets that have an asset_tokens row
  proposal,     \* the governance_proposals rows
  chain,        \* the contracts
  call,         \* what each request is doing
  mutex,        \* who holds the mutexes of the services
  locks,        \* the transactions that keep an assets row locked
  inbox,        \* the events the indexer has not handled
  healing,      \* the row the indexer has read and will save
  homes,        \* history: every pair of an asset and a pod its row has named
  missed,       \* history: the proposals whose event was lost: no row matched
                \* it, its handler failed, or a restart skipped it
  crashes

backend == <<call, mutex, locks, healing>>
history == <<homes, missed, crashes>>
vars == <<asset, tokenized, proposal, chain, inbox, backend, history>>

NoRow == [status |-> None, pod |-> NoPod, price |-> 0]
NoCall == [at |-> "NEW"]
Done == [at |-> "DONE"]

\* Dividing by the supply and rounding to cents; a half cent goes up.
UnitPrice(total, supply) == (2 * total + supply) \div (2 * supply)
Distance(m, n) == IF m < n THEN n - m ELSE m - n

\* The least of a set of numbers: assets and pods are numbered as they appear.
Oldest(S) == CHOOSE a \in S : \A b \in S : a <= b
LowestPrice == Oldest({UnitPrice(o[1], o[2]) : o \in Offers})

Init ==
  /\ asset = [a \in Assets |->
       IF a \in Listed
       THEN [status |-> "APPROVED",
             pod |-> IF a = Oldest(Listed) THEN 1 ELSE NoPod,
             price |-> LowestPrice]
       ELSE NoRow]
  /\ tokenized = {}
  /\ proposal = {}
  /\ chain = [owner |-> [p \in Pods |-> IF p = 1 THEN {Oldest(Listed)} ELSE {}],
              whitelisted |-> {}, band |-> [p \in Pods |-> 0],
              count |-> [p \in Pods |-> 0], executed |-> {}, paused |-> {}]
  /\ call = [c \in Calls |-> NoCall]
  /\ mutex = [tokenization |-> None, price |-> None, oracle |-> None]
  /\ locks = [a \in Assets |-> None]
  /\ inbox = <<>>
  /\ healing = NoCall
  /\ homes = {<<Oldest(Listed), 1>>}
  /\ missed = {}
  /\ crashes = 0

-----------------------------------------------------------------------------
(* Requests and the rows they save *)

Exists(a) == asset[a].status # None
RowFree(a) == locks[a] = None

Begin(c, op, a, at, row, arg) ==
  /\ call[c] = NoCall
  /\ Exists(a)
  /\ call' = [call EXCEPT ![c] = [op |-> op, asset |-> a, at |-> at, row |-> row,
                                  pod |-> row.pod, arg |-> arg]]
  /\ UNCHANGED <<asset, tokenized, proposal, chain, inbox, mutex, locks, healing, history>>

Go(c, at) == call' = [call EXCEPT ![c].at = at]

\* Mistake: the request's mutexes stay locked when it ends.
EndLocked(c) ==
  /\ call' = [call EXCEPT ![c] = Done]
  /\ locks' = [a \in Assets |-> IF locks[a] = c THEN None ELSE locks[a]]
  /\ UNCHANGED mutex

\* A request ends: it leaves its mutexes and its transaction.
End(c) ==
  /\ call' = [call EXCEPT ![c] = Done]
  /\ mutex' = [m \in DOMAIN mutex |-> IF mutex[m] = c THEN None ELSE mutex[m]]
  /\ locks' = [a \in Assets |-> IF locks[a] = c THEN None ELSE locks[a]]

\* save() writes every column that differs from the row read earlier.
SaveRow(a, row) ==
  /\ RowFree(a)
  /\ asset' = [asset EXCEPT ![a] = row]
  /\ homes' = IF row.pod = NoPod THEN homes ELSE homes \cup {<<a, row.pod>>}
  /\ UNCHANGED <<missed, crashes>>

\* update() writes the status alone.
UpdateStatus(a, s) == SaveRow(a, [asset[a] EXCEPT !.status = s])

-----------------------------------------------------------------------------
(* Creation, approval and status changes *)

CreateAsset(a, total, supply) ==
  LET price == UnitPrice(total, supply) IN
  /\ ~ Exists(a)
  /\ \A b \in Assets : b < a => Exists(b)
  /\ Distance(total, price * supply) <= 5
  /\ SaveRow(a, [status |-> "SUBMITTED", pod |-> NoPod, price |-> price])
  /\ UNCHANGED <<tokenized, proposal, chain, inbox, backend>>

\* approve: a row without a pod waits for one to be deployed.
Approve(c, a) ==
  Begin(c, "approve", a, IF asset[a].pod = NoPod THEN "DEPLOY" ELSE "SAVE",
        [asset[a] EXCEPT !.status = "APPROVED"], None)

\* freeze, reject and the status an admin writes.
SetStatus(c, a, s) == Begin(c, "status", a, "SAVE", [asset[a] EXCEPT !.status = s], None)

SaveAsset(c) ==
  /\ call[c].at = "SAVE"
  /\ call[c].op \in {"approve", "status"}
  /\ SaveRow(call[c].asset, [call[c].row EXCEPT !.pod = call[c].pod])
  /\ End(c)
  /\ UNCHANGED <<tokenized, proposal, chain, inbox, healing>>

-----------------------------------------------------------------------------
(* Deployment, by an approval or a tokenization *)

Fresh == {p \in Pods : chain.owner[p] = {}}

\* The pod is on the chain, and its event with it, before it is linked.
DeployAssetContract(c) ==
  /\ call[c].at = "DEPLOY"
  /\ Fresh # {}
  /\ LET p == Oldest(Fresh) IN
     /\ chain' = [chain EXCEPT !.owner[p] = {call[c].asset}]
     /\ inbox' = Append(inbox, [type |-> "AssetPodDeployed", pod |-> p])
     /\ call' = [call EXCEPT ![c].pod = p, ![c].at = "LINK"]
  /\ UNCHANGED <<asset, tokenized, proposal, mutex, locks, healing, history>>

LinkToken(c) ==
  /\ call[c].at = "LINK"
  /\ Go(c, IF call[c].op = "approve" THEN "SAVE" ELSE "WHITELIST")
  /\ UNCHANGED <<asset, tokenized, proposal, chain, inbox, mutex, locks, healing, history>>

\* The chain refuses, or cannot be reached.
ChainFails(c) ==
  /\ call[c].at \in {"DEPLOY", "LINK", "WHITELIST", "CHAIN"}
  /\ End(c)
  /\ UNCHANGED <<asset, tokenized, proposal, chain, inbox, healing, history>>

-----------------------------------------------------------------------------
(* Tokenization *)

RequestTokenization(c, a) == Begin(c, "tokenize", a, "QUEUED", asset[a], None)

EnterTokenization(c) ==
  LET a == call[c].asset IN
  /\ call[c].at = "QUEUED" /\ call[c].op = "tokenize"
  /\ mutex.tokenization = None
  /\ IF asset[a].pod # NoPod \/ asset[a].status # "APPROVED"
     THEN End(c)
     ELSE /\ mutex' = [mutex EXCEPT !.tokenization = c]
          /\ call' = [call EXCEPT ![c].at = "DEPLOY", ![c].row = asset[a]]
          /\ UNCHANGED locks
  /\ UNCHANGED <<asset, tokenized, proposal, chain, inbox, healing, history>>

\* Mistake: a failed whitelisting is only logged.
WhitelistingLogged(c) ==
  /\ call[c].at = "WHITELIST"
  /\ \/ chain' = [chain EXCEPT !.whitelisted = @ \cup {call[c].pod}]
     \/ UNCHANGED chain
  /\ Go(c, "COMMIT")
  /\ UNCHANGED <<asset, tokenized, proposal, inbox, mutex, locks, healing, history>>

WhitelistVault(c) ==
  /\ call[c].at = "WHITELIST"
  /\ chain' = [chain EXCEPT !.whitelisted = @ \cup {call[c].pod}]
  /\ Go(c, "COMMIT")
  /\ UNCHANGED <<asset, tokenized, proposal, inbox, mutex, locks, healing, history>>

\* One asset_tokens row to an asset: a second one undoes the transaction.
CommitToken(c) ==
  LET a == call[c].asset IN
  /\ call[c].at = "COMMIT"
  /\ IF a \in tokenized
     THEN End(c) /\ UNCHANGED <<asset, tokenized, history>>
     ELSE /\ tokenized' = tokenized \cup {a}
          /\ SaveRow(a, [call[c].row EXCEPT !.pod = call[c].pod, !.status = "APPROVED"])
          /\ Go(c, "SYNC")
          /\ UNCHANGED <<mutex, locks>>
  /\ UNCHANGED <<proposal, chain, inbox, healing>>

\* The error of the oracle is caught: the asset is marked for another attempt.
MarkPending(c) ==
  /\ call[c].at = "MARK"
  /\ UpdateStatus(call[c].asset, "SYNC_PENDING")
  /\ End(c)
  /\ UNCHANGED <<tokenized, proposal, chain, inbox, healing>>

-----------------------------------------------------------------------------
(* The price, and the oracle that is told of it *)

RequestPrice(c, a, n) == Begin(c, "price", a, "QUEUED", asset[a], n)

\* updateAssetPrice: a transaction whose first statement locks the row.
EnterPricing(c) ==
  /\ call[c].at = "QUEUED" /\ call[c].op = "price"
  /\ mutex.price = None
  /\ mutex' = [mutex EXCEPT !.price = c]
  /\ Go(c, "UPDATE")
  /\ UNCHANGED <<asset, tokenized, proposal, chain, inbox, locks, healing, history>>

UpdatePrice(c) ==
  LET a == call[c].asset IN
  /\ call[c].at = "UPDATE"
  /\ RowFree(a)
  /\ locks' = [locks EXCEPT ![a] = c]
  /\ Go(c, "SYNC")
  /\ UNCHANGED <<asset, tokenized, proposal, chain, inbox, mutex, healing, history>>

\* syncAssetPriceToOracle reads the committed row, on another connection.
SyncAssetPriceToOracle(c) ==
  LET row == asset[call[c].asset] IN
  /\ call[c].at = "SYNC"
  /\ IF row.pod # NoPod /\ row.price > 0
     THEN /\ call' = [call EXCEPT ![c].at = "WAIT", ![c].row = row, ![c].pod = row.pod]
          /\ UNCHANGED <<mutex, locks>>
     ELSE IF call[c].op = "tokenize"
          THEN Go(c, "MARK") /\ UNCHANGED <<mutex, locks>>
          ELSE End(c)
  /\ UNCHANGED <<asset, tokenized, proposal, chain, inbox, healing, history>>

EnterOracle(c) ==
  /\ call[c].at = "WAIT"
  /\ mutex.oracle = None
  /\ mutex' = [mutex EXCEPT !.oracle = c]
  /\ Go(c, "BAND")
  /\ UNCHANGED <<asset, tokenized, proposal, chain, inbox, locks, healing, history>>

\* The band is 10% around the price that was read.
UpdatePriceBand(c) ==
  /\ call[c].at = "BAND"
  /\ \/ /\ chain' = [chain EXCEPT !.band[call[c].pod] = call[c].row.price]
        /\ Go(c, "SYNCED")
     \/ /\ Go(c, "UNSYNCED")
        /\ UNCHANGED chain
  /\ UNCHANGED <<asset, tokenized, proposal, inbox, mutex, locks, healing, history>>

\* Mistake: the sync writes on its caller's connection, and still reads before.
UnlockedToCaller(c) == locks[call[c].asset] \in {None, c}

\* The update that records the sync is a statement of its own: it waits for
\* the lock of whatever transaction has the row, the caller's too.
Unlocked(c) == RowFree(call[c].asset)

\* Mistake: the oracle's mutex is not left when the sync fails.
RecordSyncHolding(c) ==
  LET a == call[c].asset
      ok == call[c].at = "SYNCED"
  IN
  /\ call[c].at \in {"SYNCED", "UNSYNCED"}
  /\ Unlocked(c)
  /\ asset' = [asset EXCEPT ![a].status = IF ok THEN "APPROVED" ELSE "SYNC_PENDING"]
  /\ IF ok THEN End(c) ELSE Go(c, "UNSYNCED") /\ UNCHANGED <<mutex, locks>>
  /\ UNCHANGED <<tokenized, proposal, chain, inbox, healing, history>>

RecordSync(c) ==
  LET a == call[c].asset
      ok == call[c].at = "SYNCED"
      priced == ok /\ call[c].op = "price"
      row == [asset[a] EXCEPT !.status = IF ok THEN "APPROVED" ELSE "SYNC_PENDING",
                              !.price = IF priced THEN call[c].arg ELSE @]
  IN
  /\ call[c].at \in {"SYNCED", "UNSYNCED"}
  /\ Unlocked(c)
  /\ asset' = [asset EXCEPT ![a] = row]
  /\ IF call[c].op = "tokenize" /\ ~ ok
     THEN /\ Go(c, "MARK")
          /\ mutex' = [mutex EXCEPT !.oracle = None]
          /\ UNCHANGED locks
     ELSE End(c)
  /\ UNCHANGED <<tokenized, proposal, chain, inbox, healing, history>>

-----------------------------------------------------------------------------
(* Governance *)

Govern(c, op, a, arg) == asset[a].pod # NoPod /\ Begin(c, op, a, "CHAIN", asset[a], arg)

NewRow(a, id, by) == [asset |-> a, id |-> id, status |-> "PENDING", by |-> by]

\* The contract numbers its proposals; each is announced by an event.
Announce(p) ==
  /\ chain.count[p] < Proposals
  /\ chain' = [chain EXCEPT !.count[p] = @ + 1]
  /\ inbox' = Append(inbox, [type |-> "ProposalCreated", pod |-> p,
                             id |-> chain.count[p] + 1])

CreateProposal(c) ==
  /\ call[c].at = "CHAIN" /\ call[c].op = "propose"
  /\ Announce(call[c].pod)
  /\ call' = [call EXCEPT ![c].at = "RECORD", ![c].arg = chain.count[call[c].pod] + 1]
  /\ UNCHANGED <<asset, tokenized, proposal, mutex, locks, healing, history>>

\* Whoever else the contract lets propose.
ProposeElsewhere(p) ==
  /\ chain.owner[p] # {}
  /\ Announce(p)
  /\ UNCHANGED <<asset, tokenized, proposal, backend, history>>

ExecuteProposal(c) ==
  LET p == call[c].pod IN
  /\ call[c].at = "CHAIN" /\ call[c].op = "execute"
  /\ call[c].arg <= chain.count[p]
  /\ <<p, call[c].arg>> \notin chain.executed
  /\ chain' = [chain EXCEPT !.executed = @ \cup {<<p, call[c].arg>>}]
  /\ Go(c, "RECORD")
  /\ UNCHANGED <<asset, tokenized, proposal, inbox, mutex, locks, healing, history>>

\* A contract that is paused already counts as liquidated.
TriggerLiquidation(c) ==
  /\ call[c].at = "CHAIN" /\ call[c].op = "liquidate"
  /\ chain' = [chain EXCEPT !.paused = @ \cup {call[c].pod}]
  /\ Go(c, "RECORD")
  /\ UNCHANGED <<asset, tokenized, proposal, inbox, mutex, locks, healing, history>>

\* The rows an update names, given the status.
Marked(rows, s) == (proposal \ rows) \cup {[r EXCEPT !.status = s] : r \in rows}
\* Mistake: the rows are found by the number of the proposal alone.
RowsNumbered(a, id) == {r \in proposal : r.id = id}

RowsOf(a, id) == {r \in proposal : r.asset = a /\ r.id = id}

RecordProposal(c) ==
  /\ call[c].at = "RECORD" /\ call[c].op = "propose"
  /\ proposal' = proposal \cup {NewRow(call[c].asset, call[c].arg, "service")}
  /\ End(c)
  /\ UNCHANGED <<asset, tokenized, chain, inbox, healing, history>>

RecordExecution(c) ==
  /\ call[c].at = "RECORD" /\ call[c].op = "execute"
  /\ proposal' = Marked(RowsOf(call[c].asset, call[c].arg), "EXECUTED")
  /\ End(c)
  /\ UNCHANGED <<asset, tokenized, chain, inbox, healing, history>>

RecordLiquidation(c) ==
  /\ call[c].at = "RECORD" /\ call[c].op = "liquidate"
  /\ proposal' = Marked({r \in proposal : r.asset = call[c].asset}, "LIQUIDATED")
  /\ Go(c, "CLOSE")
  /\ UNCHANGED <<asset, tokenized, chain, inbox, mutex, locks, healing, history>>

LiquidateAsset(c) ==
  /\ call[c].at = "CLOSE"
  /\ UpdateStatus(call[c].asset, "LIQUIDATED")
  /\ End(c)
  /\ UNCHANGED <<tokenized, proposal, chain, inbox, healing>>

-----------------------------------------------------------------------------
(* The indexer: one event after the other *)

Approved == {a \in Assets : asset[a].status = "APPROVED"}
Holders(p) == {a \in Assets : asset[a].pod = p}

\* The row that names the token, or the approved one with the pod's title;
\* failing both, the oldest approved row: the condition on a null tokenAddress
\* is one the query builder leaves out.
Candidates(p) ==
  LET matching == Holders(p) \cup (chain.owner[p] \cap Approved) IN
  IF matching # {} THEN matching
  ELSE IF Approved # {} THEN {Oldest(Approved)} ELSE {}

FindPodAsset ==
  /\ healing = NoCall
  /\ inbox # <<>> /\ Head(inbox).type = "AssetPodDeployed"
  /\ LET p == Head(inbox).pod IN
     \/ /\ \/ Candidates(p) = {}
           \/ Candidates(p) \cap Holders(p) # {}
        /\ inbox' = Tail(inbox)
        /\ UNCHANGED healing
     \/ \E a \in Candidates(p) \ Holders(p) :
          /\ healing' = [at |-> "SAVE", asset |-> a, row |-> asset[a]]
          /\ UNCHANGED inbox
  /\ UNCHANGED <<asset, tokenized, proposal, chain, call, mutex, locks, history>>

HealPodAsset ==
  /\ healing # NoCall
  /\ SaveRow(healing.asset,
             [healing.row EXCEPT !.pod = Head(inbox).pod, !.status = "APPROVED"])
  /\ inbox' = Tail(inbox)
  /\ healing' = NoCall
  /\ UNCHANGED <<tokenized, proposal, chain, call, mutex, locks>>

\* The proposals missed once this event is lost.
Lost(e) ==
  IF e.type = "ProposalCreated" THEN missed \cup {<<e.pod, e.id>>} ELSE missed

\* What a handler throws is swallowed, by itself or the router, and the log is
\* recorded as processed: nothing stays of the event.
HandlerFails ==
  /\ inbox # <<>>
  /\ inbox' = Tail(inbox)
  /\ healing' = NoCall
  /\ missed' = Lost(Head(inbox))
  /\ UNCHANGED <<asset, tokenized, proposal, chain, call, mutex, locks, homes, crashes>>

HandleProposalCreated ==
  /\ healing = NoCall
  /\ inbox # <<>> /\ Head(inbox).type = "ProposalCreated"
  /\ LET p == Head(inbox).pod
         id == Head(inbox).id
     IN \/ /\ Holders(p) = {}
           /\ missed' = Lost(Head(inbox))
           /\ UNCHANGED proposal
        \/ \E a \in Holders(p) :
             /\ proposal' = IF RowsOf(a, id) # {} THEN proposal
                            ELSE proposal \cup {NewRow(a, id, "indexer")}
             /\ UNCHANGED missed
  /\ inbox' = Tail(inbox)
  /\ UNCHANGED <<asset, tokenized, chain, backend, homes, crashes>>

Indexer == FindPodAsset \/ HealPodAsset \/ HandleProposalCreated

-----------------------------------------------------------------------------
(* A restart ends the requests, the mutexes and the open transactions. The      *)
(* indexer goes on after the block of the last event it recorded, so the rest   *)
(* of that block may be skipped.                                                *)
Crash ==
  /\ crashes < MaxCrashes
  /\ crashes' = crashes + 1
  /\ call' = [c \in Calls |-> IF call[c] = NoCall THEN NoCall ELSE Done]
  /\ mutex' = [m \in DOMAIN mutex |-> None]
  /\ locks' = [a \in Assets |-> None]
  /\ healing' = NoCall
  /\ \/ UNCHANGED <<inbox, missed>>
     \/ /\ inbox # <<>>
        /\ inbox' = Tail(inbox)
        /\ missed' = Lost(Head(inbox))
  /\ UNCHANGED <<asset, tokenized, proposal, chain, homes>>

-----------------------------------------------------------------------------
Request(c) ==
  \E a \in Assets :
    \/ Approve(c, a)
    \/ \E s \in Statuses : SetStatus(c, a, s)
    \/ RequestTokenization(c, a)
    \/ \E n \in Prices : RequestPrice(c, a, n)
    \/ Govern(c, "propose", a, None)
    \/ \E id \in 1..Proposals : Govern(c, "execute", a, id)
    \/ Govern(c, "liquidate", a, None)

Step(c) ==
  \/ SaveAsset(c)
  \/ DeployAssetContract(c) \/ LinkToken(c) \/ ChainFails(c)
  \/ EnterTokenization(c) \/ WhitelistVault(c) \/ CommitToken(c) \/ MarkPending(c)
  \/ EnterPricing(c) \/ UpdatePrice(c) \/ SyncAssetPriceToOracle(c)
  \/ EnterOracle(c) \/ UpdatePriceBand(c) \/ RecordSync(c)
  \/ CreateProposal(c) \/ ExecuteProposal(c) \/ TriggerLiquidation(c)
  \/ RecordProposal(c) \/ RecordExecution(c) \/ RecordLiquidation(c) \/ LiquidateAsset(c)

Next ==
  \/ \E c \in Calls : Request(c) \/ Step(c)
  \/ \E a \in Assets, o \in Offers : CreateAsset(a, o[1], o[2])
  \/ \E p \in Pods : ProposeElsewhere(p)
  \/ Indexer \/ HandlerFails
  \/ Crash

Spec == Init /\ [][Next]_vars

\* The event loop runs what can run; the mutexes and row locks serve those who
\* wait in turn, and every request is one of finitely many.
FairSpec == Spec /\ (\A c \in Calls : WF_vars(Step(c))) /\ WF_vars(Indexer)

-----------------------------------------------------------------------------
(* Properties *)

Row == [status : {None, "SUBMITTED", "SYNC_PENDING", "LIQUIDATED", "APPROVED"} \cup Statuses,
        pod : Pods \cup {NoPod}, price : Nat]
Running(c) == call[c].at \notin {"NEW", "DONE"}

\* The rows, the contracts and the requests keep their shape, and whoever holds
\* a mutex or a lock is a request that still runs (runExclusive, transaction).
TypeInv ==
  /\ asset \in [Assets -> Row]
  /\ tokenized \subseteq Assets
  /\ \A r \in proposal :
       /\ r.asset \in Assets /\ r.id \in 1..Proposals /\ r.by \in {"service", "indexer"}
       /\ r.status \in {"PENDING", "EXECUTED", "LIQUIDATED"}
  /\ chain.whitelisted \subseteq Pods /\ chain.paused \subseteq Pods
  /\ \A p \in Pods : chain.count[p] \in 0..Proposals
  /\ \A m \in DOMAIN mutex : mutex[m] \in Calls \cup {None}
  /\ \A m \in DOMAIN mutex : mutex[m] # None => Running(mutex[m])
  /\ locks \in [Assets -> Calls \cup {None}]
  /\ \A a \in Assets : locks[a] # None => Running(locks[a])
  /\ healing # NoCall => inbox # <<>> /\ healing.asset \in Assets
  /\ homes \subseteq (Assets \X Pods)
  /\ crashes \in 0..MaxCrashes

\* The band in the oracle is around the price of an asset that has had the
\* token, whatever syncs and price updates overlap (syncAssetPriceToOracle).
BandIsThePrice ==
  \A p \in Pods : chain.band[p] # 0 =>
    \E a \in Assets : <<a, p>> \in homes /\ asset[a].price = chain.band[p]

\* A row says EXECUTED or LIQUIDATED only if the governance contract of a pod
\* its asset has had did just that, whichever requests, crashes and events
\* came between (executeProposal, triggerLiquidation).
StatusFollowsChain ==
  \A r \in proposal :
    /\ r.status = "EXECUTED" =>
         \E e \in chain.executed : e[2] = r.id /\ <<r.asset, e[1]>> \in homes
    /\ r.status = "LIQUIDATED" =>
         \E p \in chain.paused : <<r.asset, p>> \in homes

\* Each proposal of a contract has a row of an asset that has had the pod, or
\* an event to come, unless no row matched the event, its handler failed or a
\* restart skipped it: for the rest the handler makes up for requests that ended
\* before they saved theirs.
ProposalsRecorded ==
  \A p \in Pods : \A id \in 1..chain.count[p] :
    \/ <<p, id>> \in missed
    \/ \E i \in DOMAIN inbox :
         inbox[i] = [type |-> "ProposalCreated", pod |-> p, id |-> id]
    \/ \E r \in proposal : r.id = id /\ <<r.asset, p>> \in homes

\* A tokenized asset has had a pod that was deployed for it and whose treasury
\* is on the identity registry (the compliance guard of tokenizeAsset).
VaultsWhitelisted ==
  \A a \in tokenized :
    \E p \in chain.whitelisted : chain.owner[p] = {a} /\ <<a, p>> \in homes

\* The recording of a sync waits for a transaction of updateAssetPrice, which
\* itself waits for that recording, or for the oracle's mutex behind it.
Stuck ==
  \E c \in Calls : call[c].at \in {"SYNCED", "UNSYNCED"} /\ ~ RowFree(call[c].asset)

\* Every request ends, and the indexer handles every event, unless a price
\* update is stuck: it keeps the row, the oracle's mutex and its own.
CallsEnd ==
  /\ \A c \in Calls : Running(c) ~> (~ Running(c) \/ Stuck)
  /\ []<>(inbox = <<>> \/ Stuck)

\* updateAssetPrice comes to an end ("Asset price updated and synced to
\* blockchain", admin.controller).
PriceUpdatesEnd == \A c \in Calls : (Running(c) /\ call[c].op = "price") ~> ~ Running(c)

\* "Pick the oldest APPROVED asset that doesn't have a token address yet"
\* (handleAssetPodDeployed): the fallback leaves the assets with a pod alone.
FallbackTakesNoPod ==
  [][healing = NoCall /\ healing' # NoCall
       /\ healing'.asset \notin chain.owner[Head(inbox).pod]
       => asset[healing'.asset].pod = NoPod]_vars

================================================================================
