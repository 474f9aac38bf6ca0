----------------------------- MODULE SecondaryMarket -----------------------------
(* The secondary market of one asset: a seller prepares a listing, puts it on  *)
(* the chain and confirms it; a buyer makes an intent (paid on the chain by    *)
(* itself) or executes the listing (paid into an escrow); the server settles,  *)
(* verifies the buyer's transaction, or resolves a dispute.  Sources:          *)
(* secondary-market/, escrow/, dispute/, and what they call of wallet/ and     *)
(* ownership/.  One server process: its mutexes serialise what they guard.     *)
EXTENDS Integers, FiniteSets, Functions

CONSTANTS
  Investors,
  Listings,      \* bound: the listings ever prepared
  Trades,        \* bound: the trades ever made
  Disputes,      \* bound: the disputes ever opened
  Seller,        \* the investor that prepares each listing
  Size,          \* its units for sale
  Price,         \* the price of a unit
  Funds,         \* each investor's available balance at first
  Owned          \* and its units

ASSUME SecondaryMarketAssumption ==
  /\ Seller \in [Listings -> Investors]
  /\ Size \in [Listings -> Nat \ {0}]
  /\ Price \in Nat \ {0}
  /\ Funds \in [Investors -> Nat]
  /\ Owned \in [Investors -> Nat]
  /\ {"NONE", "ACTIVE", "CANCELLED"} \cap Trades = {}
  /\ IsFiniteSet(Trades)
  /\ IsFiniteSet(Disputes)

VARIABLES
  listing,    \* status of each listing's row
  trade,      \* the trades: status, listing, buyer, and what the bound hash is of
  escrow,     \* status of each trade's escrow
  dispute,    \* the disputes: trade, kind and status
  available,  \* availableBalance of each wallet
  locked,     \* lockedBalance
  units,      \* Ownership.units
  chain,      \* each listing on the chain; the trade that got its tokens
  purchase,   \* the transaction by which each trade's buyer pays on the chain
  desk,       \* who holds listingMutex, with what it has read
  settler,    \* who holds settlementMutex
  resolver,   \* who holds disputeMutex
  opening,    \* per dispute id: the trade a request has found undisputed
  txn,        \* per trade: the database transaction that settles it
  delivered,  \* ghost: how often each trade's units were moved to its buyer
  paid,       \* ghost: how often each trade's seller was credited
  refunded,   \* ghost: how often each trade's buyer was refunded
  foreign     \* ghost: the trades completed on a transaction that is not theirs

marketVars == <<listing, trade>>
walletVars == <<available, locked>>
disputeVars == <<dispute, opening, resolver>>
chainVars == <<chain, purchase>>
ghostVars == <<delivered, paid, refunded, foreign>>
vars == <<listing, trade, escrow, dispute, available, locked, units, chain, purchase,
          desk, settler, resolver, opening, txn, delivered, paid, refunded, foreign>>

None == "NONE"
Idle == [pc |-> "IDLE"]
NoTrade == [status |-> None]

\* What the hash of a trade is of: the buyer's own purchase, the server's release
\* to it, or any other transaction.
Hashes == {"OWN", "RELEASE", "OTHER"}

Exists(t) == trade[t].status # None

Buyer(t) == trade[t].buyer
SellerOf(t) == Seller[trade[t].listing]
Cost(l) == Size[l] * Price
Amount(t) == Cost(trade[t].listing)

-----------------------------------------------------------------------------
Init ==
  /\ listing = [l \in Listings |-> None]
  /\ trade = [t \in Trades |-> NoTrade]
  /\ escrow = [t \in Trades |-> None]
  /\ dispute = [d \in Disputes |-> [status |-> None]]
  /\ available = Funds
  /\ locked = [i \in Investors |-> 0]
  /\ units = Owned
  /\ chain = [l \in Listings |-> None]
  /\ purchase = [t \in Trades |-> None]
  /\ desk = Idle
  /\ settler = Idle
  /\ resolver = Idle
  /\ opening = [d \in Disputes |-> None]
  /\ txn = [t \in Trades |-> Idle]
  /\ delivered = [t \in Trades |-> 0]
  /\ paid = [t \in Trades |-> 0]
  /\ refunded = [t \in Trades |-> 0]
  /\ foreign = {}

-----------------------------------------------------------------------------
(* Listings *)

Sales(l) == {t \in Trades : Exists(t) /\ trade[t].listing = l}

OpenListings(s) == {l \in Listings : Seller[l] = s /\ listing[l] \in {"ACTIVE", "PENDING"}}

\* prepareListing reads the seller's units outside its transaction.
PrepareRead(l) ==
  /\ desk = Idle
  /\ listing[l] = None
  /\ desk' = [pc |-> "PREPARING", listing |-> l, owned |-> units[Seller[l]]]
  /\ UNCHANGED <<marketVars, escrow, disputeVars, walletVars, units, chainVars, settler, txn, ghostVars>>

\* It deletes the seller's PENDING listings that are older than ten minutes and
\* have no trade, and inserts the new one if the units are not listed already.
PrepareCommit(old) ==
  /\ desk.pc = "PREPARING"
  /\ \A l \in old : Seller[l] = Seller[desk.listing] /\ listing[l] = "PENDING" /\ Sales(l) = {}
  /\ LET l        == desk.listing
         reserved == SumFunctionOnSet(Size, OpenListings(Seller[l]) \ old)
     IN  listing' = IF Size[l] <= desk.owned - reserved
                    THEN [x \in Listings |-> IF x = l THEN "PENDING"
                                             ELSE IF x \in old THEN "DELETED" ELSE listing[x]]
                    ELSE listing
  /\ desk' = Idle
  /\ UNCHANGED <<trade, escrow, disputeVars, walletVars, units, chainVars, settler, txn, ghostVars>>

IsListingActive(l) == chain[l] = "ACTIVE"

\* confirmListing asks the chain and reads the row, whatever its status.
ConfirmRead(l) ==
  /\ desk = Idle
  /\ IsListingActive(l)
  /\ listing[l] \notin {None, "DELETED"}
  /\ desk' = [pc |-> "CONFIRMING", listing |-> l]
  /\ UNCHANGED <<marketVars, escrow, disputeVars, walletVars, units, chainVars, settler, txn, ghostVars>>

\* The save makes it ACTIVE, and inserts it again if it was deleted.
ConfirmSave ==
  /\ desk.pc = "CONFIRMING"
  /\ listing' = [listing EXCEPT ![desk.listing] = "ACTIVE"]
  /\ desk' = Idle
  /\ UNCHANGED <<trade, escrow, disputeVars, walletVars, units, chainVars, settler, txn, ghostVars>>

\* cancelListing deletes the row; the foreign key of a trade refuses it.
CancelListing(l) ==
  /\ listing[l] \notin {None, "DELETED"}
  /\ Sales(l) = {}
  /\ listing' = [listing EXCEPT ![l] = "DELETED"]
  /\ UNCHANGED <<trade, escrow, disputeVars, walletVars, units, chainVars, desk, settler, txn, ghostVars>>

-----------------------------------------------------------------------------
(* The chain: the seller's and the buyer's own transactions *)

ListOnChain(l) ==
  /\ listing[l] # None
  /\ chain[l] = None
  /\ chain' = [chain EXCEPT ![l] = "ACTIVE"]
  /\ UNCHANGED <<marketVars, escrow, disputeVars, walletVars, units, purchase, desk, settler, txn, ghostVars>>

CancelOnChain(l) ==
  /\ chain[l] = "ACTIVE"
  /\ chain' = [chain EXCEPT ![l] = "CANCELLED"]
  /\ UNCHANGED <<marketVars, escrow, disputeVars, walletVars, units, purchase, desk, settler, txn, ghostVars>>

SignPurchase(t) ==
  /\ Exists(t)
  /\ purchase[t] = None
  /\ purchase' = [purchase EXCEPT ![t] = "SENT"]
  /\ UNCHANGED <<marketVars, escrow, disputeVars, walletVars, units, chain, desk, settler, txn, ghostVars>>

\* The contract sells an active listing once.
MinePurchase(t) ==
  /\ purchase[t] = "SENT"
  /\ LET l == trade[t].listing
     IN  IF chain[l] = "ACTIVE"
         THEN chain' = [chain EXCEPT ![l] = t] /\ purchase' = [purchase EXCEPT ![t] = "OK"]
         ELSE purchase' = [purchase EXCEPT ![t] = "REVERTED"] /\ UNCHANGED chain
  /\ UNCHANGED <<marketVars, escrow, disputeVars, walletVars, units, desk, settler, txn, ghostVars>>

\* releaseOffChainEscrowTrade: the server's sale of an active listing.
Release(t) ==
  /\ chain[trade[t].listing] = "ACTIVE"
  /\ chain' = [chain EXCEPT ![trade[t].listing] = t]

-----------------------------------------------------------------------------
(* Trades *)

\* createTradeIntent: the buyer will pay on the chain.
CreateTradeIntent(t, l, b) ==
  /\ ~Exists(t)
  /\ listing[l] = "ACTIVE"
  /\ trade' = [trade EXCEPT ![t] = [status |-> "PENDING", listing |-> l, buyer |-> b, hash |-> None]]
  /\ listing' = [listing EXCEPT ![l] = "PENDING"]
  /\ UNCHANGED <<escrow, disputeVars, walletVars, units, chainVars, desk, settler, txn, ghostVars>>

\* Mistake: the balance is not looked at.
LockFundsUnchecked(b, amount) ==
  /\ available' = [available EXCEPT ![b] = @ - amount]
  /\ locked' = [locked EXCEPT ![b] = @ + amount]

LockFunds(b, amount) ==
  /\ available[b] >= amount
  /\ available' = [available EXCEPT ![b] = @ - amount]
  /\ locked' = [locked EXCEPT ![b] = @ + amount]

CreateEscrow(t, b, amount) ==
  /\ LockFunds(b, amount)
  /\ escrow' = [escrow EXCEPT ![t] = "LOCKED"]

\* executeTrade: the buyer pays into an escrow.
ExecuteTrade(t, l, b) ==
  /\ ~Exists(t)
  /\ listing[l] = "ACTIVE"
  /\ CreateEscrow(t, b, Cost(l))
  /\ trade' = [trade EXCEPT ![t] = [status |-> "LOCKED", listing |-> l, buyer |-> b, hash |-> None]]
  /\ listing' = [listing EXCEPT ![l] = "PENDING"]
  /\ UNCHANGED <<disputeVars, units, chainVars, desk, settler, txn, ghostVars>>

\* submitOnChainTransaction binds the hash its client sends: of the purchase it
\* has signed, or of whatever transaction, mined or not.  Neither its sender, its
\* contract, its listing nor another trade with the same hash is looked at; a
\* hash that is bound stays.  That the trade is not COMPLETED is read before its
\* lock is waited for, and so of any trade, each of which was open once.
SubmitOnChainTransaction(t, h) ==
  /\ Exists(t)
  /\ h = "OWN" => purchase[t] # None
  /\ trade[t].hash = None
  /\ txn[t] = Idle
  /\ trade' = [trade EXCEPT ![t].hash = h]
  /\ UNCHANGED <<listing, escrow, disputeVars, walletVars, units, chainVars, desk, settler, txn, ghostVars>>

\* Two settling transactions that pay wait for each other at the wallets' rows.
WalletsFree(t) ==
  \A u \in Trades : txn[u].pc \in {"SETTLE", "RESOLVE"} =>
    {Buyer(u), SellerOf(u)} \cap {Buyer(t), SellerOf(t)} = {}

\* removeUnits and addUnits read both ownership rows without a lock, and write
\* back what they have computed.
Open(t, kind) ==
  /\ txn[t] = Idle
  /\ units[SellerOf(t)] >= Size[trade[t].listing]
  /\ txn' = [txn EXCEPT ![t] = [pc |-> kind, seller |-> units[SellerOf(t)], buyer |-> units[Buyer(t)]]]

\* Mistake: the units are not taken from the seller.
MoveUnitsTwice(t) ==
  /\ units' = [units EXCEPT ![Buyer(t)] = txn[t].buyer + Size[trade[t].listing]]
  /\ delivered' = [delivered EXCEPT ![t] = @ + 1]

\* A buyer that is the seller reads its row after it has written it.
MoveUnits(t) ==
  /\ units' = [i \in Investors |->
       CASE i = SellerOf(t) /\ i = Buyer(t) -> txn[t].seller
         [] i = SellerOf(t) /\ i # Buyer(t) -> txn[t].seller - Size[trade[t].listing]
         [] i # SellerOf(t) /\ i = Buyer(t) -> txn[t].buyer + Size[trade[t].listing]
         [] OTHER -> units[i]]
  /\ delivered' = [delivered EXCEPT ![t] = @ + 1]

\* Mistake: a transaction that is sent counts as mined.
MinedIfSent(t) ==
  \/ trade[t].hash = "OWN" /\ purchase[t] \in {"SENT", "OK"}
  \/ trade[t].hash \in {"RELEASE", "OTHER"}

\* The receipt of the bound hash: a release was mined before it was written, and
\* any other transaction may have been mined.
Mined(t) ==
  \/ trade[t].hash = "OWN" /\ purchase[t] = "OK"
  \/ trade[t].hash \in {"RELEASE", "OTHER"}

\* Mistake: the status is not looked at again under the lock.
VerifyOpenAgain(t) ==
  /\ Exists(t)
  /\ Mined(t)
  /\ Open(t, "VERIFY")
  /\ UNCHANGED <<marketVars, escrow, disputeVars, walletVars, units, chainVars, desk, settler, ghostVars>>

\* verifyOnChainTrade: a receipt of the bound hash says that it succeeded, and
\* under the row's lock the trade is not COMPLETED.  (The hash is read without the
\* lock, but nothing that leaves the trade open changes it.)
VerifyOpen(t) ==
  /\ Exists(t)
  /\ Mined(t)
  /\ trade[t].status # "COMPLETED"
  /\ Open(t, "VERIFY")
  /\ UNCHANGED <<marketVars, escrow, disputeVars, walletVars, units, chainVars, desk, settler, ghostVars>>

\* A trade ends as COMPLETED, with the hash of the transaction it ended with.
TradeEnds(t, h) ==
  trade' = [trade EXCEPT ![t] = [@ EXCEPT !.status = "COMPLETED", !.hash = h]]

Complete(t, h) ==
  /\ TradeEnds(t, h)
  /\ listing' = [listing EXCEPT ![trade[t].listing] = "SOLD"]

\* The escrow of an executed trade is left as it is.
VerifyCommit(t) ==
  /\ txn[t].pc = "VERIFY"
  /\ MoveUnits(t)
  /\ Complete(t, trade[t].hash)
  /\ txn' = [txn EXCEPT ![t] = Idle]
  /\ foreign' = IF trade[t].hash = "OTHER" THEN foreign \cup {t} ELSE foreign
  /\ UNCHANGED <<escrow, disputeVars, walletVars, chainVars, desk, settler, paid, refunded>>

-----------------------------------------------------------------------------
(* Settlement *)

\* settleTrade, under settlementMutex: the status is read once.
SettleRead(t) ==
  /\ settler = Idle
  /\ trade[t].status \in {"LOCKED", "PENDING"}
  /\ settler' = [pc |-> "CHAIN", trade |-> t]
  /\ UNCHANGED <<marketVars, escrow, disputeVars, walletVars, units, chainVars, desk, txn, ghostVars>>

\* Mistake: a release that reverts is not noticed.
SettleReleaseAnyway ==
  /\ settler.pc = "CHAIN"
  /\ settler' = [settler EXCEPT !.pc = "PAY"]
  /\ Release(settler.trade) \/ UNCHANGED chain
  /\ UNCHANGED <<marketVars, escrow, disputeVars, walletVars, units, purchase, desk, txn, ghostVars>>

SettleRelease ==
  /\ settler.pc = "CHAIN"
  /\ settler' = [settler EXCEPT !.pc = "PAY"]
  /\ Release(settler.trade)
  /\ UNCHANGED <<marketVars, escrow, disputeVars, walletVars, units, purchase, desk, txn, ghostVars>>

\* The release reverts; or, after it, the escrow is not LOCKED any more, the
\* buyer's locked balance or the seller's units do not suffice, or the database
\* fails: nothing takes the release back.
SettleFails ==
  /\ settler # Idle
  /\ txn[settler.trade].pc # "SETTLE"
  /\ settler' = Idle
  /\ UNCHANGED <<marketVars, escrow, disputeVars, walletVars, units, chainVars, desk, txn, ghostVars>>

\* The transaction has the trade's lock, finds the escrow LOCKED or none, moves
\* the money and reads the units.
SettleOpen ==
  /\ settler.pc = "PAY"
  /\ LET t == settler.trade
     IN  /\ escrow[t] \in {"LOCKED", None}
         /\ escrow[t] = "LOCKED" => locked[Buyer(t)] >= Amount(t)
         /\ WalletsFree(t)
         /\ Open(t, "SETTLE")
  /\ UNCHANGED <<marketVars, escrow, disputeVars, walletVars, units, chainVars, desk, settler, ghostVars>>

\* Mistake: the buyer's locked balance is left as it is.
TransferLockedToAvailableTwice(t) ==
  /\ available' = [available EXCEPT ![SellerOf(t)] = @ + Amount(t)]
  /\ UNCHANGED locked

TransferLockedToAvailable(t) ==
  /\ available' = [available EXCEPT ![SellerOf(t)] = @ + Amount(t)]
  /\ locked' = [locked EXCEPT ![Buyer(t)] = @ - Amount(t)]

\* releaseEscrow or, for a trade without one, creditAvailable of the seller.
Pay(t) ==
  /\ IF escrow[t] = None
     THEN available' = [available EXCEPT ![SellerOf(t)] = @ + Amount(t)] /\ UNCHANGED <<locked, escrow>>
     ELSE TransferLockedToAvailable(t) /\ escrow' = [escrow EXCEPT ![t] = "RELEASED"]
  /\ paid' = [paid EXCEPT ![t] = @ + 1]

SettleCommit ==
  /\ settler.pc = "PAY"
  /\ LET t == settler.trade
     IN  /\ txn[t].pc = "SETTLE"
         /\ Pay(t)
         /\ MoveUnits(t)
         /\ Complete(t, "RELEASE")
         /\ txn' = [txn EXCEPT ![t] = Idle]
  /\ settler' = Idle
  /\ UNCHANGED <<disputeVars, chainVars, desk, refunded, foreign>>

-----------------------------------------------------------------------------
(* Disputes *)

\* createDispute looks for a dispute of the trade without a lock.
DisputeRead(d, t) ==
  /\ dispute[d].status = None
  /\ opening[d] = None
  /\ Exists(t)
  /\ \A e \in Disputes : dispute[e].status # None => dispute[e].trade # t
  /\ opening' = [opening EXCEPT ![d] = t]
  /\ UNCHANGED <<marketVars, escrow, dispute, resolver, walletVars, units, chainVars, desk, settler, txn, ghostVars>>

DisputeEscrow(t) == escrow[t] # None /\ escrow' = [escrow EXCEPT ![t] = "DISPUTED"]

\* A dispute about a trade takes the escrow and the trade to DISPUTED, whatever
\* their status; about anything else it only names the trade.
DisputeCommit(d, kind) ==
  /\ opening[d] # None
  /\ LET t == opening[d]
     IN  /\ txn[t] = Idle
         /\ dispute' = [dispute EXCEPT ![d] = [status |-> "OPEN", trade |-> t, kind |-> kind]]
         /\ IF kind = "TRADE"
            THEN /\ DisputeEscrow(t)
                 /\ trade' = [trade EXCEPT ![t].status = "DISPUTED"]
            ELSE UNCHANGED <<escrow, trade>>
  /\ opening' = [opening EXCEPT ![d] = None]
  /\ UNCHANGED <<listing, resolver, walletVars, units, chainVars, desk, settler, txn, ghostVars>>

\* A trade without an escrow (Financial link failed), or the database.
DisputeAbort(d) ==
  /\ opening[d] # None
  /\ opening' = [opening EXCEPT ![d] = None]
  /\ UNCHANGED <<marketVars, escrow, dispute, resolver, walletVars, units, chainVars, desk, settler, txn, ghostVars>>

Terminal == {"FAVOR_BUYER", "FAVOR_SELLER", "REJECTED"}

Resolvable(d) == resolver = Idle /\ dispute[d].status \notin Terminal \cup {None}

\* A dispute about something else moves no money; favouring a side completes
\* the trade all the same.
ResolveOther(d, outcome) ==
  /\ Resolvable(d)
  /\ dispute[d].kind = "OTHER"
  /\ LET t == dispute[d].trade
     IN  IF outcome \in {"FAVOR_BUYER", "FAVOR_SELLER"}
         THEN txn[t] = Idle /\ trade' = [trade EXCEPT ![t].status = "COMPLETED"]
         ELSE UNCHANGED trade
  /\ dispute' = [dispute EXCEPT ![d].status = outcome]
  /\ UNCHANGED <<listing, escrow, opening, resolver, walletVars, units, chainVars, desk, settler, txn, ghostVars>>

UnlockFunds(b, amount) ==
  /\ available' = [available EXCEPT ![b] = @ + amount]
  /\ locked' = [locked EXCEPT ![b] = @ - amount]

\* Neither the escrow's status nor the locked balance is looked at.
RefundEscrowByTradeId(t) ==
  /\ escrow' = [escrow EXCEPT ![t] = "REFUNDED"]
  /\ UnlockFunds(Buyer(t), Amount(t))
  /\ refunded' = [refunded EXCEPT ![t] = @ + 1]

ResolveForBuyer(d) ==
  /\ Resolvable(d)
  /\ dispute[d].kind = "TRADE"
  /\ LET t == dispute[d].trade
     IN  /\ txn[t] = Idle
         /\ WalletsFree(t)
         /\ RefundEscrowByTradeId(t)
         /\ trade' = [trade EXCEPT ![t].status = "COMPLETED"]
  /\ dispute' = [dispute EXCEPT ![d].status = "FAVOR_BUYER"]
  /\ UNCHANGED <<listing, opening, resolver, units, chainVars, desk, settler, txn, delivered, paid, foreign>>

FreezeEscrow(t) == escrow' = [escrow EXCEPT ![t] = "FROZEN"]

ResolveFrozen(d) ==
  /\ Resolvable(d)
  /\ dispute[d].kind = "TRADE"
  /\ FreezeEscrow(dispute[d].trade)
  /\ dispute' = [dispute EXCEPT ![d].status = "FROZEN"]
  /\ UNCHANGED <<marketVars, opening, resolver, walletVars, units, chainVars, desk, settler, txn, ghostVars>>

\* For the seller, the chain comes first.  No transaction on this trade can be in
\* progress that has seen its tokens go: the listing is active.
ResolveRelease(d) ==
  /\ Resolvable(d)
  /\ dispute[d].kind = "TRADE"
  /\ Release(dispute[d].trade)
  /\ resolver' = [pc |-> "PAY", dispute |-> d]
  /\ UNCHANGED <<marketVars, escrow, dispute, opening, walletVars, units, purchase, desk, settler, txn, ghostVars>>

ResolveOpen ==
  /\ resolver.pc = "PAY"
  /\ LET t == dispute[resolver.dispute].trade
     IN  /\ escrow[t] \in {"LOCKED", "DISPUTED"}
         /\ locked[Buyer(t)] >= Amount(t)
         /\ WalletsFree(t)
         /\ Open(t, "RESOLVE")
  /\ UNCHANGED <<marketVars, escrow, disputeVars, walletVars, units, chainVars, desk, settler, ghostVars>>

\* The listing keeps its status.
ResolveCommit ==
  /\ resolver.pc = "PAY"
  /\ LET t == dispute[resolver.dispute].trade
     IN  /\ txn[t].pc = "RESOLVE"
         /\ Pay(t)
         /\ MoveUnits(t)
         /\ TradeEnds(t, "RELEASE")
         /\ txn' = [txn EXCEPT ![t] = Idle]
  /\ dispute' = [dispute EXCEPT ![resolver.dispute].status = "FAVOR_SELLER"]
  /\ resolver' = Idle
  /\ UNCHANGED <<listing, opening, chainVars, desk, settler, refunded, foreign>>

\* A FROZEN escrow, too small a balance, or the database: only the chain has
\* changed.
ResolveFails ==
  /\ resolver # Idle
  /\ txn[dispute[resolver.dispute].trade].pc # "RESOLVE"
  /\ resolver' = Idle
  /\ UNCHANGED <<marketVars, escrow, dispute, opening, walletVars, units, chainVars, desk, settler, txn, ghostVars>>

-----------------------------------------------------------------------------
ListingStep ==
  \E l \in Listings :
    \/ PrepareRead(l)
    \/ ConfirmRead(l)
    \/ CancelListing(l)
    \/ ListOnChain(l)
    \/ CancelOnChain(l)

DeskStep == (\E old \in SUBSET Listings : PrepareCommit(old)) \/ ConfirmSave

BuyerStep ==
  \E t \in Trades :
    \/ \E l \in Listings, b \in Investors : CreateTradeIntent(t, l, b) \/ ExecuteTrade(t, l, b)
    \/ SignPurchase(t)
    \/ MinePurchase(t)
    \/ \E h \in {"OWN", "OTHER"} : SubmitOnChainTransaction(t, h)
    \/ VerifyOpen(t)
    \/ VerifyCommit(t)

SettleStep ==
  \/ \E t \in Trades : SettleRead(t)
  \/ SettleRelease
  \/ SettleOpen
  \/ SettleCommit
  \/ SettleFails

DisputeStep ==
  \E d \in Disputes :
    \/ \E t \in Trades : DisputeRead(d, t)
    \/ \E kind \in {"TRADE", "OTHER"} : DisputeCommit(d, kind)
    \/ DisputeAbort(d)
    \/ \E outcome \in Terminal \cup {"UNDER_REVIEW", "FROZEN"} : ResolveOther(d, outcome)
    \/ ResolveForBuyer(d)
    \/ ResolveFrozen(d)
    \/ ResolveRelease(d)

ResolveStep == ResolveOpen \/ ResolveCommit \/ ResolveFails

Next == ListingStep \/ DeskStep \/ BuyerStep \/ SettleStep \/ DisputeStep \/ ResolveStep

Spec == Init /\ [][Next]_vars

-----------------------------------------------------------------------------
(* Properties *)

\* Every variable has its type.  No available balance and no unit count is
\* ever negative (wallet.service.ts, debitAvailable; ownership.service.ts,
\* removeUnits), though locked balances may be.
TypeInv ==
  /\ listing \in [Listings -> {None, "PENDING", "ACTIVE", "SOLD", "DELETED"}]
  /\ \A t \in Trades : Exists(t) =>
       /\ trade[t].status \in {"PENDING", "LOCKED", "DISPUTED", "COMPLETED"}
       /\ trade[t].listing \in Listings
       /\ trade[t].buyer \in Investors
       /\ trade[t].hash \in Hashes \cup {None}
  /\ escrow \in [Trades -> {None, "LOCKED", "DISPUTED", "FROZEN", "RELEASED", "REFUNDED"}]
  /\ \A d \in Disputes : dispute[d].status # None => Exists(dispute[d].trade)
  /\ available \in [Investors -> Nat]
  /\ locked \in [Investors -> Int]
  /\ units \in [Investors -> Nat]
  /\ chain \in [Listings -> {None, "ACTIVE", "CANCELLED"} \cup Trades]
  /\ purchase \in [Trades -> {None, "SENT", "OK", "REVERTED"}]
  /\ desk.pc \in {"IDLE", "PREPARING", "CONFIRMING"}
  /\ settler.pc \in {"IDLE", "CHAIN", "PAY"}
  /\ resolver.pc \in {"IDLE", "PAY"}
  /\ opening \in [Disputes -> Trades \cup {None}]
  /\ \A t \in Trades : txn[t].pc \in {"IDLE", "SETTLE", "VERIFY", "RESOLVE"}
  /\ delivered \in [Trades -> Nat]
  /\ paid \in [Trades -> Nat]
  /\ refunded \in [Trades -> Nat]
  /\ foreign \subseteq Trades

\* Units move to a buyer only if the tokens went to it on the chain, so that of
\* all the trades of a listing one is delivered, whoever settles, verifies and
\* resolves them at the same time: every path but one, the verification of a
\* transaction that is not the trade's, whose receipt is all that is looked at
\* (trade.service.ts, verifyOnChainTrade and settleTrade; dispute.service.ts,
\* handleFinancialResolution).
DeliveredHasTokens ==
  \A t \in Trades : delivered[t] > 0 => chain[trade[t].listing] = t \/ t \in foreign

DisputesOf(t) ==
  {d \in Disputes : dispute[d].status # None /\ dispute[d].trade = t /\ dispute[d].kind = "TRADE"}

\* A trade is delivered once, and once more for each dispute about it at most,
\* which opens it again however it has ended: the row's lock and the status read
\* under it keep submit-tx, db-status, settle and resolve apart.  Only a trade
\* verified on a transaction that is not its own may be settled besides, once.
DeliveredOnce ==
  \A t \in Trades :
    delivered[t] <= 1 + Cardinality(DisputesOf(t)) + (IF t \in foreign THEN 1 ELSE 0)

\* A seller is paid in its wallet only for units it has given up, as often as it
\* has given them up, and never for what the buyer paid on the chain.
PaidMeansDelivered ==
  \A t \in Trades : paid[t] <= delivered[t] /\ (paid[t] > 0 => purchase[t] # "OK")

Paid(i) == SumFunction([t \in Trades |-> IF paid[t] > 0 /\ SellerOf(t) = i THEN Amount(t) ELSE 0])
Spent(i) == SumFunction([t \in Trades |-> IF paid[t] > 0 /\ escrow[t] # None /\ Buyer(t) = i
                                          THEN Amount(t) ELSE 0])

\* Each investor's money, available and locked, is what it had, with what it
\* was paid and without what its escrows paid: locks, refunds, freezes and
\* releases in any order lose and make nothing (wallet.service.ts, lockFunds,
\* unlockFunds, transferLockedToAvailable).
MoneyFollowsTrades ==
  \A i \in Investors : available[i] + locked[i] = Funds[i] + Paid(i) - Spent(i)

Moved(t) == delivered[t] * Size[trade[t].listing]
Bought(i) == SumFunction([t \in Trades |-> IF delivered[t] > 0 /\ Buyer(t) = i THEN Moved(t) ELSE 0])
Sold(i) == SumFunction([t \in Trades |-> IF delivered[t] > 0 /\ SellerOf(t) = i THEN Moved(t) ELSE 0])

\* Each investor's units are what it had, with what it bought and without what
\* it sold: no unlocked read of an ownership row loses an update
\* (ownership.service.ts, removeUnits and addUnits).
UnitsFollowDeliveries ==
  \A i \in Investors : units[i] = Owned[i] + Bought(i) - Sold(i)

\* The investors' books are what the trades have left of them: their money
\* whatever hashes are submitted; their units while one listing is traded, as the
\* tokens of a listing let one of its trades be delivered at a time, until a
\* trade is completed on a transaction that is not its own.
BooksFollowTrades == MoneyFollowsTrades /\ (foreign = {} => UnitsFollowDeliveries)

\* Units move to a buyer only with the tokens, whatever hash is submitted.
UnitsHaveTokens == \A t \in Trades : delivered[t] > 0 => chain[trade[t].listing] = t

\* Without a dispute units move to a buyer once, whatever hash is submitted.
UndisputedOnce ==
  \A t \in Trades : delivered[t] > 1 => DisputesOf(t) # {}

\* Units move to a buyer once, disputed or not.
DeliveredAtMostOnce == \A t \in Trades : delivered[t] <= 1

\* Nobody has both: a trade is refunded, or its seller is paid.
RefundedOrPaid == \A t \in Trades : refunded[t] + paid[t] <= 1

\* A refunded buyer does not keep the tokens that were released to it.
RefundedHasNoTokens == \A t \in Trades : refunded[t] > 0 => chain[trade[t].listing] # t

\* A seller is paid what its buyer has locked.
PaidIsFunded == \A t \in Trades : paid[t] > 0 => escrow[t] # None

\* What a seller has listed it owns (listing.service.ts:173).
ListedIsOwned ==
  \A s \in Investors : SumFunctionOnSet(Size, OpenListings(s)) <= units[s]
=============================================================================
