------------------------- MODULE SecondaryMarketProofs -------------------------
(* Theorems about SecondaryMarket, for any investors, listings and hashes, and *)
(* any finite sets of trades and disputes: units move only to the buyer that   *)
(* has the tokens, so that one trade of a listing is delivered, once and once  *)
(* more for each dispute at most, unless it is completed on a transaction that *)
(* is not its own; its seller is not paid twice; and the wallets of all        *)
(* investors, and the units of the trades of one listing, are what the trades  *)
(* make of what there was.                                                     *)
EXTENDS SecondaryMarket, SumTheorems, TLAPS

USE SecondaryMarketAssumption

TradeRow ==
  [status : {"PENDING", "LOCKED", "DISPUTED", "COMPLETED"},
   listing : Listings, buyer : Investors, hash : Hashes \cup {None}]

NoDispute == [status |-> None]
DisputeRow ==
  [status : Terminal \cup {"OPEN", "UNDER_REVIEW", "FROZEN"},
   trade : Trades, kind : {"TRADE", "OTHER"}]

\* The tables.
Tables ==
  /\ trade \in [Trades -> TradeRow \cup {NoTrade}]
  /\ chain \in [Listings -> {None, "ACTIVE", "CANCELLED"} \cup Trades]
  /\ purchase \in [Trades -> {None, "SENT", "OK", "REVERTED"}]
  /\ dispute \in [Disputes -> DisputeRow \cup {NoDispute}]
  /\ opening \in [Disputes -> Trades \cup {None}]
  /\ settler \in {Idle} \cup [pc : {"CHAIN", "PAY"}, trade : Trades]
  /\ resolver \in {Idle} \cup [pc : {"PAY"}, dispute : Disputes]
  /\ txn = [t \in Trades |-> txn[t]]

\* Who refers to a trade or to a dispute refers to one that exists.
References ==
  /\ \A d \in Disputes :
       /\ dispute[d].status # None => dispute[d].trade \in Trades /\ Exists(dispute[d].trade)
       /\ opening[d] # None =>
            opening[d] \in Trades /\ Exists(opening[d]) /\ dispute[d].status = None
  /\ settler # Idle => settler.trade \in Trades /\ Exists(settler.trade)
  /\ resolver # Idle => resolver.dispute \in Disputes /\ dispute[resolver.dispute].status # None
  /\ \A t \in Trades : ~Exists(t) => purchase[t] = None /\ txn[t] = Idle

Book == Tables /\ References

LEMMA BookInit == Init => Book
  BY DEF Init, Book, Tables, References, Exists, Idle, NoTrade, NoDispute, None

\* A trade keeps its listing and its buyer.
TradesKept ==
  /\ trade' \in [Trades -> TradeRow \cup {NoTrade}]
  /\ \A t \in Trades : Exists(t) =>
       Exists(t)' /\ trade'[t].listing = trade[t].listing /\ trade'[t].buyer = trade[t].buyer

LEMMA RowKeepsTrades ==
  ASSUME Book, NEW t \in Trades, Exists(t), NEW new \in TradeRow,
         new.listing = trade[t].listing, new.buyer = trade[t].buyer,
         trade' = [trade EXCEPT ![t] = new]
  PROVE  TradesKept
<1>1. /\ trade'[t] = new
      /\ \A u \in Trades : u # t => trade'[u] = trade[u]
      /\ trade' \in [Trades -> TradeRow \cup {NoTrade}]
  BY DEF Book, Tables
<1>2. new.status # None
  BY DEF TradeRow, None
<1> QED BY <1>1, <1>2 DEF TradesKept, Exists

LEMMA StatusKeepsTrades ==
  ASSUME Book, NEW t \in Trades, Exists(t),
         NEW status \in {"PENDING", "LOCKED", "DISPUTED", "COMPLETED"},
         trade' = [trade EXCEPT ![t].status = status]
  PROVE  TradesKept
<1>1. trade[t] \in TradeRow
  BY DEF Book, Tables, Exists, NoTrade, None
<1> DEFINE new == [trade[t] EXCEPT !.status = status]
<1>2. new \in TradeRow /\ new.listing = trade[t].listing /\ new.buyer = trade[t].buyer
  BY <1>1 DEF TradeRow
<1>3. trade' = [trade EXCEPT ![t] = new]
  OBVIOUS
<1> HIDE DEF new
<1> QED BY <1>2, <1>3, RowKeepsTrades

\* The row that a trade ends with.
LEMMA EndedRow ==
  ASSUME Book, NEW t \in Trades, Exists(t), NEW h \in Hashes \cup {None}, TradeEnds(t, h)
  PROVE  /\ trade'[t] \in TradeRow
         /\ trade'[t].status = "COMPLETED" /\ trade'[t].hash = h
         /\ trade'[t].listing = trade[t].listing /\ trade'[t].buyer = trade[t].buyer
         /\ trade' = [trade EXCEPT ![t] = trade'[t]]
         /\ \A u \in Trades : u # t => trade'[u] = trade[u]
<1>1. trade[t] \in TradeRow
  BY DEF Book, Tables, Exists, NoTrade, None
<1> DEFINE new == [trade[t] EXCEPT !.status = "COMPLETED", !.hash = h]
<1>2. /\ new \in TradeRow /\ new.status = "COMPLETED" /\ new.hash = h
      /\ new.listing = trade[t].listing /\ new.buyer = trade[t].buyer
  BY <1>1 DEF TradeRow
<1>3. trade' = [trade EXCEPT ![t] = new]
  BY DEF TradeEnds
<1> HIDE DEF new
<1> QED BY <1>2, <1>3 DEF Book, Tables

LEMMA EndKeepsTrades ==
  ASSUME Book, NEW t \in Trades, Exists(t), NEW h \in Hashes \cup {None}, TradeEnds(t, h)
  PROVE  TradesKept
<1>1. /\ trade'[t] \in TradeRow
      /\ trade'[t].listing = trade[t].listing /\ trade'[t].buyer = trade[t].buyer
      /\ trade' = [trade EXCEPT ![t] = trade'[t]]
  BY EndedRow
<1> PICK new \in TradeRow : new = trade'[t]
  BY <1>1
<1> QED BY <1>1, RowKeepsTrades

\* A dispute keeps its trade and its kind.
LEMMA StatusKeepsDisputes ==
  ASSUME Book, NEW d \in Disputes, dispute[d].status # None,
         NEW status \in Terminal \cup {"OPEN", "UNDER_REVIEW", "FROZEN"},
         dispute' = [dispute EXCEPT ![d].status = status]
  PROVE  /\ dispute' \in [Disputes -> DisputeRow \cup {NoDispute}]
         /\ \A e \in Disputes : e # d => dispute'[e] = dispute[e]
         /\ dispute'[d].status = status
         /\ dispute'[d].trade = dispute[d].trade /\ dispute'[d].kind = dispute[d].kind
         /\ dispute[d].trade \in Trades /\ status # None
<1>1. dispute[d] \in DisputeRow
  BY DEF Book, Tables, References, NoDispute
<1> DEFINE new == [dispute[d] EXCEPT !.status = status]
<1>2. /\ new \in DisputeRow
      /\ new.trade = dispute[d].trade /\ new.kind = dispute[d].kind /\ new.status = status
  BY <1>1 DEF DisputeRow
<1>3. dispute[d].trade \in Trades /\ status # None
  BY <1>1 DEF DisputeRow, Terminal, None
<1>4. dispute' = [e \in Disputes |-> IF e = d THEN new ELSE dispute[e]]
  BY DEF Book, Tables, References
<1> HIDE DEF new
<1> QED BY <1>2, <1>3, <1>4 DEF Book, Tables, References

LEMMA TradesStep == Book /\ [Next]_vars => TradesKept
<1> SUFFICES ASSUME Book, [Next]_vars PROVE TradesKept
  OBVIOUS
<1>1. CASE UNCHANGED trade
  BY <1>1 DEF Book, Tables, References, TradesKept, Exists
<1>2. ASSUME NEW t \in Trades, NEW l \in Listings, NEW b \in Investors,
             CreateTradeIntent(t, l, b) \/ ExecuteTrade(t, l, b)
      PROVE  TradesKept
  <2> PICK status \in {"PENDING", "LOCKED"} :
         trade' = [trade EXCEPT ![t] = [status |-> status, listing |-> l, buyer |-> b, hash |-> None]]
    BY <1>2 DEF CreateTradeIntent, ExecuteTrade
  <2>1. [status |-> status, listing |-> l, buyer |-> b, hash |-> None] \in TradeRow
    BY DEF TradeRow, Hashes
  <2>2. ~Exists(t)
    BY <1>2 DEF CreateTradeIntent, ExecuteTrade
  <2> QED BY <2>1, <2>2 DEF Book, Tables, References, TradesKept, Exists
<1>3. ASSUME NEW t \in Trades, NEW h \in {"OWN", "OTHER"}, SubmitOnChainTransaction(t, h)
      PROVE  TradesKept
  <2>1. Exists(t)
    BY <1>3 DEF SubmitOnChainTransaction
  <2>2. trade[t] \in TradeRow
    BY <2>1 DEF Book, Tables, Exists, NoTrade, None
  <2> DEFINE new == [trade[t] EXCEPT !.hash = h]
  <2>3. new \in TradeRow /\ new.listing = trade[t].listing /\ new.buyer = trade[t].buyer
    BY <2>2 DEF TradeRow, Hashes
  <2>4. trade' = [trade EXCEPT ![t] = new]
    BY <1>3 DEF SubmitOnChainTransaction
  <2> HIDE DEF new
  <2> QED BY <2>1, <2>3, <2>4, RowKeepsTrades
<1>8. ASSUME NEW t \in Trades, VerifyCommit(t)
      PROVE  TradesKept
  <2>1. Exists(t)
    BY <1>8 DEF Book, References, VerifyCommit, Idle
  <2>2. trade[t].hash \in Hashes \cup {None}
    BY <2>1 DEF Book, Tables, Exists, NoTrade, None, TradeRow
  <2> QED BY <1>8, <2>1, <2>2, EndKeepsTrades DEF VerifyCommit, Complete
<1>9. CASE SettleCommit
  <2>1. settler.trade \in Trades /\ Exists(settler.trade)
    BY <1>9 DEF Book, References, SettleCommit, Idle
  <2> QED BY <1>9, <2>1, EndKeepsTrades DEF SettleCommit, Complete, Hashes
<1>5. ASSUME NEW d \in Disputes, NEW kind \in {"TRADE", "OTHER"}, DisputeCommit(d, kind)
      PROVE  TradesKept
  BY <1>1, <1>5, StatusKeepsTrades DEF Book, Tables, References, DisputeCommit
<1>6. ASSUME NEW d \in Disputes,
             \/ ResolveForBuyer(d)
             \/ \E outcome \in Terminal \cup {"UNDER_REVIEW", "FROZEN"} : ResolveOther(d, outcome)
      PROVE  TradesKept
  <2>1. dispute[d].trade \in Trades /\ Exists(dispute[d].trade)
    BY <1>6 DEF Book, Tables, References, ResolveForBuyer, ResolveOther, Resolvable, DisputeRow, NoDispute
  <2> QED BY <1>1, <1>6, <2>1, StatusKeepsTrades DEF ResolveForBuyer, ResolveOther
<1>7. CASE ResolveCommit
  <2> DEFINE t == dispute[resolver.dispute].trade
  <2>1. t \in Trades /\ Exists(t)
    BY <1>7 DEF Book, Tables, References, ResolveCommit, Idle, DisputeRow, NoDispute
  <2>2. TradeEnds(t, "RELEASE")
    BY <1>7 DEF ResolveCommit
  <2> HIDE DEF t
  <2> QED BY <2>1, <2>2, EndKeepsTrades DEF Hashes
<1> QED
  BY <1>1, <1>2, <1>3, <1>5, <1>6, <1>7, <1>8, <1>9 DEF Next, ListingStep, DeskStep, BuyerStep,
     SettleStep, DisputeStep, ResolveStep, PrepareRead, PrepareCommit, ConfirmRead, ConfirmSave,
     CancelListing, ListOnChain, CancelOnChain, SignPurchase, MinePurchase, VerifyOpen, SettleRead,
     SettleRelease, SettleOpen, SettleFails, DisputeRead, DisputeAbort, ResolveFrozen,
     ResolveRelease, ResolveOpen, ResolveFails, marketVars, vars

LEMMA BookStep == Book /\ [Next]_vars => Book'
<1> SUFFICES ASSUME Book, [Next]_vars PROVE Book'
  OBVIOUS
<1> TradesKept
  BY TradesStep
<1> USE DEF Exists, TradesKept
<1>1. CASE UNCHANGED <<trade, dispute, opening, resolver, settler, chain, purchase, txn>>
  BY <1>1 DEF Book, Tables, References
<1>2. ASSUME NEW l \in Listings, ListOnChain(l) \/ CancelOnChain(l)
      PROVE  Book'
  BY <1>2 DEF Book, Tables, References, ListOnChain, CancelOnChain, marketVars, disputeVars
<1>3. ASSUME NEW t \in Trades, SignPurchase(t) \/ MinePurchase(t)
      PROVE  Book'
  BY <1>3 DEF Book, Tables, References, SignPurchase, MinePurchase, marketVars, disputeVars, None
<1>4. ASSUME NEW t \in Trades, NEW l \in Listings, NEW b \in Investors,
             CreateTradeIntent(t, l, b) \/ ExecuteTrade(t, l, b)
      PROVE  Book'
  <2>1. UNCHANGED <<dispute, opening, resolver, settler, chain, purchase, txn>>
    BY <1>4 DEF CreateTradeIntent, ExecuteTrade, disputeVars, chainVars
  <2> QED BY <2>1 DEF Book, Tables, References
<1>5. ASSUME NEW t \in Trades, NEW h \in {"OWN", "OTHER"}, SubmitOnChainTransaction(t, h)
      PROVE  Book'
  BY <1>5 DEF Book, Tables, References, SubmitOnChainTransaction, disputeVars, chainVars
<1>6. ASSUME NEW t \in Trades, VerifyOpen(t)
      PROVE  Book'
  BY <1>6 DEF Book, Tables, References, VerifyOpen, Open, marketVars, disputeVars, chainVars
<1>7. ASSUME NEW t \in Trades, VerifyCommit(t)
      PROVE  Book'
  <2>1. UNCHANGED <<dispute, opening, resolver, settler, chain, purchase>>
    BY <1>7 DEF VerifyCommit, disputeVars, chainVars
  <2>2. txn' = [txn EXCEPT ![t] = Idle]
    BY <1>7 DEF VerifyCommit
  <2>3. txn' = [u \in Trades |-> txn'[u]] /\ \A u \in Trades : txn[u] = Idle => txn'[u] = Idle
    BY <2>2 DEF Book, Tables, References
  <2> QED BY <2>1, <2>3 DEF Book, Tables, References
<1>8. ASSUME NEW t \in Trades, SettleRead(t)
      PROVE  Book'
  BY <1>8 DEF Book, Tables, References, SettleRead, marketVars, disputeVars, chainVars, None, Idle
<1>9. CASE SettleRelease
  BY <1>9 DEF Book, Tables, References, SettleRelease, Release, marketVars, disputeVars, None, Idle, TradeRow, NoTrade
<1>10. CASE SettleOpen
  BY <1>10 DEF Book, Tables, References, SettleOpen, Open, marketVars, disputeVars, chainVars, Idle
<1>11. CASE SettleFails
  BY <1>11 DEF Book, Tables, References, SettleFails, marketVars, disputeVars, chainVars
<1>12. CASE SettleCommit
  BY <1>12 DEF Book, Tables, References, SettleCommit, Complete, disputeVars, chainVars, None, Idle
<1>13. ASSUME NEW d \in Disputes, NEW t \in Trades, DisputeRead(d, t)
       PROVE  Book'
  BY <1>13 DEF Book, Tables, References, DisputeRead, marketVars, chainVars, None
<1>14. ASSUME NEW d \in Disputes, NEW kind \in {"TRADE", "OTHER"}, DisputeCommit(d, kind)
       PROVE  Book'
  <2>1. [status |-> "OPEN", trade |-> opening[d], kind |-> kind] \in DisputeRow
    BY <1>14 DEF Book, Tables, References, DisputeCommit, DisputeRow
  <2>2. /\ opening[d] \in Trades /\ Exists(opening[d]) /\ dispute[d].status = None
        /\ opening' = [opening EXCEPT ![d] = None]
        /\ UNCHANGED <<chain, purchase, settler, resolver, txn>>
    BY <1>14 DEF Book, Tables, References, DisputeCommit, chainVars
  <2> DEFINE new == [status |-> "OPEN", trade |-> opening[d], kind |-> kind]
  <2>3. dispute' = [dispute EXCEPT ![d] = new]
    BY <1>14 DEF DisputeCommit
  <2>4. new.status # None /\ new.trade = opening[d] /\ new \in DisputeRow
    BY <2>1 DEF None
  <2> HIDE DEF new
  <2> QED BY <2>2, <2>3, <2>4 DEF Book, Tables, References
<1>15. ASSUME NEW d \in Disputes, DisputeAbort(d)
       PROVE  Book'
  BY <1>15 DEF Book, Tables, References, DisputeAbort, marketVars, chainVars
<1>16. ASSUME NEW d \in Disputes, NEW outcome \in Terminal \cup {"UNDER_REVIEW", "FROZEN"},
              Resolvable(d), dispute' = [dispute EXCEPT ![d].status = outcome],
              UNCHANGED <<chain, purchase, opening, settler, resolver, txn>>
       PROVE  Book'
  <2>1. dispute[d].status # None
    BY <1>16 DEF Resolvable
  <2>2. /\ dispute' \in [Disputes -> DisputeRow \cup {NoDispute}]
        /\ \A e \in Disputes : e # d => dispute'[e] = dispute[e]
        /\ dispute'[d].status # None /\ dispute'[d].trade = dispute[d].trade
    BY <1>16, <2>1, StatusKeepsDisputes
  <2>3. UNCHANGED <<chain, purchase, opening, settler, resolver, txn>>
    BY <1>16
  <2>4. References'
    BY <2>1, <2>2, <2>3 DEF Book, References
  <2> QED BY <2>2, <2>3, <2>4 DEF Book, Tables
<1>17. ASSUME NEW d \in Disputes,
              \/ ResolveForBuyer(d)
              \/ ResolveFrozen(d)
              \/ \E outcome \in Terminal \cup {"UNDER_REVIEW", "FROZEN"} : ResolveOther(d, outcome)
       PROVE  Book'
  BY <1>16, <1>17 DEF ResolveForBuyer, ResolveFrozen, ResolveOther, Terminal, marketVars, chainVars
<1>18. ASSUME NEW d \in Disputes, ResolveRelease(d)
       PROVE  Book'
  BY <1>18 DEF Book, Tables, References, ResolveRelease, Resolvable, Release, marketVars, TradeRow, NoTrade, DisputeRow,
     NoDispute, None
<1>19. CASE ResolveOpen
  <2> DEFINE u == dispute[resolver.dispute].trade
  <2>1. /\ UNCHANGED <<trade, dispute, opening, resolver, settler, chain, purchase>>
        /\ \E new : txn' = [txn EXCEPT ![u] = new]
    BY <1>19 DEF ResolveOpen, Open, marketVars, disputeVars, chainVars
  <2>2. Exists(u)
    BY <1>19 DEF Book, Tables, References, ResolveOpen, Idle
  <2> HIDE DEF u
  <2>3. /\ txn' = [t \in Trades |-> txn'[t]]
        /\ \A t \in Trades : ~Exists(t) => txn'[t] = txn[t]
    BY <2>1, <2>2 DEF Book, Tables, References
  <2> QED BY <2>1, <2>3 DEF Book, Tables, References
<1>20. CASE ResolveFails
  BY <1>20 DEF Book, Tables, References, ResolveFails, marketVars, chainVars
<1>21. CASE ResolveCommit
  <2> DEFINE d == resolver.dispute
  <2>0. d \in Disputes /\ dispute[d].status # None
    BY <1>21 DEF Book, References, ResolveCommit, Idle
  <2>1. /\ d \in Disputes /\ dispute[d].status # None /\ resolver' = Idle
        /\ dispute' = [dispute EXCEPT ![d].status = "FAVOR_SELLER"]
        /\ txn' = [txn EXCEPT ![dispute[d].trade] = Idle]
        /\ UNCHANGED <<chain, purchase, opening, settler>>
    BY <1>21, <2>0 DEF ResolveCommit, chainVars
  <2> HIDE DEF d
  <2>2. /\ dispute' \in [Disputes -> DisputeRow \cup {NoDispute}]
        /\ \A e \in Disputes : e # d => dispute'[e] = dispute[e]
        /\ dispute'[d].status # None /\ dispute'[d].trade = dispute[d].trade
    BY <2>1, StatusKeepsDisputes DEF Terminal
  <2>3. /\ txn' = [u \in Trades |-> txn'[u]]
        /\ \A u \in Trades : txn[u] = Idle => txn'[u] = Idle
    BY <2>1 DEF Book, Tables
  <2>4. References'
    BY <2>1, <2>2, <2>3 DEF Book, References
  <2> QED BY <2>1, <2>2, <2>3, <2>4 DEF Book, Tables
<1>22. CASE ListingStep
  BY <1>1, <1>2, <1>22 DEF ListingStep, PrepareRead, ConfirmRead, CancelListing, marketVars,
     disputeVars, chainVars
<1>23. CASE DeskStep
  BY <1>1, <1>23 DEF DeskStep, PrepareCommit, ConfirmSave, disputeVars, chainVars
<1> QED
  BY <1>1, <1>3, <1>4, <1>5, <1>6, <1>7, <1>8, <1>9, <1>10, <1>11, <1>12, <1>13, <1>14, <1>15,
     <1>17, <1>18, <1>19, <1>20, <1>21, <1>22, <1>23 DEF Next, BuyerStep, SettleStep,
     DisputeStep, ResolveStep, vars

-----------------------------------------------------------------------------
HasTokens(t) == Exists(t) /\ chain[trade[t].listing] = t

\* A write of a listing's state on the chain, which is not sold yet.
Unsold(l, to) == chain[l] \in {None, "ACTIVE"} /\ chain' = [chain EXCEPT ![l] = to]

\* The tokens of a listing go to one trade and stay there.
LEMMA TokensStep == Book /\ [Next]_vars => \A t \in Trades : HasTokens(t) => HasTokens(t)'
<1> SUFFICES ASSUME Book, [Next]_vars, NEW t \in Trades, HasTokens(t) PROVE HasTokens(t)'
  OBVIOUS
<1> USE TradesStep DEF HasTokens, TradesKept
<1>0. trade[t].listing \in Listings
  BY DEF Book, Tables, References, Exists, TradeRow, NoTrade
<1>1. CASE UNCHANGED chain
  BY <1>1
<1>2. ASSUME NEW l, NEW to, Unsold(l, to)
      PROVE  HasTokens(t)'
  <2>1. l # trade[t].listing
    BY <1>0, <1>2 DEF None, Unsold
  <2>2. chain'[trade[t].listing] = chain[trade[t].listing]
    BY <1>0, <1>2, <2>1 DEF Book, Tables, Unsold
  <2> QED BY <2>2
<1>3. ASSUME NEW l \in Listings, ListOnChain(l) \/ CancelOnChain(l)
      PROVE  HasTokens(t)'
  <2>1. Unsold(l, "ACTIVE") \/ Unsold(l, "CANCELLED")
    BY <1>3 DEF ListOnChain, CancelOnChain, Unsold
  <2> QED BY <1>2, <2>1
<1>4. ASSUME NEW u \in Trades, MinePurchase(u)
      PROVE  HasTokens(t)'
  <2> DEFINE l == trade[u].listing
  <2>1. \/ UNCHANGED chain
        \/ Unsold(l, u)
    BY <1>4 DEF MinePurchase, Unsold
  <2> HIDE DEF l
  <2> QED BY <1>1, <1>2, <2>1
<1>5. ASSUME NEW u, Release(u)
      PROVE  HasTokens(t)'
  <2>1. Unsold(trade[u].listing, u)
    BY <1>5 DEF Release, Unsold
  <2> QED BY <1>2, <2>1
<1> QED
  BY <1>1, <1>3, <1>4, <1>5 DEF Next, ListingStep, DeskStep, BuyerStep, SettleStep, DisputeStep,
     ResolveStep, PrepareRead, PrepareCommit, ConfirmRead, ConfirmSave, CancelListing,
     CreateTradeIntent, ExecuteTrade, SignPurchase, SubmitOnChainTransaction, VerifyOpen,
     VerifyCommit, SettleRead, SettleRelease, SettleOpen, SettleFails, SettleCommit, DisputeRead,
     DisputeCommit, DisputeAbort, ResolveOther, ResolveForBuyer, ResolveFrozen, ResolveRelease,
     ResolveOpen, ResolveFails, ResolveCommit, chainVars, vars

\* A dispute that was made stays, and keeps its trade and its kind.
SameDispute(d) ==
  /\ dispute'[d].status # None
  /\ dispute'[d].trade = dispute[d].trade /\ dispute'[d].kind = dispute[d].kind

LEMMA DisputesStep ==
  Book /\ [Next]_vars =>
    \A d \in Disputes : dispute[d].status # None => SameDispute(d)
<1> SUFFICES ASSUME Book, [Next]_vars, NEW d \in Disputes, dispute[d].status # None
             PROVE  SameDispute(d)
  OBVIOUS
<1>1. CASE UNCHANGED dispute
  BY <1>1 DEF SameDispute
<1>2. ASSUME NEW e \in Disputes, NEW status \in Terminal \cup {"OPEN", "UNDER_REVIEW", "FROZEN"},
             dispute[e].status # None, dispute' = [dispute EXCEPT ![e].status = status]
      PROVE  SameDispute(d)
  <2>1. /\ \A f \in Disputes : f # e => dispute'[f] = dispute[f]
        /\ dispute'[e].status # None
        /\ dispute'[e].trade = dispute[e].trade /\ dispute'[e].kind = dispute[e].kind
    BY <1>2, StatusKeepsDisputes
  <2> QED BY <2>1 DEF SameDispute
<1>3. ASSUME NEW e \in Disputes,
             \/ ResolveForBuyer(e)
             \/ ResolveFrozen(e)
             \/ \E outcome \in Terminal \cup {"UNDER_REVIEW", "FROZEN"} : ResolveOther(e, outcome)
      PROVE  SameDispute(d)
  BY <1>2, <1>3 DEF ResolveForBuyer, ResolveFrozen, ResolveOther, Resolvable, Terminal
<1>4. CASE ResolveCommit
  <2>1. resolver.dispute \in Disputes /\ dispute[resolver.dispute].status # None
    BY <1>4 DEF Book, Tables, References, ResolveCommit, Idle
  <2> QED BY <1>2, <1>4, <2>1 DEF ResolveCommit, Terminal
<1>5. ASSUME NEW e \in Disputes, NEW kind \in {"TRADE", "OTHER"}, DisputeCommit(e, kind)
      PROVE  SameDispute(d)
  <2>1. e # d
    BY <1>5 DEF Book, Tables, References, DisputeCommit
  <2> QED BY <1>5, <2>1 DEF Book, Tables, References, DisputeCommit, SameDispute
<1> QED
  BY <1>1, <1>3, <1>4, <1>5 DEF Next, ListingStep, DeskStep, BuyerStep, SettleStep, DisputeStep,
     ResolveStep, PrepareRead, PrepareCommit, ConfirmRead, ConfirmSave, CancelListing, ListOnChain,
     CancelOnChain, CreateTradeIntent, ExecuteTrade, SignPurchase, MinePurchase,
     SubmitOnChainTransaction, VerifyOpen, VerifyCommit, SettleRead, SettleRelease, SettleOpen,
     SettleFails, SettleCommit, DisputeRead, DisputeAbort, ResolveRelease, ResolveOpen,
     ResolveFails, disputeVars, vars

\* A hash is written once, and again by the release that ends the trade, which is
\* paid for.
LEMMA HashesStep ==
  ASSUME Book, paid \in [Trades -> Nat], [Next]_vars, NEW t \in Trades, Exists(t)'
  PROVE  \/ Exists(t) /\ trade'[t].hash = trade[t].hash
         \/ trade'[t].hash # "RELEASE" /\ txn[t] = Idle /\ txn' = txn
         \/ trade'[t].hash = "RELEASE" /\ paid'[t] = paid[t] + 1 /\ txn'[t] = Idle
<1> DEFINE Goal == \/ Exists(t) /\ trade'[t].hash = trade[t].hash
                   \/ trade'[t].hash # "RELEASE" /\ txn[t] = Idle /\ txn' = txn
                   \/ trade'[t].hash = "RELEASE" /\ paid'[t] = paid[t] + 1 /\ txn'[t] = Idle
<1> SUFFICES Goal
  OBVIOUS
<1> HIDE DEF Goal
<1>1. ASSUME trade'[t] = trade[t] PROVE Goal
  BY <1>1 DEF Goal, Exists
<1>2. CASE UNCHANGED trade
  BY <1>1, <1>2
<1>3. ASSUME NEW u \in Trades, NEW status, trade' = [trade EXCEPT ![u].status = status], Exists(u)
      PROVE  Goal
  <2>1. u # t => trade'[t] = trade[t]
    BY <1>3 DEF Book, Tables
  <2>2. trade[u] \in TradeRow
    BY <1>3 DEF Book, Tables, Exists, NoTrade, None
  <2>3. trade'[u] = [trade[u] EXCEPT !.status = status]
    BY <1>3 DEF Book, Tables
  <2>4. u = t => Exists(t) /\ trade'[t].hash = trade[t].hash
    BY <1>3, <2>2, <2>3 DEF TradeRow
  <2> QED BY <1>1, <2>1, <2>4 DEF Goal
<1>4. ASSUME NEW u \in Trades, NEW new, trade' = [trade EXCEPT ![u] = new], new.hash # "RELEASE",
             txn[u] = Idle, txn' = txn
      PROVE  Goal
  BY <1>1, <1>4 DEF Goal, Book, Tables
<1>5. ASSUME NEW u \in Trades, NEW l \in Listings, NEW b \in Investors,
             CreateTradeIntent(u, l, b) \/ ExecuteTrade(u, l, b)
      PROVE  Goal
  <2>1. txn[u] = Idle /\ txn' = txn
    BY <1>5 DEF CreateTradeIntent, ExecuteTrade, Book, References
  <2> PICK status \in {"PENDING", "LOCKED"} :
         trade' = [trade EXCEPT ![u] = [status |-> status, listing |-> l, buyer |-> b, hash |-> None]]
    BY <1>5 DEF CreateTradeIntent, ExecuteTrade
  <2> DEFINE new == [status |-> status, listing |-> l, buyer |-> b, hash |-> None]
  <2>2. trade' = [trade EXCEPT ![u] = new] /\ new.hash # "RELEASE"
    BY DEF None
  <2> HIDE DEF new
  <2> QED BY <1>4, <2>1, <2>2
<1>6. ASSUME NEW u \in Trades, NEW h \in {"OWN", "OTHER"}, SubmitOnChainTransaction(u, h)
      PROVE  Goal
  <2>1. trade[u] \in TradeRow
    BY <1>6 DEF SubmitOnChainTransaction, Book, Tables, Exists, NoTrade, None
  <2> DEFINE new == [trade[u] EXCEPT !.hash = h]
  <2>2. trade' = [trade EXCEPT ![u] = new] /\ new.hash # "RELEASE"
    BY <1>6, <2>1 DEF SubmitOnChainTransaction, TradeRow
  <2> HIDE DEF new
  <2> QED BY <1>4, <1>6, <2>2 DEF SubmitOnChainTransaction
<1>7. ASSUME NEW u \in Trades, VerifyCommit(u) PROVE Goal
  <2>1. Exists(u)
    BY <1>7 DEF Book, References, VerifyCommit, Idle
  <2>2. trade[u].hash \in Hashes \cup {None}
    BY <2>1 DEF Book, Tables, Exists, NoTrade, None, TradeRow
  <2>3. trade'[u].hash = trade[u].hash /\ (u # t => trade'[t] = trade[t])
    BY <1>7, <2>1, <2>2, EndedRow DEF VerifyCommit, Complete
  <2> QED BY <1>1, <2>1, <2>3 DEF Goal
<1>8. ASSUME NEW u \in Trades, Exists(u), TradeEnds(u, "RELEASE"), Pay(u), txn' = [txn EXCEPT ![u] = Idle]
      PROVE  Goal
  <2>1. trade'[u].hash = "RELEASE" /\ (u # t => trade'[t] = trade[t])
    BY <1>8, EndedRow DEF Hashes
  <2>2. paid'[u] = paid[u] + 1 /\ txn'[u] = Idle
    BY <1>8 DEF Pay, Book, Tables
  <2> QED BY <1>1, <2>1, <2>2 DEF Goal
<1>9. CASE SettleCommit
  <2>1. settler.trade \in Trades /\ Exists(settler.trade)
    BY <1>9 DEF Book, References, SettleCommit, Idle
  <2> QED BY <1>8, <1>9, <2>1 DEF SettleCommit, Complete
<1>10. CASE ResolveCommit
  <2> DEFINE u == dispute[resolver.dispute].trade
  <2>1. u \in Trades /\ Exists(u)
    BY <1>10 DEF Book, References, ResolveCommit, Idle
  <2>2. TradeEnds(u, "RELEASE") /\ Pay(u) /\ txn' = [txn EXCEPT ![u] = Idle]
    BY <1>10 DEF ResolveCommit
  <2> HIDE DEF u
  <2> QED BY <1>8, <2>1, <2>2
<1>11. ASSUME NEW d \in Disputes, NEW kind \in {"TRADE", "OTHER"}, DisputeCommit(d, kind)
       PROVE  Goal
  BY <1>2, <1>3, <1>11 DEF Book, References, DisputeCommit
<1>12. ASSUME NEW d \in Disputes,
              \/ ResolveForBuyer(d)
              \/ \E outcome \in Terminal \cup {"UNDER_REVIEW", "FROZEN"} : ResolveOther(d, outcome)
       PROVE  Goal
  <2>1. dispute[d].trade \in Trades /\ Exists(dispute[d].trade)
    BY <1>12 DEF ResolveForBuyer, ResolveOther, Resolvable, Book, References
  <2> QED BY <1>2, <1>3, <1>12, <2>1 DEF ResolveForBuyer, ResolveOther
<1> QED
  BY <1>2, <1>5, <1>6, <1>7, <1>9, <1>10, <1>11, <1>12 DEF Next, ListingStep, DeskStep, BuyerStep,
     SettleStep, DisputeStep, ResolveStep, PrepareRead, PrepareCommit, ConfirmRead, ConfirmSave,
     CancelListing, ListOnChain, CancelOnChain, SignPurchase, MinePurchase, VerifyOpen, SettleRead,
     SettleRelease, SettleOpen, SettleFails, DisputeRead, DisputeAbort, ResolveFrozen,
     ResolveRelease, ResolveOpen, ResolveFails, marketVars, vars

\* Whoever pays or moves units has released the tokens itself, has seen the
\* buyer's own transaction take them, never both for one trade, or has verified a
\* transaction that is not the trade's.
Released(t) == HasTokens(t) /\ purchase[t] # "OK"

Granted ==
  /\ delivered \in [Trades -> Nat]
  /\ paid \in [Trades -> Nat]
  /\ foreign \subseteq Trades
  /\ \A t \in Trades :
       /\ purchase[t] = "OK" => HasTokens(t)
       /\ delivered[t] > 0 => Exists(t) /\ (HasTokens(t) \/ t \in foreign)
       /\ paid[t] > 0 => Released(t)
       /\ paid[t] <= delivered[t]

\* What is being verified was mined; a release that is written is paid for.
Verified ==
  \A t \in Trades : Exists(t) =>
    /\ txn[t].pc = "VERIFY" => Mined(t)
    /\ trade[t].hash = "RELEASE" => paid[t] > 0

Held ==
  /\ settler.pc = "PAY" => Released(settler.trade)
  /\ resolver.pc = "PAY" => Released(dispute[resolver.dispute].trade)
  /\ Granted
  /\ Verified

LEMMA HeldInit == Init => Held
  BY DEF Init, Held, Granted, Verified, Exists, NoTrade, Idle, None

\* A delivery of a trade whose buyer has the tokens, paid for here or not, or that
\* ends on a transaction that is not its own.
Delivery(t) ==
  /\ Exists(t) /\ (HasTokens(t) \/ t \in foreign')
  /\ foreign \subseteq foreign' /\ foreign' \subseteq Trades
  /\ delivered' = [delivered EXCEPT ![t] = delivered[t] + 1]
  /\ \/ paid' = paid
     \/ paid' = [paid EXCEPT ![t] = paid[t] + 1] /\ Released(t)
  /\ purchase' = purchase

\* What was released or delivered stays so.
LEMMA ReleasedStep ==
  Book /\ Held /\ [Next]_vars => \A t \in Trades : Released(t) => Released(t)'
<1> SUFFICES ASSUME Book, Held, [Next]_vars, NEW t \in Trades, Released(t) PROVE Released(t)'
  OBVIOUS
<1>1. HasTokens(t)'
  BY TokensStep DEF Released
<1>2. CASE UNCHANGED purchase
  BY <1>1, <1>2 DEF Released
<1>3. ASSUME NEW u \in Trades, SignPurchase(u)
      PROVE  Released(t)'
  BY <1>1, <1>3 DEF Book, Tables, References, Released, SignPurchase
<1>4. ASSUME NEW u \in Trades, MinePurchase(u)
      PROVE  Released(t)'
  <2>1. u = t => chain[trade[u].listing] # "ACTIVE"
    BY DEF Released, HasTokens
  <2>2. purchase'[t] # "OK"
    BY <1>4, <2>1 DEF Book, Tables, References, Released, MinePurchase
  <2> QED BY <1>1, <2>2 DEF Released
<1> QED
  BY <1>2, <1>3, <1>4 DEF Next, ListingStep, DeskStep, BuyerStep, SettleStep, DisputeStep,
     ResolveStep, PrepareRead, PrepareCommit, ConfirmRead, ConfirmSave, CancelListing, ListOnChain,
     CancelOnChain, CreateTradeIntent, ExecuteTrade, SubmitOnChainTransaction, VerifyOpen,
     VerifyCommit, SettleRead, SettleRelease, SettleOpen, SettleFails, SettleCommit, DisputeRead,
     DisputeCommit, DisputeAbort, ResolveOther, ResolveForBuyer, ResolveFrozen, ResolveRelease,
     ResolveOpen, ResolveFails, ResolveCommit, chainVars, vars

\* A verification goes on, or it begins.
LEMMA VerifyingStep ==
  ASSUME Book, [Next]_vars, NEW t \in Trades, txn'[t].pc = "VERIFY"
  PROVE  txn'[t] = txn[t] \/ VerifyOpen(t)
<1> DEFINE Goal == txn'[t] = txn[t] \/ VerifyOpen(t)
<1> SUFFICES Goal
  OBVIOUS
<1> HIDE DEF Goal
<1>1. CASE UNCHANGED txn
  BY <1>1 DEF Goal
<1>2. ASSUME NEW u \in Trades, txn'[u].pc # "VERIFY", \A v \in Trades : v # u => txn'[v] = txn[v]
      PROVE  Goal
  BY <1>2 DEF Goal
<1>3. ASSUME NEW u \in Trades, VerifyOpen(u) PROVE Goal
  BY <1>3 DEF Goal, VerifyOpen, Open, Book, Tables
<1>4. ASSUME NEW u \in Trades, VerifyCommit(u) PROVE Goal
  BY <1>2, <1>4 DEF VerifyCommit, Idle, Book, Tables
<1>5. CASE SettleOpen
  <2>1. settler.trade \in Trades
    BY <1>5 DEF Book, References, SettleOpen, Idle
  <2> QED BY <1>2, <1>5, <2>1 DEF SettleOpen, Open, Book, Tables
<1>6. CASE SettleCommit
  <2>1. settler.trade \in Trades
    BY <1>6 DEF Book, References, SettleCommit, Idle
  <2> QED BY <1>2, <1>6, <2>1 DEF SettleCommit, Idle, Book, Tables
<1>7. CASE ResolveOpen
  <2> PICK u \in Trades : u = dispute[resolver.dispute].trade
    BY <1>7 DEF Book, References, ResolveOpen, Idle
  <2> QED BY <1>2, <1>7 DEF ResolveOpen, Open, Book, Tables
<1>8. CASE ResolveCommit
  <2> PICK u \in Trades : u = dispute[resolver.dispute].trade
    BY <1>8 DEF Book, References, ResolveCommit, Idle
  <2> QED BY <1>2, <1>8 DEF ResolveCommit, Idle, Book, Tables
<1> QED
  BY <1>1, <1>3, <1>4, <1>5, <1>6, <1>7, <1>8 DEF Next, ListingStep, DeskStep, BuyerStep,
     SettleStep, DisputeStep, ResolveStep, PrepareRead, PrepareCommit, ConfirmRead, ConfirmSave,
     CancelListing, ListOnChain, CancelOnChain, CreateTradeIntent, ExecuteTrade, SignPurchase,
     MinePurchase, SubmitOnChainTransaction, SettleRead, SettleRelease, SettleFails, DisputeRead,
     DisputeCommit, DisputeAbort, ResolveOther, ResolveForBuyer, ResolveFrozen, ResolveRelease,
     ResolveFails, vars

\* A purchase that was mined stays so, and payments are only added.
LEMMA MinedStep ==
  ASSUME Book, paid \in [Trades -> Nat], [Next]_vars, NEW t \in Trades
  PROVE  /\ purchase[t] = "OK" => purchase'[t] = "OK"
         /\ paid[t] > 0 => paid'[t] > 0
<1>1. CASE UNCHANGED <<purchase, paid>>
  BY <1>1
<1>2. ASSUME NEW u \in Trades, SignPurchase(u) \/ MinePurchase(u)
      PROVE  (purchase[t] = "OK" => purchase'[t] = "OK") /\ paid' = paid
  BY <1>2 DEF SignPurchase, MinePurchase, Book, Tables, None, ghostVars
<1>3. ASSUME NEW u, Pay(u) PROVE paid[t] > 0 => paid'[t] > 0
  BY <1>3 DEF Pay
<1> QED
  BY <1>1, <1>2, <1>3 DEF Next, ListingStep, DeskStep, BuyerStep, SettleStep, DisputeStep,
     ResolveStep, PrepareRead, PrepareCommit, ConfirmRead, ConfirmSave, CancelListing, ListOnChain,
     CancelOnChain, CreateTradeIntent, ExecuteTrade, SubmitOnChainTransaction, VerifyOpen,
     VerifyCommit, SettleRead, SettleRelease, SettleOpen, SettleCommit, SettleFails, DisputeRead,
     DisputeCommit, DisputeAbort, ResolveOther, ResolveForBuyer, ResolveFrozen, ResolveRelease,
     ResolveOpen, ResolveCommit, ResolveFails, chainVars, ghostVars, vars

LEMMA VerifiedStep == Book /\ Granted /\ Verified /\ [Next]_vars => Verified'
<1> SUFFICES ASSUME Book, Granted, Verified, [Next]_vars, NEW t \in Trades, Exists(t)'
             PROVE  /\ txn'[t].pc = "VERIFY" => Mined(t)'
                    /\ trade'[t].hash = "RELEASE" => paid'[t] > 0
  BY DEF Verified
<1> paid \in [Trades -> Nat]
  BY DEF Granted
<1>1. trade'[t].hash = "RELEASE" => paid'[t] > 0
  BY HashesStep, MinedStep DEF Verified, Granted
<1>2. ASSUME txn'[t].pc = "VERIFY" PROVE Mined(t)'
  <2>1. CASE VerifyOpen(t)
    BY <2>1 DEF VerifyOpen, marketVars, chainVars, Mined
  <2>2. CASE txn'[t] = txn[t]
    <3>1. Exists(t) /\ Mined(t)
      BY <1>2, <2>2 DEF Book, References, Verified, Idle
    <3>2. trade'[t].hash = trade[t].hash
      BY <1>2, <2>2, HashesStep DEF Idle
    <3> QED BY <3>1, <3>2, MinedStep DEF Mined
  <2> QED BY <1>2, <2>1, <2>2, VerifyingStep
<1> QED BY <1>1, <1>2

\* A trade stays completed on a transaction that is not its own.
LEMMA ForeignStep == foreign \subseteq Trades /\ [Next]_vars => foreign \subseteq foreign' /\ foreign' \subseteq Trades
  BY DEF Next, ListingStep, DeskStep, BuyerStep, SettleStep, DisputeStep, ResolveStep,
     PrepareRead, PrepareCommit, ConfirmRead, ConfirmSave, CancelListing, ListOnChain,
     CancelOnChain, CreateTradeIntent, ExecuteTrade, SignPurchase, MinePurchase,
     SubmitOnChainTransaction, VerifyOpen, VerifyCommit, SettleRead, SettleRelease, SettleOpen,
     SettleCommit, SettleFails, DisputeRead, DisputeCommit, DisputeAbort, ResolveOther,
     ResolveForBuyer, ResolveFrozen, ResolveRelease, ResolveOpen, ResolveCommit, ResolveFails,
     ghostVars, vars

LEMMA HeldStep == Book /\ Held /\ [Next]_vars => Held'
<1> SUFFICES ASSUME Book, Held, [Next]_vars PROVE Held'
  OBVIOUS
<1>0. Verified' /\ foreign \subseteq foreign' /\ foreign' \subseteq Trades
  BY VerifiedStep, ForeignStep DEF Held, Granted
<1>1. \A t \in Trades : (HasTokens(t) => HasTokens(t)') /\ (Exists(t) => Exists(t)')
  BY TokensStep, TradesStep DEF TradesKept
<1>2. \A t \in Trades : Released(t) => Released(t)'
  BY ReleasedStep
<1>3. settler.pc = "PAY" => settler.trade \in Trades
  BY DEF Book, Tables, References, Idle
<1>4. resolver.pc = "PAY" =>
        LET t == dispute[resolver.dispute].trade
        IN  t \in Trades /\ dispute'[resolver.dispute].trade = t
  BY DisputesStep DEF Book, Tables, References, Idle, SameDispute
\* Who releases, or says that it has, is all that the first two parts depend on.
<1>5. UNCHANGED settler \/ settler'.pc # "PAY" => (settler.pc = "PAY" => Released(settler.trade))'
  BY <1>2, <1>3 DEF Held, Granted
<1>6. UNCHANGED resolver \/ resolver'.pc # "PAY" =>
        (resolver.pc = "PAY" => Released(dispute[resolver.dispute].trade))'
  BY <1>2, <1>4 DEF Held, Granted
<1>7. UNCHANGED <<delivered, paid>> => (\A t \in Trades :
        /\ delivered[t] > 0 => Exists(t) /\ (HasTokens(t) \/ t \in foreign)
        /\ paid[t] > 0 => Released(t)
        /\ paid[t] <= delivered[t])'
  BY <1>0, <1>1, <1>2 DEF Held, Granted
<1>8. UNCHANGED purchase => (\A t \in Trades : purchase[t] = "OK" => HasTokens(t))'
  BY <1>1 DEF Held, Granted
<1>9. CASE UNCHANGED <<purchase, delivered, paid>> /\ UNCHANGED <<settler, resolver>>
  BY <1>0, <1>5, <1>6, <1>7, <1>8, <1>9 DEF Held, Granted
<1>10. ASSUME NEW t \in Trades, SignPurchase(t)
       PROVE  Held'
  <2>1. UNCHANGED <<settler, resolver, delivered, paid>>
    BY <1>10 DEF SignPurchase, disputeVars, ghostVars
  <2>2. /\ \A u \in Trades : u # t => purchase'[u] = purchase[u]
        /\ purchase[t] = None /\ purchase'[t] = "SENT"
    BY <1>10 DEF Book, Tables, References, SignPurchase
  <2> QED BY <1>0, <1>1, <1>5, <1>6, <1>7, <2>1, <2>2 DEF Held, Granted, None
<1>11. ASSUME NEW t \in Trades, MinePurchase(t)
       PROVE  Held'
  <2>1. UNCHANGED <<settler, resolver, delivered, paid>>
    BY <1>11 DEF MinePurchase, disputeVars, ghostVars
  <2>2. /\ \A u \in Trades : u # t => purchase'[u] = purchase[u]
        /\ purchase[t] = "SENT"
    BY <1>11 DEF Book, Tables, References, MinePurchase
  <2>3. purchase'[t] = "OK" => HasTokens(t)'
    <3>1. Exists(t) /\ trade[t].listing \in Listings /\ UNCHANGED trade
      BY <1>11, <2>2 DEF Book, Tables, References, MinePurchase, marketVars, Exists, None, TradeRow, NoTrade
    <3> QED BY <1>11, <3>1 DEF Book, Tables, References, MinePurchase, HasTokens, Exists
  <2> QED BY <1>0, <1>1, <1>5, <1>6, <1>7, <2>1, <2>2, <2>3 DEF Held, Granted
<1>12. ASSUME NEW t \in Trades, Delivery(t)
       PROVE  Granted'
  <2>2. delivered'[t] = delivered[t] + 1 /\ \A u \in Trades : u # t => delivered'[u] = delivered[u]
    BY <1>12 DEF Held, Granted, Delivery
  <2>3. delivered' \in [Trades -> Nat] /\ paid' \in [Trades -> Nat]
    BY <1>12 DEF Held, Granted, Delivery
  <2>4. /\ \A u \in Trades : u # t => paid'[u] = paid[u]
        /\ \/ paid'[t] = paid[t]
           \/ paid'[t] = paid[t] + 1 /\ Released(t)
    BY <1>12 DEF Held, Granted, Delivery
  <2>5. /\ Exists(t) /\ (HasTokens(t) \/ t \in foreign') /\ purchase' = purchase
    BY <1>12 DEF Delivery
  <2> QED BY <1>0, <1>1, <1>2, <2>2, <2>3, <2>4, <2>5 DEF Held, Granted
<1>13. ASSUME NEW t \in Trades, VerifyCommit(t)
       PROVE  Held'
  <2>1. Exists(t) /\ Mined(t)
    BY <1>13 DEF VerifyCommit, Book, References, Held, Verified, Idle
  <2>2. HasTokens(t) \/ t \in foreign'
    <3>1. CASE trade[t].hash = "OWN"
      BY <2>1, <3>1 DEF Mined, Held, Granted
    <3>2. CASE trade[t].hash = "RELEASE"
      BY <2>1, <3>2 DEF Held, Granted, Verified, Released
    <3>3. CASE trade[t].hash = "OTHER"
      BY <1>13, <3>3 DEF VerifyCommit
    <3> QED BY <2>1, <3>1, <3>2, <3>3 DEF Mined
  <2>3. Delivery(t)
    BY <1>0, <1>13, <2>1, <2>2 DEF Delivery, VerifyCommit, MoveUnits, chainVars
  <2>4. UNCHANGED <<settler, resolver>>
    BY <1>13 DEF VerifyCommit, disputeVars
  <2> QED BY <1>0, <1>5, <1>6, <1>12, <2>3, <2>4 DEF Held, Granted
<1>14. CASE SettleCommit
  <2>1. settler.trade \in Trades /\ Released(settler.trade)
    BY <1>3, <1>14 DEF Held, Granted, SettleCommit
  <2>2. Delivery(settler.trade)
    BY <1>0, <1>14, <2>1 DEF HasTokens, Delivery, SettleCommit, Pay, MoveUnits, Released, chainVars
  <2>3. UNCHANGED resolver /\ settler'.pc # "PAY"
    BY <1>14 DEF SettleCommit, disputeVars, Idle
  <2> QED BY <1>0, <1>5, <1>6, <1>12, <2>1, <2>2, <2>3 DEF Held, Granted
<1>15. CASE ResolveCommit
  <2> DEFINE t == dispute[resolver.dispute].trade
  <2>1. t \in Trades /\ Released(t)
    BY <1>4, <1>15 DEF Held, Granted, ResolveCommit
  <2>2. Delivery(t)
    BY <1>0, <1>15, <2>1 DEF HasTokens, Delivery, ResolveCommit, Pay, MoveUnits, Released, chainVars
  <2>3. UNCHANGED settler /\ resolver'.pc # "PAY"
    BY <1>15 DEF ResolveCommit, Idle
  <2> HIDE DEF t
  <2> QED BY <1>0, <1>5, <1>6, <1>12, <2>1, <2>2, <2>3 DEF Held, Granted
<1>16. ASSUME NEW t \in Trades, SettleRead(t)
       PROVE  Held'
  BY <1>0, <1>5, <1>6, <1>7, <1>8, <1>16 DEF Held, Granted, SettleRead, disputeVars, chainVars, ghostVars
<1>17. CASE SettleFails
  BY <1>0, <1>5, <1>6, <1>7, <1>8, <1>17 DEF Held, Granted, SettleFails, Idle, disputeVars, chainVars, ghostVars
<1>18. CASE ResolveFails
  BY <1>0, <1>5, <1>6, <1>7, <1>8, <1>18 DEF Held, Granted, ResolveFails, Idle, chainVars, ghostVars
\* A release makes the tokens the trade's, and they were nobody's before.
<1>19. ASSUME NEW t \in Trades, Exists(t), Release(t), UNCHANGED <<purchase, trade>>
       PROVE  Released(t)'
  <2>1. trade[t].listing \in Listings
    BY <1>19 DEF Book, Tables, References, Exists, TradeRow, NoTrade
  <2>2. HasTokens(t)'
    BY <1>19, <2>1 DEF Book, Tables, References, Release, HasTokens, Exists
  <2>3. purchase[t] # "OK"
    BY <1>19 DEF Held, Granted, HasTokens, Release
  <2> QED BY <1>19, <2>2, <2>3 DEF Released
<1>20. CASE SettleRelease
  <2>1. settler.trade \in Trades /\ Exists(settler.trade) /\ settler'.trade = settler.trade
    BY <1>20 DEF Book, Tables, References, SettleRelease, Idle
  <2>2. UNCHANGED <<trade, purchase, resolver, txn, delivered, paid>> /\ Release(settler.trade)
    BY <1>20 DEF SettleRelease, marketVars, disputeVars, ghostVars
  <2> QED BY <1>0, <1>6, <1>7, <1>8, <1>19, <2>1, <2>2 DEF Held, Granted
<1>21. ASSUME NEW d \in Disputes, ResolveRelease(d)
       PROVE  Held'
  <2>1. dispute[d].trade \in Trades /\ Exists(dispute[d].trade)
    BY <1>21 DEF Book, Tables, References, ResolveRelease, Resolvable
  <2>2. /\ UNCHANGED <<trade, purchase, dispute, settler, txn, delivered, paid>>
        /\ Release(dispute[d].trade) /\ resolver'.dispute = d
    BY <1>21 DEF ResolveRelease, marketVars, ghostVars
  <2> QED BY <1>0, <1>5, <1>7, <1>8, <1>19, <2>1, <2>2 DEF Held, Granted
<1> QED
  BY <1>9, <1>10, <1>11, <1>13, <1>14, <1>15, <1>16, <1>17, <1>18, <1>20, <1>21
  DEF Next, ListingStep, DeskStep, BuyerStep, SettleStep, DisputeStep, ResolveStep, PrepareRead,
     PrepareCommit, ConfirmRead, ConfirmSave, CancelListing, ListOnChain, CancelOnChain,
     CreateTradeIntent, ExecuteTrade, SubmitOnChainTransaction, VerifyOpen, SettleOpen, ResolveOpen, DisputeRead, DisputeCommit,
     DisputeAbort, ResolveOther, ResolveForBuyer, ResolveFrozen, disputeVars, chainVars, ghostVars,
     vars

-----------------------------------------------------------------------------
(* Deliveries are counted *)

\* A release is paid for once, by who has made it, and units go with it.
PaidOnce ==
  /\ \A t \in Trades : paid[t] <= 1
  /\ settler.pc = "PAY" => paid[settler.trade] = 0
  /\ resolver.pc = "PAY" => paid[dispute[resolver.dispute].trade] = 0
  /\ settler.pc = "PAY" /\ resolver.pc = "PAY" => settler.trade # dispute[resolver.dispute].trade
  /\ \A t \in Trades \ foreign : delivered[t] > 0 => purchase[t] = "OK" \/ paid[t] > 0

Reopenings(t) == Cardinality(DisputesOf(t))

\* A trade is delivered as often as it was open; while it is, and while it is
\* being settled, once less.
OpenedOnce(t) ==
  t \notin foreign =>
    /\ delivered[t] <= Reopenings(t) + 1
    /\ delivered[t] <= Reopenings(t) \/ trade[t].status = "COMPLETED"
    /\ txn[t].pc # "IDLE" => delivered[t] <= Reopenings(t)

\* However it is verified, so it is verified as often as it was open.
VerifiedOnce(t) ==
  /\ delivered[t] - paid[t] <= Reopenings(t) + 1
  /\ delivered[t] - paid[t] <= Reopenings(t) \/ trade[t].status = "COMPLETED"
  /\ txn[t].pc = "VERIFY" => delivered[t] - paid[t] <= Reopenings(t)

Once == PaidOnce /\ \A t \in Trades : OpenedOnce(t) /\ VerifiedOnce(t)

LEMMA ReopeningsType ==
  /\ \A t : IsFiniteSet(DisputesOf(t)) /\ Reopenings(t) \in Nat
  /\ \A t : IsFiniteSet(DisputesOf(t))' /\ Reopenings(t)' \in Nat
<1>1. \A t : DisputesOf(t) \subseteq Disputes /\ DisputesOf(t)' \subseteq Disputes
  BY DEF DisputesOf
<1> QED BY <1>1, FS_Subset, FS_CardinalityType DEF Reopenings

LEMMA OnceInit == Init => Once
<1> SUFFICES ASSUME Init PROVE Once
  OBVIOUS
<1>1. \A t \in Trades : Reopenings(t) \in Nat
  BY ReopeningsType
<1> QED BY <1>1 DEF Init, Once, PaidOnce, OpenedOnce, VerifiedOnce, Idle, None

\* A trade is released once: who pays for it is alone, and it was not paid.
LEMMA ReleaseIsFirst ==
  ASSUME Book, Held, NEW t \in Trades, Exists(t), Release(t)
  PROVE  /\ paid[t] = 0
         /\ settler.pc = "PAY" => settler.trade # t
         /\ resolver.pc = "PAY" => dispute[resolver.dispute].trade # t
<1>1. ~HasTokens(t)
  BY DEF Release, HasTokens
<1>2. paid[t] \in Nat /\ ~(paid[t] > 0)
  BY <1>1 DEF Held, Granted, Released
<1> QED BY <1>1, <1>2 DEF Held, Released

LEMMA PaidOnceStep == Book /\ Held /\ PaidOnce /\ [Next]_vars => PaidOnce'
<1> SUFFICES ASSUME Book, Held, PaidOnce, [Next]_vars PROVE PaidOnce'
  OBVIOUS
<1>1. resolver # Idle => /\ resolver.dispute \in Disputes
                         /\ dispute[resolver.dispute].trade \in Trades
                         /\ dispute'[resolver.dispute].trade = dispute[resolver.dispute].trade
  BY DisputesStep DEF Book, References, SameDispute
<1>2. settler # Idle => settler.trade \in Trades
  BY DEF Book, References
<1>3. Idle.pc # "PAY"
  BY DEF Idle
<1>0. foreign \subseteq foreign'
  BY ForeignStep DEF Held, Granted
<1>4. CASE UNCHANGED <<paid, delivered, purchase>> /\ UNCHANGED <<settler, resolver>>
  BY <1>0, <1>1, <1>3, <1>4 DEF PaidOnce
<1>5. ASSUME NEW t \in Trades, SignPurchase(t) \/ MinePurchase(t)
      PROVE  PaidOnce'
  <2>1. UNCHANGED <<settler, resolver, paid, delivered>>
    BY <1>5 DEF SignPurchase, MinePurchase, disputeVars, ghostVars
  <2>2. \A u \in Trades : purchase[u] = "OK" => purchase'[u] = "OK"
    BY <1>5 DEF SignPurchase, MinePurchase, Book, Tables, None
  <2> QED BY <1>0, <1>1, <1>3, <2>1, <2>2 DEF PaidOnce
<1>6. CASE /\ UNCHANGED <<paid, delivered, purchase>>
           /\ settler'.pc # "PAY" /\ UNCHANGED resolver
  BY <1>0, <1>1, <1>3, <1>6 DEF PaidOnce
<1>7. CASE /\ UNCHANGED <<paid, delivered, purchase>>
           /\ resolver'.pc # "PAY" /\ UNCHANGED settler
  BY <1>0, <1>1, <1>3, <1>7 DEF PaidOnce
<1>8. CASE SettleRelease
  <2>1. /\ settler'.pc = "PAY" /\ settler'.trade = settler.trade /\ Release(settler.trade)
        /\ settler.trade \in Trades /\ Exists(settler.trade)
    BY <1>8 DEF SettleRelease, Book, Tables, References, Idle
  <2>2. UNCHANGED <<resolver, dispute, paid, delivered, purchase>>
    BY <1>8 DEF SettleRelease, disputeVars, ghostVars
  <2> QED BY <1>0, <2>1, <2>2, ReleaseIsFirst DEF PaidOnce
<1>9. ASSUME NEW d \in Disputes, ResolveRelease(d) PROVE PaidOnce'
  <2>1. /\ resolver'.dispute = d /\ Release(dispute[d].trade)
        /\ dispute[d].trade \in Trades /\ Exists(dispute[d].trade)
    BY <1>9 DEF ResolveRelease, Resolvable, Book, References
  <2>2. UNCHANGED <<settler, dispute, paid, delivered, purchase>>
    BY <1>9 DEF ResolveRelease, ghostVars
  <2> QED BY <1>0, <2>1, <2>2, ReleaseIsFirst DEF PaidOnce
<1>10. ASSUME NEW t \in Trades, VerifyCommit(t) PROVE PaidOnce'
  <2>1. /\ UNCHANGED <<settler, resolver, dispute, paid, purchase>>
        /\ \A u \in Trades : u # t => delivered'[u] = delivered[u]
    BY <1>10 DEF VerifyCommit, MoveUnits, Held, Granted, disputeVars, chainVars
  <2>2. Exists(t) /\ Mined(t)
    BY <1>10 DEF VerifyCommit, Book, References, Held, Verified, Idle
  <2>3. t \in foreign' \/ purchase[t] = "OK" \/ paid[t] > 0
    BY <1>10, <2>2 DEF VerifyCommit, Mined, Held, Verified
  <2> QED BY <1>0, <1>1, <1>3, <2>1, <2>3 DEF PaidOnce
<1>11. ASSUME NEW t \in Trades, Pay(t), MoveUnits(t), UNCHANGED <<purchase, foreign>>, paid[t] = 0
       PROVE  /\ \A u \in Trades : paid'[u] <= 1
              /\ \A u \in Trades \ foreign' : delivered'[u] > 0 => purchase'[u] = "OK" \/ paid'[u] > 0
              /\ \A u \in Trades : u # t => paid'[u] = paid[u]
  <2>1. /\ paid' = [paid EXCEPT ![t] = paid[t] + 1]
        /\ delivered' = [delivered EXCEPT ![t] = delivered[t] + 1]
    BY <1>11 DEF Pay, MoveUnits
  <2>2. paid \in [Trades -> Nat] /\ delivered \in [Trades -> Nat]
    BY DEF Held, Granted
  <2>3. /\ paid'[t] = 1
        /\ \A u \in Trades : u # t => paid'[u] = paid[u] /\ delivered'[u] = delivered[u]
    BY <1>11, <2>1, <2>2 DEF PaidOnce
  <2> QED BY <1>11, <2>3 DEF PaidOnce
<1>12. CASE SettleCommit
  <2>1. /\ settler.trade \in Trades /\ paid[settler.trade] = 0
        /\ Pay(settler.trade) /\ MoveUnits(settler.trade)
        /\ settler' = Idle /\ UNCHANGED <<dispute, resolver, purchase, foreign>>
    BY <1>2, <1>3, <1>12 DEF SettleCommit, PaidOnce, disputeVars, chainVars
  <2>2. resolver.pc = "PAY" => settler.trade # dispute[resolver.dispute].trade
    BY <1>12 DEF SettleCommit, PaidOnce
  <2> QED BY <1>1, <1>3, <1>11, <2>1, <2>2 DEF PaidOnce
<1>13. CASE ResolveCommit
  <2> DEFINE t == dispute[resolver.dispute].trade
  <2>1. /\ t \in Trades /\ paid[t] = 0
        /\ Pay(t) /\ MoveUnits(t)
        /\ resolver' = Idle /\ UNCHANGED <<settler, purchase, foreign>>
    BY <1>1, <1>3, <1>13 DEF ResolveCommit, PaidOnce, chainVars
  <2>2. settler.pc = "PAY" => settler.trade # t
    BY <1>13 DEF ResolveCommit, PaidOnce
  <2> HIDE DEF t
  <2> QED BY <1>2, <1>3, <1>11, <2>1, <2>2 DEF PaidOnce
<1>14. ASSUME NEW t \in Trades, SettleRead(t) PROVE PaidOnce'
  BY <1>6, <1>14 DEF SettleRead, disputeVars, chainVars, ghostVars
<1>15. CASE SettleFails
  BY <1>3, <1>6, <1>15 DEF SettleFails, disputeVars, chainVars, ghostVars
<1>16. CASE ResolveFails
  BY <1>3, <1>7, <1>16 DEF ResolveFails, chainVars, ghostVars
<1> QED
  BY <1>4, <1>5, <1>8, <1>9, <1>10, <1>12, <1>13, <1>14, <1>15, <1>16
  DEF Next, ListingStep, DeskStep, BuyerStep, SettleStep, DisputeStep, ResolveStep, PrepareRead,
     PrepareCommit, ConfirmRead, ConfirmSave, CancelListing, ListOnChain, CancelOnChain,
     CreateTradeIntent, ExecuteTrade, SubmitOnChainTransaction, VerifyOpen, SettleOpen, DisputeRead,
     DisputeCommit, DisputeAbort, ResolveOther, ResolveForBuyer, ResolveFrozen, ResolveOpen,
     disputeVars, chainVars, ghostVars, vars

\* Disputes stay, and each counts once.
LEMMA ReopeningsStep ==
  ASSUME Book, [Next]_vars, NEW t
  PROVE  /\ Reopenings(t)' >= Reopenings(t)
         /\ (\E d : d \in DisputesOf(t)' /\ d \notin DisputesOf(t)) =>
              Reopenings(t)' >= Reopenings(t) + 1
<1>1. DisputesOf(t) \subseteq DisputesOf(t)'
  BY DisputesStep DEF DisputesOf, SameDispute
<1>2. Reopenings(t)' >= Reopenings(t)
  BY <1>1, ReopeningsType, FS_Subset DEF Reopenings
<1>3. ASSUME NEW d, d \in DisputesOf(t)', d \notin DisputesOf(t)
      PROVE  Reopenings(t)' >= Reopenings(t) + 1
  <2>1. DisputesOf(t) \subseteq DisputesOf(t)' \ {d}
    BY <1>1, <1>3
  <2>2. /\ Cardinality(DisputesOf(t)' \ {d}) = Reopenings(t)' - 1
        /\ IsFiniteSet(DisputesOf(t)' \ {d})
    BY <1>3, ReopeningsType, FS_RemoveElement DEF Reopenings
  <2>3. Reopenings(t) <= Cardinality(DisputesOf(t)' \ {d})
    BY <2>1, <2>2, FS_Subset DEF Reopenings
  <2> QED BY <2>2, <2>3, ReopeningsType
<1> QED BY <1>2, <1>3

\* Only a dispute takes a trade back from COMPLETED.
LEMMA CompletedStep ==
  Book /\ [Next]_vars =>
    \A t \in Trades : trade[t].status = "COMPLETED" =>
      \/ trade'[t].status = "COMPLETED"
      \/ txn[t] = Idle /\ txn' = txn /\ \E d : d \in DisputesOf(t)' /\ d \notin DisputesOf(t)
<1> DEFINE Reopened(u) == txn[u] = Idle /\ txn' = txn /\ \E d : d \in DisputesOf(u)' /\ d \notin DisputesOf(u)
<1> SUFFICES ASSUME Book, [Next]_vars, NEW t \in Trades, trade[t].status = "COMPLETED", ~Reopened(t)
             PROVE  trade'[t].status = "COMPLETED"
  OBVIOUS
<1> HIDE DEF Reopened
<1>1. CASE UNCHANGED trade
  BY <1>1
<1>2. ASSUME NEW u \in Trades, NEW new, trade' = [trade EXCEPT ![u] = new],
             u = t => new.status = "COMPLETED"
      PROVE  trade'[t].status = "COMPLETED"
  BY <1>2 DEF Book, Tables
<1>3. ASSUME NEW u \in Trades, Exists(u), trade' = [trade EXCEPT ![u].status = "COMPLETED"]
      PROVE  trade'[t].status = "COMPLETED"
  <2>1. trade[u] \in TradeRow
    BY <1>3 DEF Book, Tables, Exists, NoTrade, None
  <2>2. [trade[u] EXCEPT !.status = "COMPLETED"].status = "COMPLETED"
    BY <2>1 DEF TradeRow
  <2> QED BY <1>2, <1>3, <2>2
<1>11. ASSUME NEW u \in Trades, Exists(u), NEW h \in Hashes \cup {None}, TradeEnds(u, h)
       PROVE  trade'[t].status = "COMPLETED"
  <2>1. trade'[u].status = "COMPLETED" /\ (u # t => trade'[t] = trade[t])
    BY <1>11, EndedRow
  <2> QED BY <2>1
<1>4. ASSUME NEW u \in Trades, NEW h \in {"OWN", "OTHER"}, SubmitOnChainTransaction(u, h)
      PROVE  trade'[t].status = "COMPLETED"
  <2>1. trade[u] \in TradeRow
    BY <1>4 DEF SubmitOnChainTransaction, Book, Tables, Exists, NoTrade, None
  <2>2. trade' = [trade EXCEPT ![u] = [trade[u] EXCEPT !.hash = h]]
    BY <1>4 DEF SubmitOnChainTransaction
  <2>3. [trade[u] EXCEPT !.hash = h].status = trade[u].status
    BY <2>1 DEF TradeRow
  <2> QED BY <1>2, <2>2, <2>3
<1>5. ASSUME NEW u \in Trades, NEW l \in Listings, NEW b \in Investors,
             CreateTradeIntent(u, l, b) \/ ExecuteTrade(u, l, b)
      PROVE  trade'[t].status = "COMPLETED"
  <2>1. u # t
    BY <1>5 DEF CreateTradeIntent, ExecuteTrade, Exists, None
  <2> QED BY <1>5, <2>1 DEF CreateTradeIntent, ExecuteTrade, Book, Tables
<1>6. ASSUME NEW d \in Disputes, NEW kind \in {"TRADE", "OTHER"}, DisputeCommit(d, kind)
      PROVE  trade'[t].status = "COMPLETED"
  <2>1. opening[d] # None /\ opening[d] \in Trades
    BY <1>6 DEF DisputeCommit, Book, References
  <2>2. CASE kind = "OTHER"
    BY <1>1, <1>6, <2>2 DEF DisputeCommit
  <2>3. CASE kind = "TRADE"
    <3> PICK u \in Trades : u = opening[d]
      BY <2>1
    <3> DEFINE new == [status |-> "OPEN", trade |-> u, kind |-> "TRADE"]
    <3>1. /\ dispute' = [dispute EXCEPT ![d] = new]
          /\ new.status # None /\ new.trade = u /\ new.kind = "TRADE"
      BY <1>6, <2>3 DEF DisputeCommit, None
    <3> HIDE DEF new
    <3>2. dispute'[d] = new
      BY <3>1 DEF Book, Tables
    <3>3. Reopened(u)
      <4>1. d \in DisputesOf(u)'
        BY <3>1, <3>2 DEF DisputesOf
      <4>2. d \notin DisputesOf(u)
        BY <2>1 DEF DisputesOf, Book, References
      <4>3. txn[u] = Idle /\ txn' = txn
        BY <1>6 DEF DisputeCommit
      <4> QED BY <4>1, <4>2, <4>3 DEF Reopened
    <3>4. u # t
      BY <3>3
    <3> QED BY <1>6, <2>3, <3>4 DEF DisputeCommit, Book, Tables
  <2> QED BY <2>2, <2>3
<1>7. ASSUME NEW d \in Disputes,
             \/ ResolveForBuyer(d)
             \/ \E outcome \in Terminal \cup {"UNDER_REVIEW", "FROZEN"} : ResolveOther(d, outcome)
      PROVE  trade'[t].status = "COMPLETED"
  <2>1. dispute[d].trade \in Trades /\ Exists(dispute[d].trade)
    BY <1>7 DEF ResolveForBuyer, ResolveOther, Resolvable, Book, References
  <2> QED BY <1>1, <1>3, <1>7, <2>1 DEF ResolveForBuyer, ResolveOther
<1>8. CASE ResolveCommit
  <2>1. dispute[resolver.dispute].trade \in Trades /\ Exists(dispute[resolver.dispute].trade)
    BY <1>8 DEF ResolveCommit, Book, References, Idle
  <2> QED BY <1>8, <1>11, <2>1 DEF ResolveCommit, Hashes
<1>9. ASSUME NEW u \in Trades, VerifyCommit(u) PROVE trade'[t].status = "COMPLETED"
  <2>1. Exists(u)
    BY <1>9 DEF VerifyCommit, Book, References, Idle
  <2>2. trade[u].hash \in Hashes \cup {None}
    BY <2>1 DEF Book, Tables, Exists, NoTrade, None, TradeRow
  <2> QED BY <1>9, <1>11, <2>1, <2>2 DEF VerifyCommit, Complete
<1>10. CASE SettleCommit
  <2>1. settler.trade \in Trades /\ Exists(settler.trade)
    BY <1>10 DEF SettleCommit, Book, References, Idle
  <2> QED BY <1>10, <1>11, <2>1 DEF SettleCommit, Complete, Hashes
<1> QED
  BY <1>1, <1>4, <1>5, <1>6, <1>7, <1>8, <1>9, <1>10 DEF Next, ListingStep, DeskStep, BuyerStep,
     SettleStep, DisputeStep, ResolveStep, PrepareRead, PrepareCommit, ConfirmRead, ConfirmSave,
     CancelListing, ListOnChain, CancelOnChain, SignPurchase, MinePurchase, VerifyOpen, SettleRead,
     SettleRelease, SettleOpen, SettleFails, DisputeRead, DisputeAbort, ResolveFrozen,
     ResolveRelease, ResolveOpen, ResolveFails, marketVars, vars

LEMMA OpenedOnceStep ==
  Book /\ Held /\ Once /\ [Next]_vars => \A t \in Trades : OpenedOnce(t)'
<1> SUFFICES ASSUME Book, Held, Once, [Next]_vars, NEW t \in Trades, t \notin foreign'
             PROVE  OpenedOnce(t)'
  BY DEF OpenedOnce
<1> USE DEF OpenedOnce
<1> delivered \in [Trades -> Nat] /\ Reopenings(t) \in Nat /\ Reopenings(t)' \in Nat
  BY ReopeningsType DEF Held, Granted
<1> /\ t \notin foreign
    /\ delivered[t] <= Reopenings(t) + 1
    /\ delivered[t] <= Reopenings(t) \/ trade[t].status = "COMPLETED"
    /\ txn[t].pc # "IDLE" => delivered[t] <= Reopenings(t)
  BY ForeignStep DEF Once, Held, Granted
<1>0. Reopenings(t)' >= Reopenings(t)
  BY ReopeningsStep
<1>1. trade[t].status = "COMPLETED" =>
        trade'[t].status = "COMPLETED" \/ Reopenings(t)' >= Reopenings(t) + 1
  BY CompletedStep, ReopeningsStep
<1>2. CASE UNCHANGED <<delivered, txn>>
  BY <1>0, <1>1, <1>2
<1>3. ASSUME NEW u \in Trades, NEW kind, Open(u, kind), UNCHANGED delivered,
             u = t => delivered[t] <= Reopenings(t)
      PROVE  OpenedOnce(t)'
  <2>1. u # t => txn'[t] = txn[t]
    BY <1>3 DEF Open, Book, Tables
  <2> QED BY <1>0, <1>1, <1>3, <2>1
<1>4. ASSUME NEW u \in Trades, VerifyOpen(u) PROVE OpenedOnce(t)'
  BY <1>3, <1>4 DEF VerifyOpen, ghostVars
\* Who pays has released the tokens, which nobody has had before.
<1>5. ASSUME NEW u \in Trades, Released(u), paid[u] = 0, u = t
      PROVE  delivered[t] = 0
  BY <1>5 DEF Once, PaidOnce, Released
<1>6. CASE SettleOpen
  <2>1. settler.trade \in Trades /\ Released(settler.trade) /\ paid[settler.trade] = 0
    BY <1>6 DEF SettleOpen, Book, References, Held, Once, PaidOnce, Idle
  <2> QED BY <1>3, <1>5, <1>6, <2>1 DEF SettleOpen, ghostVars
<1>7. CASE ResolveOpen
  <2> DEFINE u == dispute[resolver.dispute].trade
  <2>1. u \in Trades /\ Released(u) /\ paid[u] = 0
    BY <1>7 DEF ResolveOpen, Book, References, Held, Once, PaidOnce, Idle
  <2>2. Open(u, "RESOLVE") /\ UNCHANGED delivered
    BY <1>7 DEF ResolveOpen, ghostVars
  <2> HIDE DEF u
  <2> QED BY <1>3, <1>5, <2>1, <2>2
<1>8. ASSUME NEW u \in Trades, Exists(u), txn[u].pc # "IDLE", MoveUnits(u), txn' = [txn EXCEPT ![u] = Idle],
             NEW h \in Hashes \cup {None}, TradeEnds(u, h)
      PROVE  OpenedOnce(t)'
  <2>1. CASE u # t
    BY <1>0, <1>1, <1>8, <2>1 DEF MoveUnits, Book, Tables
  <2>2. CASE u = t
    <3>1. delivered'[t] = delivered[t] + 1 /\ txn'[t].pc = "IDLE" /\ delivered[t] <= Reopenings(t)
      BY <1>8, <2>2 DEF MoveUnits, Book, Tables, Idle
    <3>2. trade'[t].status = "COMPLETED"
      BY <1>8, <2>2, EndedRow
    <3> QED BY <1>0, <3>1, <3>2
  <2> QED BY <2>1, <2>2
<1>9. ASSUME NEW u \in Trades, VerifyCommit(u) PROVE OpenedOnce(t)'
  <2>1. Exists(u)
    BY <1>9 DEF VerifyCommit, Book, References, Idle
  <2>2. trade[u].hash \in Hashes \cup {None}
    BY <2>1 DEF Book, Tables, Exists, NoTrade, None, TradeRow
  <2> QED BY <1>8, <1>9, <2>1, <2>2 DEF VerifyCommit, Complete
<1>10. CASE SettleCommit
  <2>1. settler.trade \in Trades /\ Exists(settler.trade)
    BY <1>10 DEF SettleCommit, Book, References, Idle
  <2> QED BY <1>8, <1>10, <2>1 DEF SettleCommit, Complete, Hashes
<1>11. CASE ResolveCommit
  <2>1. dispute[resolver.dispute].trade \in Trades /\ Exists(dispute[resolver.dispute].trade)
    BY <1>11 DEF ResolveCommit, Book, References, Idle
  <2> QED BY <1>8, <1>11, <2>1 DEF ResolveCommit, Hashes
<1> QED
  BY <1>2, <1>4, <1>6, <1>7, <1>9, <1>10, <1>11
  DEF Next, ListingStep, DeskStep, BuyerStep, SettleStep, DisputeStep, ResolveStep, PrepareRead,
     PrepareCommit, ConfirmRead, ConfirmSave, CancelListing, ListOnChain, CancelOnChain,
     CreateTradeIntent, ExecuteTrade, SignPurchase, MinePurchase, SubmitOnChainTransaction,
     SettleRead, SettleRelease, SettleFails, DisputeRead, DisputeCommit, DisputeAbort, ResolveOther,
     ResolveForBuyer, ResolveFrozen, ResolveRelease, ResolveFails, ghostVars, vars

\* Who pays delivers what it pays for; only a verification delivers besides.
LEMMA VerifiedOnceStep ==
  Book /\ Held /\ Once /\ [Next]_vars => \A t \in Trades : VerifiedOnce(t)'
<1> SUFFICES ASSUME Book, Held, Once, [Next]_vars, NEW t \in Trades PROVE VerifiedOnce(t)'
  OBVIOUS
<1> /\ delivered \in [Trades -> Nat] /\ paid \in [Trades -> Nat]
    /\ Reopenings(t) \in Nat /\ Reopenings(t)' \in Nat
  BY ReopeningsType DEF Held, Granted
<1>a. VerifiedOnce(t)
  BY DEF Once
<1>0. Reopenings(t)' >= Reopenings(t)
  BY ReopeningsStep
<1>1. trade[t].status = "COMPLETED" =>
        trade'[t].status = "COMPLETED" \/ Reopenings(t)' >= Reopenings(t) + 1
  BY CompletedStep, ReopeningsStep
<1>2. CASE UNCHANGED <<delivered, paid, txn>>
  BY <1>a, <1>0, <1>1, <1>2 DEF VerifiedOnce
<1>3. ASSUME NEW u \in Trades, NEW kind, Open(u, kind), UNCHANGED <<delivered, paid>>,
             u = t /\ kind = "VERIFY" => trade[t].status # "COMPLETED"
      PROVE  VerifiedOnce(t)'
  <2>1. /\ u # t => txn'[t] = txn[t]
        /\ u = t => txn'[t].pc = kind
    BY <1>3 DEF Open, Book, Tables
  <2> QED BY <1>a, <1>0, <1>1, <1>3, <2>1 DEF VerifiedOnce
<1>4. ASSUME NEW u \in Trades, VerifyOpen(u) PROVE VerifiedOnce(t)'
  BY <1>3, <1>4 DEF VerifyOpen, ghostVars
<1>5. CASE SettleOpen
  <2>1. settler.trade \in Trades
    BY <1>5 DEF SettleOpen, Book, References, Idle
  <2> QED BY <1>3, <1>5, <2>1 DEF SettleOpen, ghostVars
<1>6. CASE ResolveOpen
  <2> DEFINE u == dispute[resolver.dispute].trade
  <2>1. u \in Trades
    BY <1>6 DEF ResolveOpen, Book, References, Idle
  <2>2. Open(u, "RESOLVE") /\ UNCHANGED <<delivered, paid>>
    BY <1>6 DEF ResolveOpen, ghostVars
  <2> HIDE DEF u
  <2> QED BY <1>3, <2>1, <2>2
<1>7. ASSUME NEW u \in Trades, Exists(u), MoveUnits(u), txn' = [txn EXCEPT ![u] = Idle],
             \/ txn[u].pc = "VERIFY" /\ UNCHANGED paid
             \/ paid' = [paid EXCEPT ![u] = paid[u] + 1],
             NEW h \in Hashes \cup {None}, TradeEnds(u, h)
      PROVE  VerifiedOnce(t)'
  <2>1. CASE u # t
    <3>1. delivered'[t] = delivered[t] /\ paid'[t] = paid[t] /\ txn'[t] = txn[t]
      BY <1>7, <2>1 DEF MoveUnits, Book, Tables
    <3> QED BY <1>a, <1>0, <1>1, <3>1 DEF VerifiedOnce
  <2>2. CASE u = t
    <3>1. delivered'[t] = delivered[t] + 1 /\ txn'[t].pc = "IDLE"
      BY <1>7, <2>2 DEF MoveUnits, Book, Tables, Idle
    <3>2. trade'[t].status = "COMPLETED"
      BY <1>7, <2>2, EndedRow
    <3>3. \/ delivered[t] - paid[t] <= Reopenings(t) /\ paid'[t] = paid[t]
          \/ paid'[t] = paid[t] + 1
      BY <1>a, <1>7, <2>2 DEF VerifiedOnce
    <3>4. delivered'[t] - paid'[t] <= Reopenings(t) + 1
      BY <1>a, <3>1, <3>3 DEF VerifiedOnce
    <3>5. delivered'[t] - paid'[t] <= Reopenings(t)' + 1
      BY <1>0, <3>1, <3>3, <3>4
    <3> QED BY <3>1, <3>2, <3>5 DEF VerifiedOnce
  <2> QED BY <2>1, <2>2
<1>8. ASSUME NEW u \in Trades, VerifyCommit(u) PROVE VerifiedOnce(t)'
  <2>1. Exists(u)
    BY <1>8 DEF VerifyCommit, Book, References, Idle
  <2>2. trade[u].hash \in Hashes \cup {None}
    BY <2>1 DEF Book, Tables, Exists, NoTrade, None, TradeRow
  <2> QED BY <1>7, <1>8, <2>1, <2>2 DEF VerifyCommit, Complete
<1>9. CASE SettleCommit
  <2>1. settler.trade \in Trades /\ Exists(settler.trade)
    BY <1>9 DEF SettleCommit, Book, References, Idle
  <2> QED BY <1>7, <1>9, <2>1 DEF SettleCommit, Complete, Pay, Hashes
<1>10. CASE ResolveCommit
  <2>1. dispute[resolver.dispute].trade \in Trades /\ Exists(dispute[resolver.dispute].trade)
    BY <1>10 DEF ResolveCommit, Book, References, Idle
  <2> QED BY <1>7, <1>10, <2>1 DEF ResolveCommit, Pay, Hashes
<1> QED
  BY <1>2, <1>4, <1>5, <1>6, <1>8, <1>9, <1>10
  DEF Next, ListingStep, DeskStep, BuyerStep, SettleStep, DisputeStep, ResolveStep, PrepareRead,
     PrepareCommit, ConfirmRead, ConfirmSave, CancelListing, ListOnChain, CancelOnChain,
     CreateTradeIntent, ExecuteTrade, SignPurchase, MinePurchase, SubmitOnChainTransaction,
     SettleRead, SettleRelease, SettleFails, DisputeRead, DisputeCommit, DisputeAbort, ResolveOther,
     ResolveForBuyer, ResolveFrozen, ResolveRelease, ResolveFails, ghostVars, vars

LEMMA OnceStep == Book /\ Held /\ Once /\ [Next]_vars => Once'
  BY PaidOnceStep, OpenedOnceStep, VerifiedOnceStep DEF Once

\* A trade is delivered once, once more for each dispute about it, and once more
\* if it was completed on a transaction that is not its own, for any disputes and
\* whoever settles, verifies and resolves it (verifyOnChainTrade, settleTrade,
\* resolveDispute: the status and the hash under the row's lock, and a release
\* that the chain grants once).
THEOREM DeliveriesAreCounted == Spec => []DeliveredOnce
<1>1. Book /\ Held /\ Once => DeliveredOnce
  <2> SUFFICES ASSUME Book, Held, Once, NEW t \in Trades
               PROVE  delivered[t] <= 1 + Cardinality(DisputesOf(t)) + (IF t \in foreign THEN 1 ELSE 0)
    BY DEF DeliveredOnce
  <2>1. /\ delivered[t] \in Nat /\ paid[t] \in Nat /\ paid[t] <= 1
        /\ Cardinality(DisputesOf(t)) \in Nat
    BY ReopeningsType DEF Once, PaidOnce, Held, Granted, Reopenings
  <2>2. CASE t \in foreign
    <3>1. delivered[t] - paid[t] <= Cardinality(DisputesOf(t)) + 1
      BY DEF Once, VerifiedOnce, Reopenings
    <3> QED BY <2>1, <2>2, <3>1
  <2>3. CASE t \notin foreign
    <3>1. delivered[t] <= Cardinality(DisputesOf(t)) + 1
      BY <2>3 DEF Once, OpenedOnce, Reopenings
    <3> QED BY <2>1, <2>3, <3>1
  <2> QED BY <2>2, <2>3
<1> QED
  BY <1>1, BookInit, BookStep, HeldInit, HeldStep, OnceInit, OnceStep, PTL DEF Spec

-----------------------------------------------------------------------------
(* Escrows, wallets and units *)

\* What an existing trade is about.
LEMMA TradeFacts ==
  ASSUME Book, NEW t \in Trades, Exists(t)
  PROVE  /\ trade[t] \in TradeRow /\ trade[t].listing \in Listings
         /\ Buyer(t) \in Investors /\ SellerOf(t) \in Investors
         /\ Size[trade[t].listing] \in Nat \ {0} /\ Amount(t) \in Nat
<1>1. trade[t] \in TradeRow
  BY DEF Book, Tables, Exists, NoTrade, None
<1>2. trade[t].listing \in Listings /\ trade[t].buyer \in Investors
  BY <1>1 DEF TradeRow
<1>3. Size[trade[t].listing] \in Nat \ {0} /\ Price \in Nat /\ Seller[trade[t].listing] \in Investors
  BY <1>2
<1>4. \A m, n \in Nat : m * n \in Nat
  OBVIOUS
<1> QED BY <1>1, <1>2, <1>3, <1>4 DEF Buyer, SellerOf, Amount, Cost

\* They do not change under it.
LEMMA TradeFactsKept ==
  ASSUME Book, [Next]_vars, NEW t \in Trades, Exists(t)
  PROVE  /\ Exists(t)' /\ Buyer(t)' = Buyer(t) /\ SellerOf(t)' = SellerOf(t) /\ Amount(t)' = Amount(t)
         /\ trade'[t].listing = trade[t].listing
  BY TradesStep DEF TradesKept, Buyer, SellerOf, Amount, Cost

\* The trades that the two mutexes are about.
LEMMA HeldTrades ==
  ASSUME Book
  PROVE  /\ settler.pc # "IDLE" => settler.trade \in Trades /\ Exists(settler.trade)
         /\ resolver.pc # "IDLE" =>
              LET t == dispute[resolver.dispute].trade IN t \in Trades /\ Exists(t)
         /\ \A d \in Disputes : dispute[d].status # None =>
              dispute[d].trade \in Trades /\ Exists(dispute[d].trade)
         /\ \A t \in Trades : txn[t].pc # "IDLE" => Exists(t)
  BY DEF Book, References, Idle

Disputed(t) ==
  \E d \in Disputes : dispute[d].status # None /\ dispute[d].trade = t /\ dispute[d].kind = "TRADE"

\* A trade that is disputed as such has an escrow.
Escrows ==
  /\ escrow \in [Trades -> {None, "LOCKED", "DISPUTED", "FROZEN", "RELEASED", "REFUNDED"}]
  /\ \A t \in Trades : ~Exists(t) => escrow[t] = None
  /\ \A t \in Trades : Disputed(t) => escrow[t] # None

LEMMA EscrowsInit == Init => Escrows
  BY DEF Init, Escrows, Disputed, None

LEMMA EscrowsStep == Book /\ Escrows /\ [Next]_vars => Escrows'
<1> SUFFICES ASSUME Book, Escrows, [Next]_vars PROVE Escrows'
  OBVIOUS
<1>1. \A t \in Trades : ~Exists(t)' => ~Exists(t)
  BY TradesStep DEF TradesKept
<1>2. ASSUME \A t \in Trades : Disputed(t)' => Disputed(t), UNCHANGED escrow PROVE Escrows'
  BY <1>1, <1>2 DEF Escrows
<1>3. CASE UNCHANGED <<dispute, escrow>>
  BY <1>2, <1>3 DEF Disputed
<1>4. ASSUME NEW t \in Trades, Exists(t)',
             NEW status \in {"LOCKED", "DISPUTED", "FROZEN", "RELEASED", "REFUNDED"},
             escrow' = [escrow EXCEPT ![t] = status],
             \A u \in Trades : u # t /\ Disputed(u)' => Disputed(u)
      PROVE  Escrows'
  BY <1>1, <1>4 DEF Escrows, None
\* An outcome leaves a dispute's trade and kind alone.
<1>5. ASSUME NEW d \in Disputes, dispute[d].status # None,
             NEW status \in Terminal \cup {"OPEN", "UNDER_REVIEW", "FROZEN"},
             dispute' = [dispute EXCEPT ![d].status = status]
      PROVE  \A t : Disputed(t)' => Disputed(t)
  <2>1. /\ \A e \in Disputes : e # d => dispute'[e] = dispute[e]
        /\ dispute'[d].trade = dispute[d].trade /\ dispute'[d].kind = dispute[d].kind
    BY <1>5, StatusKeepsDisputes
  <2> QED BY <1>5, <2>1 DEF Disputed
<1>6. ASSUME NEW t \in Trades, NEW l \in Listings, NEW b \in Investors, ExecuteTrade(t, l, b)
      PROVE  Escrows'
  <2>1. Exists(t)'
    BY <1>6 DEF ExecuteTrade, Exists, Book, Tables, None
  <2> QED BY <1>4, <1>6, <2>1 DEF ExecuteTrade, CreateEscrow, disputeVars, Disputed
<1>7. ASSUME NEW t \in Trades, Exists(t), Pay(t), \A u \in Trades : Disputed(u)' => Disputed(u)
      PROVE  Escrows'
  <2>1. CASE escrow[t] = None
    BY <1>2, <1>7, <2>1 DEF Pay
  <2>2. CASE escrow[t] # None
    BY <1>4, <1>7, <2>2, TradesStep DEF Pay, TradesKept
  <2> QED BY <2>1, <2>2
<1>8. CASE SettleCommit
  BY <1>7, <1>8, HeldTrades DEF SettleCommit, disputeVars, Disputed
<1>9. CASE ResolveCommit
  <2>1. resolver.dispute \in Disputes /\ dispute[resolver.dispute].status # None
    BY <1>9 DEF ResolveCommit, Book, References, Idle
  <2> QED BY <1>5, <1>7, <1>9, <2>1, HeldTrades DEF ResolveCommit, Terminal
<1>10. ASSUME NEW d \in Disputes, NEW kind \in {"TRADE", "OTHER"}, DisputeCommit(d, kind)
       PROVE  Escrows'
  <2> PICK t \in Trades : t = opening[d]
    BY <1>10 DEF DisputeCommit, Book, References
  <2>1. Exists(t)'
    BY <1>10, TradesStep DEF DisputeCommit, Book, References, TradesKept
  <2> DEFINE new == [status |-> "OPEN", trade |-> t, kind |-> kind]
  <2>2. dispute' = [dispute EXCEPT ![d] = new] /\ new.trade = t /\ new.kind = kind
    BY <1>10 DEF DisputeCommit
  <2> HIDE DEF new
  <2>3. dispute'[d] = new /\ \A e \in Disputes : e # d => dispute'[e] = dispute[e]
    BY <2>2 DEF Book, Tables
  <2>4. CASE kind = "OTHER"
    <3>1. \A u : Disputed(u)' => Disputed(u)
      BY <2>2, <2>3, <2>4 DEF Disputed
    <3> QED BY <1>2, <1>10, <2>4, <3>1 DEF DisputeCommit
  <2>5. CASE kind = "TRADE"
    <3>1. \A u : u # t /\ Disputed(u)' => Disputed(u)
      BY <2>2, <2>3 DEF Disputed
    <3> QED BY <1>4, <1>10, <2>1, <2>5, <3>1 DEF DisputeCommit, DisputeEscrow
  <2> QED BY <2>4, <2>5
<1>11. ASSUME NEW d \in Disputes, NEW outcome \in Terminal \cup {"UNDER_REVIEW", "FROZEN"},
              ResolveOther(d, outcome)
       PROVE  Escrows'
  BY <1>2, <1>5, <1>11 DEF ResolveOther, Resolvable
<1>12. ASSUME NEW d \in Disputes, ResolveForBuyer(d) \/ ResolveFrozen(d)
       PROVE  Escrows'
  <2>1. dispute[d].status # None
    BY <1>12 DEF ResolveForBuyer, ResolveFrozen, Resolvable
  <2> PICK t \in Trades : t = dispute[d].trade /\ Exists(t)'
    BY <2>1, HeldTrades, TradesStep DEF TradesKept
  <2>2. \A u : Disputed(u)' => Disputed(u)
    BY <1>5, <1>12, <2>1 DEF ResolveForBuyer, ResolveFrozen, Terminal
  <2> QED BY <1>4, <1>12, <2>2 DEF ResolveForBuyer, ResolveFrozen, RefundEscrowByTradeId, FreezeEscrow
<1> QED
  BY <1>3, <1>6, <1>8, <1>9, <1>10, <1>11, <1>12 DEF Next, ListingStep, DeskStep, BuyerStep,
     SettleStep, DisputeStep, ResolveStep, PrepareRead, PrepareCommit, ConfirmRead, ConfirmSave,
     CancelListing, ListOnChain, CancelOnChain, CreateTradeIntent, SignPurchase, MinePurchase,
     SubmitOnChainTransaction, VerifyOpen, VerifyCommit, SettleRead, SettleRelease, SettleOpen,
     SettleFails, DisputeRead, DisputeAbort, ResolveRelease, ResolveOpen, ResolveFails,
     disputeVars, vars

\* No wallet's available balance goes below zero.
Wallets ==
  /\ available \in [Investors -> Nat]
  /\ locked \in [Investors -> Int]
  /\ refunded \in [Trades -> Nat]

LEMMA WalletsInit == Init => Wallets
  BY DEF Init, Wallets

LEMMA WalletsStep == Book /\ Wallets /\ [Next]_vars => Wallets'
<1> SUFFICES ASSUME Book, Wallets, [Next]_vars PROVE Wallets'
  OBVIOUS
<1>1. CASE UNCHANGED <<available, locked, refunded>>
  BY <1>1 DEF Wallets
<1>2. ASSUME NEW t \in Trades, NEW l \in Listings, NEW b \in Investors, ExecuteTrade(t, l, b)
      PROVE  Wallets'
  <2>1. Cost(l) \in Nat
    <3>1. Size[l] \in Nat /\ Price \in Nat
      OBVIOUS
    <3>2. \A m, n \in Nat : m * n \in Nat
      OBVIOUS
    <3> QED BY <3>1, <3>2 DEF Cost
  <2> DEFINE n == Cost(l)
  <2>2. /\ available[b] >= n
        /\ available' = [available EXCEPT ![b] = @ - n]
        /\ locked' = [locked EXCEPT ![b] = @ + n]
        /\ UNCHANGED refunded
    BY <1>2 DEF ExecuteTrade, CreateEscrow, LockFunds, ghostVars
  <2> HIDE DEF n
  <2> n \in Nat
    BY <2>1 DEF n
  <2> QED BY <2>2 DEF Wallets
<1>3. ASSUME NEW t \in Trades, Exists(t), Pay(t), UNCHANGED refunded
      PROVE  Wallets'
  <2> DEFINE n == Amount(t)
  <2>1. n \in Nat /\ SellerOf(t) \in Investors /\ Buyer(t) \in Investors
    BY <1>3, TradeFacts
  <2>2. /\ available' = [available EXCEPT ![SellerOf(t)] = @ + n]
        /\ \/ UNCHANGED locked
           \/ locked' = [locked EXCEPT ![Buyer(t)] = @ - n]
    BY <1>3 DEF Pay, TransferLockedToAvailable
  <2> HIDE DEF n
  <2> QED BY <1>3, <2>1, <2>2 DEF Wallets
<1>4. ASSUME NEW d \in Disputes, ResolveForBuyer(d) PROVE Wallets'
  <2> PICK t \in Trades : t = dispute[d].trade /\ Exists(t)
    BY <1>4, HeldTrades DEF ResolveForBuyer, Resolvable
  <2> DEFINE n == Amount(t)
  <2>1. n \in Nat /\ Buyer(t) \in Investors
    BY TradeFacts
  <2>2. /\ available' = [available EXCEPT ![Buyer(t)] = @ + n]
        /\ locked' = [locked EXCEPT ![Buyer(t)] = @ - n]
        /\ refunded' = [refunded EXCEPT ![t] = @ + 1]
    BY <1>4 DEF ResolveForBuyer, RefundEscrowByTradeId, UnlockFunds
  <2> HIDE DEF n
  <2> QED BY <2>1, <2>2 DEF Wallets
<1>5. CASE SettleCommit
  BY <1>3, <1>5, HeldTrades DEF SettleCommit
<1>6. CASE ResolveCommit
  BY <1>3, <1>6, HeldTrades DEF ResolveCommit
<1> QED
  BY <1>1, <1>2, <1>4, <1>5, <1>6 DEF Next, ListingStep, DeskStep, BuyerStep,
     SettleStep, DisputeStep, ResolveStep, PrepareRead, PrepareCommit, ConfirmRead, ConfirmSave,
     CancelListing, ListOnChain, CancelOnChain, CreateTradeIntent, SignPurchase, MinePurchase,
     SubmitOnChainTransaction, VerifyOpen, VerifyCommit, SettleRead, SettleRelease, SettleOpen,
     SettleFails, DisputeRead, DisputeCommit, DisputeAbort, ResolveOther, ResolveFrozen,
     ResolveRelease, ResolveOpen, ResolveFails, walletVars, ghostVars, vars

\* A settling transaction has read enough of the seller's units.
Units ==
  /\ units \in [Investors -> Nat]
  /\ \A t \in Trades : txn[t] # Idle =>
       /\ txn[t] \in [pc : {"SETTLE", "VERIFY", "RESOLVE"}, seller : Nat, buyer : Nat]
       /\ txn[t].seller >= Size[trade[t].listing]

LEMMA UnitsInit == Init => Units
  BY DEF Init, Units

LEMMA UnitsStep == Book /\ Units /\ [Next]_vars => Units'
<1> SUFFICES ASSUME Book, Units, [Next]_vars PROVE Units'
  OBVIOUS
<1>1. \A t \in Trades : txn[t] # Idle => trade'[t].listing = trade[t].listing
  BY TradesStep DEF Book, References, TradesKept
<1>2. ASSUME units' \in [Investors -> Nat], NEW t \in Trades, \A u \in Trades : u # t => txn'[u] = txn[u],
             txn'[t] \in {txn[t], Idle}
      PROVE  Units'
  BY <1>1, <1>2 DEF Units
<1>3. CASE UNCHANGED <<units, txn>>
  BY <1>1, <1>3 DEF Units
<1>4. ASSUME NEW t \in Trades, Exists(t), NEW kind \in {"SETTLE", "VERIFY", "RESOLVE"}, Open(t, kind),
             UNCHANGED <<units, trade>>
      PROVE  Units'
  <2>1. SellerOf(t) \in Investors /\ Buyer(t) \in Investors
    BY <1>4, TradeFacts
  <2> DEFINE new == [pc |-> kind, seller |-> units[SellerOf(t)], buyer |-> units[Buyer(t)]]
  <2>2. /\ new \in [pc : {"SETTLE", "VERIFY", "RESOLVE"}, seller : Nat, buyer : Nat]
        /\ new.seller >= Size[trade[t].listing]
    BY <1>4, <2>1 DEF Open, Units
  <2>3. txn' = [txn EXCEPT ![t] = new]
    BY <1>4 DEF Open
  <2> HIDE DEF new
  <2>4. txn'[t] = new /\ \A u \in Trades : u # t => txn'[u] = txn[u]
    BY <2>3 DEF Book, Tables
  <2> QED BY <1>4, <2>2, <2>4 DEF Units
<1>5. ASSUME NEW t \in Trades, txn[t].pc # "IDLE", MoveUnits(t), txn' = [txn EXCEPT ![t] = Idle]
      PROVE  Units'
  <2>1. Exists(t)
    BY <1>5, HeldTrades
  <2>2. SellerOf(t) \in Investors /\ Buyer(t) \in Investors /\ Size[trade[t].listing] \in Nat
    BY <2>1, TradeFacts
  <2>3. /\ txn[t].seller \in Nat /\ txn[t].buyer \in Nat
        /\ txn[t].seller >= Size[trade[t].listing]
    BY <1>5 DEF Units, Idle
  <2>4. units' \in [Investors -> Nat]
    <3> DEFINE n == Size[trade[t].listing]
               seller == SellerOf(t)
               buyer == Buyer(t)
               a == txn[t].seller
               b == txn[t].buyer
    <3>1. units' = [i \in Investors |->
                     CASE i = seller /\ i = buyer -> a
                       [] i = seller /\ i # buyer -> a - n
                       [] i # seller /\ i = buyer -> b + n
                       [] OTHER -> units[i]]
      BY <1>5 DEF MoveUnits
    <3>2. seller \in Investors /\ buyer \in Investors /\ a \in Nat /\ b \in Nat /\ n \in Nat /\ a >= n
      BY <2>2, <2>3
    <3> HIDE DEF n, seller, buyer, a, b
    <3>3. a - n \in Nat /\ b + n \in Nat
      BY <3>2
    <3> QED BY <3>1, <3>2, <3>3 DEF Units
  <2>5. txn'[t] = Idle /\ \A u \in Trades : u # t => txn'[u] = txn[u]
    BY <1>5 DEF Book, Tables
  <2> QED BY <1>2, <2>4, <2>5
<1>6. ASSUME NEW t \in Trades, VerifyOpen(t) PROVE Units'
  BY <1>4, <1>6 DEF VerifyOpen, marketVars
<1>7. CASE SettleOpen
  BY <1>4, <1>7, HeldTrades DEF SettleOpen, marketVars
<1>8. CASE ResolveOpen
  BY <1>4, <1>8, HeldTrades DEF ResolveOpen, marketVars
<1>9. ASSUME NEW t \in Trades, VerifyCommit(t) PROVE Units'
  BY <1>5, <1>9 DEF VerifyCommit
<1>10. CASE SettleCommit
  BY <1>5, <1>10, HeldTrades DEF SettleCommit
<1>11. CASE ResolveCommit
  BY <1>5, <1>11, HeldTrades DEF ResolveCommit
<1> QED
  BY <1>3, <1>6, <1>7, <1>8, <1>9, <1>10, <1>11 DEF Next, ListingStep, DeskStep, BuyerStep,
     SettleStep, DisputeStep, ResolveStep, PrepareRead, PrepareCommit, ConfirmRead, ConfirmSave,
     CancelListing, ListOnChain, CancelOnChain, CreateTradeIntent, ExecuteTrade, SignPurchase,
     MinePurchase, SubmitOnChainTransaction, SettleRead, SettleRelease, SettleFails, DisputeRead,
     DisputeCommit, DisputeAbort, ResolveOther, ResolveForBuyer, ResolveFrozen, ResolveRelease,
     ResolveFails, vars

\* The listings, and who holds their mutex.
Desk ==
  /\ listing \in [Listings -> {None, "PENDING", "ACTIVE", "SOLD", "DELETED"}]
  /\ \/ desk = Idle
     \/ desk \in [pc : {"PREPARING"}, listing : Listings, owned : Nat]
     \/ desk \in [pc : {"CONFIRMING"}, listing : Listings]

LEMMA DeskInit == Init => Desk
  BY DEF Init, Desk

LEMMA DeskKept == Units /\ Desk /\ [Next]_vars => Desk'
<1> SUFFICES ASSUME Units, Desk, [Next]_vars PROVE Desk'
  OBVIOUS
<1>1. CASE UNCHANGED <<listing, desk>>
  BY <1>1 DEF Desk
<1>2. ASSUME NEW l, NEW status \in {"PENDING", "ACTIVE", "SOLD", "DELETED"},
             listing' = [listing EXCEPT ![l] = status], desk' \in {desk, Idle}
      PROVE  Desk'
  BY <1>2 DEF Desk
<1>3. ASSUME NEW l \in Listings, PrepareRead(l) PROVE Desk'
  <2>1. units[Seller[l]] \in Nat
    BY DEF Units
  <2> QED BY <1>3, <2>1 DEF PrepareRead, marketVars, Desk
<1>4. ASSUME NEW old \in SUBSET Listings, PrepareCommit(old) PROVE Desk'
  <2>1. listing' \in [Listings -> {None, "PENDING", "ACTIVE", "SOLD", "DELETED"}]
    BY <1>4 DEF PrepareCommit, Desk
  <2> QED BY <1>4, <2>1 DEF PrepareCommit, Desk
<1>5. ASSUME NEW l \in Listings, ConfirmRead(l) PROVE Desk'
  BY <1>5 DEF ConfirmRead, marketVars, Desk
<1> QED
  BY <1>1, <1>2, <1>3, <1>4, <1>5 DEF Next, ListingStep, DeskStep, BuyerStep, SettleStep,
     DisputeStep, ResolveStep, ConfirmSave, CancelListing, ListOnChain, CancelOnChain,
     CreateTradeIntent, ExecuteTrade, SignPurchase, MinePurchase, SubmitOnChainTransaction,
     VerifyOpen, VerifyCommit, Complete, SettleRead, SettleRelease, SettleOpen, SettleCommit,
     SettleFails, DisputeRead, DisputeCommit, DisputeAbort, ResolveOther, ResolveForBuyer,
     ResolveFrozen, ResolveRelease, ResolveOpen, ResolveCommit, ResolveFails, marketVars, vars

Types == Book /\ Held /\ Escrows /\ Wallets /\ Units /\ Desk

LEMMA TypesInit == Init => Types
  BY BookInit, HeldInit, EscrowsInit, WalletsInit, UnitsInit, DeskInit DEF Types

LEMMA TypesStep == Types /\ [Next]_vars => Types'
  BY BookStep, HeldStep, EscrowsStep, WalletsStep, UnitsStep, DeskKept DEF Types

\* Every variable has its type: neither an available balance nor a count of
\* units goes below zero, whatever is bought, settled and refunded at once
\* (lockFunds; removeUnits, whose transaction reads the units it takes).
THEOREM MarketTypes == Spec => []TypeInv
<1>1. Types => TypeInv
  <2> SUFFICES ASSUME Types PROVE TypeInv
    OBVIOUS
  <2> USE DEF Types
  <2>1. \A t \in Trades : Exists(t) => trade[t] \in TradeRow
    BY TradeFacts
  <2>2. /\ desk.pc \in {"IDLE", "PREPARING", "CONFIRMING"}
        /\ listing \in [Listings -> {None, "PENDING", "ACTIVE", "SOLD", "DELETED"}]
    BY DEF Desk, Idle
  <2>3. /\ settler.pc \in {"IDLE", "CHAIN", "PAY"}
        /\ resolver.pc \in {"IDLE", "PAY"}
    BY DEF Book, Tables, Idle
  <2>4. \A t \in Trades : txn[t].pc \in {"IDLE", "SETTLE", "VERIFY", "RESOLVE"}
    BY DEF Units, Idle
  <2>5. \A d \in Disputes : dispute[d].status # None => Exists(dispute[d].trade)
    BY HeldTrades
  <2> QED
    BY <2>1, <2>2, <2>3, <2>4, <2>5
    DEF TypeInv, TradeRow, Book, Tables, Held, Granted, Escrows, Wallets, Units
<1> QED BY <1>1, TypesInit, TypesStep, PTL DEF Spec

-----------------------------------------------------------------------------
(* Money *)

LEMMA SumOfTrades ==
  ASSUME NEW f \in [Trades -> Int]
  PROVE  SumFunction(f) \in Int
  BY SumInt DEF SumFunction

LEMMA SumOfTradesChange ==
  ASSUME NEW f \in [Trades -> Int], NEW g \in [Trades -> Int], NEW t \in Trades,
         \A u \in Trades \ {t} : g[u] = f[u]
  PROVE  SumFunction(g) = SumFunction(f) + g[t] - f[t]
  BY SumChange DEF SumFunction

PaidTo(i) == [t \in Trades |-> IF paid[t] > 0 /\ SellerOf(t) = i THEN Amount(t) ELSE 0]
SpentBy(i) ==
  [t \in Trades |-> IF paid[t] > 0 /\ escrow[t] # None /\ Buyer(t) = i THEN Amount(t) ELSE 0]

LEMMA PaymentsAreNumbers ==
  ASSUME Types, NEW i
  PROVE  PaidTo(i) \in [Trades -> Int] /\ SpentBy(i) \in [Trades -> Int]
<1>1. \A t \in Trades : paid[t] > 0 => Exists(t)
  BY DEF Types, Held, Granted, HasTokens
<1>2. \A t \in Trades : paid[t] > 0 => Amount(t) \in Int
  BY <1>1, TradeFacts DEF Types
<1> QED BY <1>2 DEF PaidTo, SpentBy

\* A step pays nobody if it leaves what is paid, and who has an escrow, alone.
LEMMA NothingPaid ==
  ASSUME Types, [Next]_vars, UNCHANGED paid,
         \A t \in Trades : Exists(t) => (escrow'[t] = None <=> escrow[t] = None),
         NEW i
  PROVE  Paid(i)' = Paid(i) /\ Spent(i)' = Spent(i)
<1>1. \A t \in Trades : paid[t] > 0 => Exists(t)
  BY DEF Types, Held, Granted, HasTokens
<1>2. \A t \in Trades : paid[t] > 0 => /\ Buyer(t)' = Buyer(t) /\ SellerOf(t)' = SellerOf(t)
                                       /\ Amount(t)' = Amount(t)
  BY <1>1, TradeFactsKept DEF Types
<1>3. PaidTo(i)' = PaidTo(i) /\ SpentBy(i)' = SpentBy(i)
  BY <1>1, <1>2 DEF PaidTo, SpentBy
<1> QED BY <1>3 DEF Paid, Spent, PaidTo, SpentBy

\* A payment counts once, for the seller it was credited to and, if there was an
\* escrow, for the buyer.
LEMMA OnePaid ==
  ASSUME Types, [Next]_vars, NEW t \in Trades, Exists(t), paid[t] = 0, paid' = [paid EXCEPT ![t] = @ + 1],
         \A u \in Trades : escrow'[u] = None <=> escrow[u] = None,
         NEW i
  PROVE  /\ Paid(i)' = Paid(i) + (IF SellerOf(t) = i THEN Amount(t) ELSE 0)
         /\ Spent(i)' = Spent(i) + (IF escrow[t] # None /\ Buyer(t) = i THEN Amount(t) ELSE 0)
<1>1. \A u \in Trades : paid[u] > 0 => Exists(u)
  BY DEF Types, Held, Granted, HasTokens
<1>2. \A u \in Trades : u = t \/ paid[u] > 0 =>
        /\ Buyer(u)' = Buyer(u) /\ SellerOf(u)' = SellerOf(u) /\ Amount(u)' = Amount(u)
  BY <1>1, TradeFactsKept DEF Types
<1>3. paid'[t] = 1 /\ \A u \in Trades : u # t => paid'[u] = paid[u]
  BY DEF Types, Held, Granted
<1>4. Amount(t) \in Int
  BY TradeFacts DEF Types
<1>5. /\ PaidTo(i) \in [Trades -> Int] /\ SpentBy(i) \in [Trades -> Int]
      /\ PaidTo(i)' \in [Trades -> Int] /\ SpentBy(i)' \in [Trades -> Int]
  <2>1. \A u \in Trades : paid'[u] > 0 => Amount(u)' \in Int
    <3>1. \A u \in Trades : paid[u] > 0 => Amount(u) \in Int
      BY <1>1, TradeFacts DEF Types
    <3> QED BY <1>2, <1>3, <1>4, <3>1
  <2> QED BY <2>1, PaymentsAreNumbers DEF PaidTo, SpentBy
<1>6. /\ \A u \in Trades \ {t} : PaidTo(i)'[u] = PaidTo(i)[u] /\ SpentBy(i)'[u] = SpentBy(i)[u]
      /\ PaidTo(i)[t] = 0 /\ SpentBy(i)[t] = 0
      /\ PaidTo(i)'[t] = IF SellerOf(t) = i THEN Amount(t) ELSE 0
      /\ SpentBy(i)'[t] = IF escrow[t] # None /\ Buyer(t) = i THEN Amount(t) ELSE 0
  BY <1>2, <1>3 DEF PaidTo, SpentBy
<1>7. /\ Paid(i)' = Paid(i) + PaidTo(i)'[t] - PaidTo(i)[t]
      /\ Spent(i)' = Spent(i) + SpentBy(i)'[t] - SpentBy(i)[t]
  <2>1. /\ SumFunction(PaidTo(i)') = SumFunction(PaidTo(i)) + PaidTo(i)'[t] - PaidTo(i)[t]
        /\ SumFunction(SpentBy(i)') = SumFunction(SpentBy(i)) + SpentBy(i)'[t] - SpentBy(i)[t]
    BY <1>5, <1>6, SumOfTradesChange
  <2> QED BY <2>1 DEF Paid, Spent, PaidTo, SpentBy
<1>8. Paid(i) \in Int /\ Spent(i) \in Int
  BY <1>5, SumOfTrades DEF Paid, Spent, PaidTo, SpentBy
<1> QED BY <1>4, <1>6, <1>7, <1>8

Money(i) == available[i] + locked[i] = Funds[i] + Paid(i) - Spent(i)

LEMMA MoneyInit == Init => \A i \in Investors : Money(i)
<1> SUFFICES ASSUME Init, NEW i \in Investors PROVE Money(i)
  OBVIOUS
<1>1. Paid(i) = 0 /\ Spent(i) = 0
  <2>1. /\ SumFunction(PaidTo(i)) = 0
        /\ SumFunction(SpentBy(i)) = 0
    BY SumZero DEF Init, PaidTo, SpentBy, SumFunction
  <2> QED BY <2>1 DEF Paid, Spent, PaidTo, SpentBy
<1> QED BY <1>1 DEF Init, Money

LEMMA MoneyStep ==
  Types /\ Once /\ (\A i \in Investors : Money(i)) /\ [Next]_vars => \A i \in Investors : Money(i)'
<1> SUFFICES ASSUME Types, Once, [Next]_vars, NEW i \in Investors, Money(i) PROVE Money(i)'
  OBVIOUS
<1> available \in [Investors -> Nat] /\ locked \in [Investors -> Int] /\ Funds \in [Investors -> Nat]
  BY DEF Types, Wallets
<1>0. Paid(i) \in Int /\ Spent(i) \in Int
  BY PaymentsAreNumbers, SumOfTrades DEF Paid, Spent, PaidTo, SpentBy
\* The investor's total, if nobody is paid.
<1>1. ASSUME UNCHANGED paid, \A t \in Trades : Exists(t) => (escrow'[t] = None <=> escrow[t] = None),
             available'[i] + locked'[i] = available[i] + locked[i]
      PROVE  Money(i)'
  BY <1>1, NothingPaid DEF Money
<1>2. CASE UNCHANGED <<available, locked, paid>> /\ UNCHANGED escrow
  BY <1>1, <1>2
<1>3. ASSUME NEW t \in Trades, NEW l \in Listings, NEW b \in Investors, ExecuteTrade(t, l, b)
      PROVE  Money(i)'
  <2> DEFINE n == Cost(l)
  <2>1. n \in Nat
    <3>1. \A x, y \in Nat : x * y \in Nat
      OBVIOUS
    <3> QED BY <3>1 DEF Cost
  <2>2. /\ available' = [available EXCEPT ![b] = @ - n]
        /\ locked' = [locked EXCEPT ![b] = @ + n]
        /\ escrow' = [escrow EXCEPT ![t] = "LOCKED"]
        /\ ~Exists(t) /\ UNCHANGED paid
    BY <1>3 DEF ExecuteTrade, CreateEscrow, LockFunds, ghostVars
  <2> HIDE DEF n
  <2>3. available'[i] + locked'[i] = available[i] + locked[i]
    BY <2>1, <2>2
  <2>4. \A u \in Trades : Exists(u) => escrow'[u] = escrow[u]
    BY <2>2 DEF Types, Escrows
  <2> QED BY <1>1, <2>2, <2>3, <2>4
<1>4. ASSUME NEW t \in Trades, NEW status \in {"DISPUTED", "FROZEN", "REFUNDED"},
             escrow[t] # None, escrow' = [escrow EXCEPT ![t] = status], UNCHANGED paid,
             available'[i] + locked'[i] = available[i] + locked[i]
      PROVE  Money(i)'
  BY <1>1, <1>4 DEF Types, Escrows, None
<1>5. ASSUME NEW d \in Disputes, NEW kind \in {"TRADE", "OTHER"}, DisputeCommit(d, kind)
      PROVE  Money(i)'
  <2>1. opening[d] \in Trades /\ UNCHANGED <<available, locked, paid>>
    BY <1>5 DEF DisputeCommit, Types, Book, References, walletVars, ghostVars
  <2> QED BY <1>2, <1>4, <1>5, <2>1 DEF DisputeCommit, DisputeEscrow
<1>6. ASSUME NEW d \in Disputes, ResolveForBuyer(d) \/ ResolveFrozen(d)
      PROVE  Money(i)'
  <2> PICK t \in Trades : t = dispute[d].trade /\ Exists(t)
    BY <1>6, HeldTrades DEF ResolveForBuyer, ResolveFrozen, Resolvable, Types
  <2>1. escrow[t] # None /\ UNCHANGED paid
    <3>1. Disputed(t)
      BY <1>6 DEF ResolveForBuyer, ResolveFrozen, Resolvable, Disputed
    <3> QED BY <1>6, <3>1 DEF ResolveForBuyer, ResolveFrozen, Types, Escrows, ghostVars
  <2>2. available'[i] + locked'[i] = available[i] + locked[i]
    <3> DEFINE n == Amount(t)
    <3>1. n \in Nat /\ Buyer(t) \in Investors
      BY TradeFacts DEF Types
    <3>2. \/ UNCHANGED <<available, locked>>
          \/ /\ available' = [available EXCEPT ![Buyer(t)] = @ + n]
             /\ locked' = [locked EXCEPT ![Buyer(t)] = @ - n]
      BY <1>6 DEF ResolveForBuyer, ResolveFrozen, RefundEscrowByTradeId, UnlockFunds, walletVars
    <3> HIDE DEF n
    <3> QED BY <3>1, <3>2
  <2> QED
    BY <1>4, <1>6, <2>1, <2>2 DEF ResolveForBuyer, ResolveFrozen, RefundEscrowByTradeId, FreezeEscrow
<1>7. ASSUME NEW t \in Trades, Exists(t), paid[t] = 0, Pay(t)
      PROVE  Money(i)'
  <2> DEFINE n == Amount(t)
             a == IF SellerOf(t) = i THEN n ELSE 0
             s == IF escrow[t] # None /\ Buyer(t) = i THEN n ELSE 0
  <2>1. n \in Nat /\ SellerOf(t) \in Investors /\ Buyer(t) \in Investors
    BY <1>7, TradeFacts DEF Types
  <2>2. \A u \in Trades : escrow'[u] = None <=> escrow[u] = None
    BY <1>7 DEF Pay, Types, Escrows, None
  <2>3. Paid(i)' = Paid(i) + a /\ Spent(i)' = Spent(i) + s
    BY <1>7, <2>2, OnePaid DEF Pay
  <2>4. /\ available' = [available EXCEPT ![SellerOf(t)] = @ + n]
        /\ \/ escrow[t] = None /\ UNCHANGED locked
           \/ escrow[t] # None /\ locked' = [locked EXCEPT ![Buyer(t)] = @ - n]
    BY <1>7 DEF Pay, TransferLockedToAvailable
  <2> HIDE DEF n
  <2>5. available'[i] = available[i] + a /\ locked'[i] = locked[i] - s
    BY <2>1, <2>4
  <2>6. a \in Nat /\ s \in Nat
    BY <2>1
  <2> HIDE DEF a, s
  <2> QED BY <1>0, <2>3, <2>5, <2>6 DEF Money
<1>8. CASE SettleCommit
  <2>1. settler.trade \in Trades /\ Exists(settler.trade) /\ paid[settler.trade] = 0
    BY <1>8, HeldTrades DEF SettleCommit, Types, Once, PaidOnce
  <2> QED BY <1>7, <1>8, <2>1 DEF SettleCommit
<1>9. CASE ResolveCommit
  <2> DEFINE t == dispute[resolver.dispute].trade
  <2>1. t \in Trades /\ Exists(t) /\ paid[t] = 0 /\ Pay(t)
    BY <1>9, HeldTrades DEF ResolveCommit, Types, Once, PaidOnce
  <2> HIDE DEF t
  <2> QED BY <1>7, <2>1
<1> QED
  BY <1>2, <1>3, <1>5, <1>6, <1>8, <1>9 DEF Next, ListingStep, DeskStep, BuyerStep,
     SettleStep, DisputeStep, ResolveStep, PrepareRead, PrepareCommit, ConfirmRead, ConfirmSave,
     CancelListing, ListOnChain, CancelOnChain, CreateTradeIntent, SignPurchase, MinePurchase,
     SubmitOnChainTransaction, VerifyOpen, VerifyCommit, SettleRead, SettleRelease, SettleOpen,
     SettleFails, DisputeRead, DisputeAbort, ResolveOther, ResolveRelease, ResolveOpen,
     ResolveFails, walletVars, ghostVars, vars

\* Each investor's money is what it had, with what it was paid and without what
\* its escrows paid, for any listings, trades and disputes: no lock, refund,
\* freeze or release in any order loses or makes any (lockFunds, unlockFunds,
\* transferLockedToAvailable, creditAvailable).
THEOREM MarketMoney == Spec => []MoneyFollowsTrades
<1>1. (\A i \in Investors : Money(i)) <=> MoneyFollowsTrades
  BY DEF Money, MoneyFollowsTrades
<1>2. MoneyFollowsTrades /\ Types /\ Once /\ [Next]_vars => MoneyFollowsTrades'
  <2>1. (\A i \in Investors : Money(i)') => MoneyFollowsTrades'
    BY DEF Money, MoneyFollowsTrades
  <2> QED BY <1>1, <2>1, MoneyStep
<1>3. Types /\ Once /\ [Next]_vars => (Types /\ Once)'
  BY TypesStep, OnceStep DEF Types
<1>4. Init => Types /\ Once /\ MoneyFollowsTrades
  BY <1>1, TypesInit, OnceInit, MoneyInit
<1> QED BY <1>2, <1>3, <1>4, PTL DEF Spec

-----------------------------------------------------------------------------
(* Units *)

\* A transaction that pays is that of a mutex.
Owners ==
  \A t \in Trades :
    /\ txn[t].pc = "SETTLE" => settler.pc = "PAY" /\ settler.trade = t
    /\ txn[t].pc = "RESOLVE" => resolver.pc = "PAY" /\ dispute[resolver.dispute].trade = t

LEMMA OwnersInit == Init => Owners
  BY DEF Init, Owners, Idle

LEMMA OwnersStep == Book /\ Owners /\ [Next]_vars => Owners'
<1> SUFFICES ASSUME Book, Owners, [Next]_vars PROVE Owners'
  OBVIOUS
<1>1. resolver # Idle => /\ resolver.dispute \in Disputes
                         /\ dispute'[resolver.dispute].trade = dispute[resolver.dispute].trade
  BY DisputesStep DEF Book, References, SameDispute
<1>2. Idle.pc = "IDLE"
  BY DEF Idle
<1>3. CASE UNCHANGED <<txn, settler, resolver>>
  BY <1>1, <1>2, <1>3 DEF Owners
<1>4. ASSUME NEW t \in Trades, VerifyOpen(t) PROVE Owners'
  <2>1. txn'[t].pc = "VERIFY" /\ \A u \in Trades : u # t => txn'[u] = txn[u]
    BY <1>4 DEF VerifyOpen, Open, Book, Tables
  <2> QED BY <1>1, <1>2, <1>4, <2>1 DEF VerifyOpen, disputeVars, Owners
<1>5. ASSUME NEW t \in Trades, VerifyCommit(t) PROVE Owners'
  <2>1. txn'[t].pc = "IDLE" /\ \A u \in Trades : u # t => txn'[u] = txn[u]
    BY <1>2, <1>5 DEF VerifyCommit, Book, Tables
  <2> QED BY <1>1, <1>2, <1>5, <2>1 DEF VerifyCommit, disputeVars, Owners
<1>6. ASSUME UNCHANGED <<txn, resolver>>, \A t \in Trades : txn[t].pc # "SETTLE" PROVE Owners'
  BY <1>1, <1>2, <1>6 DEF Owners
<1>7. ASSUME UNCHANGED <<txn, settler>>, \A t \in Trades : txn[t].pc # "RESOLVE" PROVE Owners'
  BY <1>1, <1>2, <1>7 DEF Owners
<1>8. ASSUME NEW t \in Trades, SettleRead(t) PROVE Owners'
  BY <1>2, <1>6, <1>8 DEF SettleRead, disputeVars, Owners
<1>9. CASE SettleRelease
  BY <1>6, <1>9 DEF SettleRelease, disputeVars, Owners
<1>10. CASE SettleFails
  BY <1>6, <1>10 DEF SettleFails, disputeVars, Owners
<1>11. ASSUME NEW d \in Disputes, ResolveRelease(d) PROVE Owners'
  BY <1>2, <1>7, <1>11 DEF ResolveRelease, Resolvable, Owners
<1>12. CASE ResolveFails
  BY <1>7, <1>12 DEF ResolveFails, Owners
<1>13. CASE SettleOpen
  <2> PICK t \in Trades : t = settler.trade
    BY <1>2, <1>13 DEF SettleOpen, Book, References
  <2>1. txn'[t].pc = "SETTLE" /\ \A u \in Trades : u # t => txn'[u] = txn[u]
    BY <1>13 DEF SettleOpen, Open, Book, Tables
  <2> QED BY <1>1, <1>2, <1>13, <2>1 DEF SettleOpen, disputeVars, Owners
<1>14. CASE SettleCommit
  <2> PICK t \in Trades : t = settler.trade
    BY <1>2, <1>14 DEF SettleCommit, Book, References
  <2>1. txn'[t].pc = "IDLE" /\ \A u \in Trades : u # t => txn'[u] = txn[u]
    BY <1>2, <1>14 DEF SettleCommit, Book, Tables
  <2> QED BY <1>1, <1>2, <1>14, <2>1 DEF SettleCommit, disputeVars, Owners
<1>15. CASE ResolveOpen
  <2> PICK t \in Trades : t = dispute[resolver.dispute].trade
    BY <1>2, <1>15, HeldTrades DEF ResolveOpen
  <2>1. txn'[t].pc = "RESOLVE" /\ \A u \in Trades : u # t => txn'[u] = txn[u]
    BY <1>15 DEF ResolveOpen, Open, Book, Tables
  <2> QED BY <1>1, <1>2, <1>15, <2>1 DEF ResolveOpen, disputeVars, Owners
<1>16. CASE ResolveCommit
  <2> PICK t \in Trades : t = dispute[resolver.dispute].trade
    BY <1>2, <1>16, HeldTrades DEF ResolveCommit
  <2>1. txn'[t].pc = "IDLE" /\ \A u \in Trades : u # t => txn'[u] = txn[u]
    BY <1>2, <1>16 DEF ResolveCommit, Book, Tables
  <2> QED BY <1>1, <1>2, <1>16, <2>1 DEF ResolveCommit, Owners
<1> QED
  BY <1>3, <1>4, <1>5, <1>8, <1>9, <1>10, <1>11, <1>12, <1>13, <1>14, <1>15, <1>16
  DEF Next, ListingStep, DeskStep, BuyerStep, SettleStep, DisputeStep, ResolveStep, PrepareRead,
     PrepareCommit, ConfirmRead, ConfirmSave, CancelListing, ListOnChain, CancelOnChain,
     CreateTradeIntent, ExecuteTrade, SignPurchase, MinePurchase, SubmitOnChainTransaction,
     DisputeRead, DisputeCommit, DisputeAbort, ResolveOther, ResolveForBuyer, ResolveFrozen,
     disputeVars, vars

\* One listing is traded.
OneListing == \A l, m \in Listings : l = m

\* A settling transaction, but for the verification of a transaction that is not
\* the trade's.
Settling(t) == txn[t].pc # "IDLE" /\ ~(txn[t].pc = "VERIFY" /\ trade[t].hash = "OTHER")

\* Only the trade that has the tokens is being settled so, and while one listing is
\* traded two such transactions are one.
LEMMA SettledAlone ==
  ASSUME OneListing, Types, Owners, NEW t \in Trades, NEW u \in Trades, Settling(t), Settling(u)
  PROVE  t = u
<1>1. ASSUME NEW x \in Trades, Settling(x)
      PROVE  HasTokens(x) /\ trade[x].listing \in Listings
  <2>1. txn[x].pc \in {"SETTLE", "VERIFY", "RESOLVE"} /\ Exists(x)
    BY <1>1, HeldTrades DEF Settling, Types, Units, Idle
  <2>2. txn[x].pc = "VERIFY" => HasTokens(x)
    BY <1>1, <2>1 DEF Settling, Types, Held, Granted, Verified, Mined, Released
  <2>3. HasTokens(x)
    BY <1>1, <2>1, <2>2 DEF Types, Owners, Held, Released
  <2> QED BY <2>3, TradeFacts DEF HasTokens, Types
<1>2. trade[t].listing = trade[u].listing
  BY <1>1 DEF OneListing
<1> QED BY <1>1, <1>2 DEF HasTokens

LEMMA SettlingStep ==
  ASSUME Types, [Next]_vars, NEW t \in Trades, txn'[t] = txn[t], Settling(t)'
  PROVE  Settling(t)
<1>1. txn[t] # Idle /\ Exists(t)'
  BY HeldTrades, TradesStep DEF Settling, Types, TradesKept, Idle
<1>2. trade'[t].hash = trade[t].hash
  BY <1>1, HashesStep DEF Types, Held, Granted
<1> QED BY <1>2 DEF Settling

\* What a settling transaction has read is still so.
Reads ==
  \A t \in Trades : Settling(t) =>
    txn[t].seller = units[SellerOf(t)] /\ txn[t].buyer = units[Buyer(t)]

BoughtBy(i) == [t \in Trades |-> IF delivered[t] > 0 /\ Buyer(t) = i THEN Moved(t) ELSE 0]
SoldBy(i) == [t \in Trades |-> IF delivered[t] > 0 /\ SellerOf(t) = i THEN Moved(t) ELSE 0]

LEMMA MovesAreNumbers ==
  ASSUME Types, NEW i
  PROVE  BoughtBy(i) \in [Trades -> Int] /\ SoldBy(i) \in [Trades -> Int]
<1>1. \A t \in Trades : delivered[t] > 0 => Exists(t) /\ delivered[t] \in Nat
  BY DEF Types, Held, Granted
<1>2. \A t \in Trades : delivered[t] > 0 => Size[trade[t].listing] \in Nat
  BY <1>1, TradeFacts DEF Types
<1>3. \A m, n \in Nat : m * n \in Int
  OBVIOUS
<1>4. \A t \in Trades : delivered[t] > 0 => Moved(t) \in Int
  BY <1>1, <1>2, <1>3 DEF Moved
<1> QED BY <1>4 DEF BoughtBy, SoldBy

\* A step delivers nothing if it leaves the count of deliveries alone.
LEMMA NothingMoved ==
  ASSUME Types, [Next]_vars, UNCHANGED delivered, NEW i
  PROVE  Bought(i)' = Bought(i) /\ Sold(i)' = Sold(i)
<1>1. \A t \in Trades : delivered[t] > 0 => Exists(t)
  BY DEF Types, Held, Granted, HasTokens
<1>2. \A t \in Trades : delivered[t] > 0 =>
        /\ Buyer(t)' = Buyer(t) /\ SellerOf(t)' = SellerOf(t) /\ Moved(t)' = Moved(t)
  BY <1>1, TradeFactsKept DEF Types, Moved
<1>3. BoughtBy(i)' = BoughtBy(i) /\ SoldBy(i)' = SoldBy(i)
  BY <1>2 DEF BoughtBy, SoldBy
<1> QED BY <1>3 DEF Bought, Sold, BoughtBy, SoldBy

\* A delivery counts the trade's units once more.
LEMMA OneMoved ==
  ASSUME Types, [Next]_vars, NEW t \in Trades, Exists(t),
         delivered' = [delivered EXCEPT ![t] = @ + 1], NEW i
  PROVE  LET n == Size[trade[t].listing]
         IN  /\ Bought(i)' = Bought(i) + (IF Buyer(t) = i THEN n ELSE 0)
             /\ Sold(i)' = Sold(i) + (IF SellerOf(t) = i THEN n ELSE 0)
<1> DEFINE n == Size[trade[t].listing]
<1>1. \A u \in Trades : delivered[u] > 0 => Exists(u)
  BY DEF Types, Held, Granted, HasTokens
<1>2. \A u \in Trades : u = t \/ delivered[u] > 0 =>
        /\ Buyer(u)' = Buyer(u) /\ SellerOf(u)' = SellerOf(u) /\ trade'[u].listing = trade[u].listing
  BY <1>1, TradeFactsKept DEF Types
<1>3. /\ delivered[t] \in Nat /\ delivered'[t] = delivered[t] + 1
      /\ \A u \in Trades : u # t => delivered'[u] = delivered[u]
  BY DEF Types, Held, Granted
<1>4. n \in Nat
  BY TradeFacts DEF Types
<1>5. Moved(t)' = delivered[t] * n + n /\ Moved(t) = delivered[t] * n /\ Moved(t) \in Int
  <2>1. Moved(t)' = (delivered[t] + 1) * n /\ Moved(t) = delivered[t] * n
    BY <1>2, <1>3 DEF Moved
  <2>2. \A a, b \in Nat : (a + 1) * b = a * b + b /\ a * b \in Int
    OBVIOUS
  <2> HIDE DEF n
  <2> QED BY <1>3, <1>4, <2>1, <2>2
<1>6. delivered[t] = 0 => Moved(t) = 0
  <2>1. \A a \in Nat : 0 * a = 0
    OBVIOUS
  <2> QED BY <1>4, <1>5, <2>1
<1> HIDE DEF n
<1>7. BoughtBy(i) \in [Trades -> Int] /\ SoldBy(i) \in [Trades -> Int]
  BY MovesAreNumbers
<1>8. /\ \A u \in Trades \ {t} : BoughtBy(i)'[u] = BoughtBy(i)[u] /\ SoldBy(i)'[u] = SoldBy(i)[u]
      /\ BoughtBy(i)'[t] = BoughtBy(i)[t] + (IF Buyer(t) = i THEN n ELSE 0)
      /\ SoldBy(i)'[t] = SoldBy(i)[t] + (IF SellerOf(t) = i THEN n ELSE 0)
  <2>1. \A u \in Trades \ {t} : BoughtBy(i)'[u] = BoughtBy(i)[u] /\ SoldBy(i)'[u] = SoldBy(i)[u]
    BY <1>2, <1>3 DEF BoughtBy, SoldBy, Moved
  <2>2. /\ BoughtBy(i)[t] = IF Buyer(t) = i THEN Moved(t) ELSE 0
        /\ SoldBy(i)[t] = IF SellerOf(t) = i THEN Moved(t) ELSE 0
    BY <1>3, <1>6 DEF BoughtBy, SoldBy
  <2>3. /\ BoughtBy(i)'[t] = IF Buyer(t) = i THEN Moved(t)' ELSE 0
        /\ SoldBy(i)'[t] = IF SellerOf(t) = i THEN Moved(t)' ELSE 0
    BY <1>2, <1>3 DEF BoughtBy, SoldBy
  <2>4. Moved(t)' = Moved(t) + n
    BY <1>5
  <2> QED BY <1>4, <1>5, <2>1, <2>2, <2>3, <2>4
<1>9. BoughtBy(i)' \in [Trades -> Int] /\ SoldBy(i)' \in [Trades -> Int]
  BY <1>4, <1>7, <1>8 DEF BoughtBy, SoldBy
<1>10. /\ Bought(i)' = Bought(i) + BoughtBy(i)'[t] - BoughtBy(i)[t]
       /\ Sold(i)' = Sold(i) + SoldBy(i)'[t] - SoldBy(i)[t]
  <2>1. /\ SumFunction(BoughtBy(i)') = SumFunction(BoughtBy(i)) + BoughtBy(i)'[t] - BoughtBy(i)[t]
        /\ SumFunction(SoldBy(i)') = SumFunction(SoldBy(i)) + SoldBy(i)'[t] - SoldBy(i)[t]
    BY <1>7, <1>8, <1>9, SumOfTradesChange
  <2> QED BY <2>1 DEF Bought, Sold, BoughtBy, SoldBy
<1>11. /\ Bought(i) \in Int /\ Sold(i) \in Int
       /\ BoughtBy(i)[t] \in Int /\ SoldBy(i)[t] \in Int
  BY <1>7, SumOfTrades DEF Bought, Sold, BoughtBy, SoldBy
<1>12. /\ Bought(i)' = Bought(i) + (IF Buyer(t) = i THEN n ELSE 0)
       /\ Sold(i)' = Sold(i) + (IF SellerOf(t) = i THEN n ELSE 0)
  BY <1>4, <1>8, <1>10, <1>11
<1> QED BY <1>12 DEF n

Unit(i) == units[i] = Owned[i] + Bought(i) - Sold(i)

LEMMA CountInit == Init => Reads /\ \A i \in Investors : Unit(i)
<1> SUFFICES ASSUME Init PROVE Reads /\ \A i \in Investors : Unit(i)
  OBVIOUS
<1>1. ASSUME NEW i \in Investors PROVE Unit(i)
  <2>1. SumFunction(BoughtBy(i)) = 0 /\ SumFunction(SoldBy(i)) = 0
    BY SumZero DEF Init, BoughtBy, SoldBy, SumFunction
  <2>2. Bought(i) = 0 /\ Sold(i) = 0
    BY <2>1 DEF Bought, Sold, BoughtBy, SoldBy
  <2> QED BY <2>2 DEF Init, Unit
<1> QED BY <1>1 DEF Init, Reads, Settling, Idle

LEMMA CountStep ==
  ASSUME OneListing, Types, Owners, Reads, \A i \in Investors : Unit(i), [Next]_vars,
         foreign' = {}
  PROVE  Reads' /\ \A i \in Investors : Unit(i)'
<1> DEFINE Goal == Reads' /\ \A i \in Investors : Unit(i)'
<1> SUFFICES Goal
  OBVIOUS
<1> HIDE DEF Goal
<1> units \in [Investors -> Nat] /\ Owned \in [Investors -> Nat]
  BY DEF Types, Units
<1>1. \A t \in Trades : txn[t].pc # "IDLE" =>
        /\ Exists(t) /\ Buyer(t)' = Buyer(t) /\ SellerOf(t)' = SellerOf(t)
  BY HeldTrades, TradeFactsKept DEF Types
<1>2. ASSUME UNCHANGED <<units, delivered>>,
             \A t \in Trades : txn'[t].pc # "IDLE" =>
               txn'[t] = txn[t] \/ (/\ Exists(t)
                                    /\ txn'[t].seller = units[SellerOf(t)]
                                    /\ txn'[t].buyer = units[Buyer(t)])
      PROVE  Goal
  <2>1. \A i \in Investors : Unit(i)'
    BY <1>2, NothingMoved DEF Unit
  <2>2. ASSUME NEW t \in Trades, Settling(t)'
        PROVE  txn'[t].seller = units'[SellerOf(t)'] /\ txn'[t].buyer = units'[Buyer(t)']
    <3>1. CASE txn'[t] = txn[t]
      BY <1>1, <1>2, <2>2, <3>1, SettlingStep DEF Reads, Settling
    <3>2. CASE txn'[t] # txn[t]
      BY <1>2, <2>2, <3>2, TradeFactsKept DEF Types, Settling
    <3> QED BY <3>1, <3>2
  <2> QED BY <2>1, <2>2 DEF Goal, Reads
<1>3. CASE UNCHANGED <<units, delivered, txn>>
  BY <1>2, <1>3
<1>4. ASSUME NEW t \in Trades, NEW kind, Exists(t), Open(t, kind), UNCHANGED <<units, delivered>>
      PROVE  Goal
  <2>1. /\ \A u \in Trades : u # t => txn'[u] = txn[u]
        /\ txn'[t].seller = units[SellerOf(t)] /\ txn'[t].buyer = units[Buyer(t)]
    BY <1>4 DEF Open, Types, Book, Tables
  <2> QED BY <1>2, <1>4, <2>1
\* The transaction that commits is the only one, and what it has read is so.
<1>5. ASSUME NEW t \in Trades, Settling(t), MoveUnits(t), txn' = [txn EXCEPT ![t] = Idle]
      PROVE  Goal
  <2>0. txn[t].pc # "IDLE"
    BY <1>5 DEF Settling
  <2>1. \A u \in Trades : ~Settling(u)'
    <3>1. txn'[t].pc = "IDLE" /\ \A u \in Trades : u # t => txn'[u] = txn[u]
      BY <1>5 DEF Types, Book, Tables, Idle
    <3>2. ~Settling(t)'
      BY <3>1 DEF Settling
    <3> QED BY <1>5, <3>1, <3>2, SettledAlone, SettlingStep
  <2>2. ASSUME NEW i \in Investors PROVE Unit(i)'
    <3> DEFINE n == Size[trade[t].listing]
               a == IF Buyer(t) = i THEN n ELSE 0
               b == IF SellerOf(t) = i THEN n ELSE 0
    <3>1. n \in Nat /\ SellerOf(t) \in Investors /\ Buyer(t) \in Investors
      BY <1>1, <2>0, TradeFacts DEF Types
    <3>2. Bought(i)' = Bought(i) + a /\ Sold(i)' = Sold(i) + b
      BY <1>1, <1>5, <2>0, OneMoved DEF MoveUnits
    <3>3. /\ i = SellerOf(t) /\ i = Buyer(t) => units'[i] = units[i]
          /\ i = SellerOf(t) /\ i # Buyer(t) => units'[i] = units[i] - n
          /\ i # SellerOf(t) /\ i = Buyer(t) => units'[i] = units[i] + n
          /\ i # SellerOf(t) /\ i # Buyer(t) => units'[i] = units[i]
      BY <1>5 DEF MoveUnits, Reads
    <3> HIDE DEF n
    <3>4. units'[i] = units[i] + a - b
      BY <3>1, <3>3
    <3>5. a \in Nat /\ b \in Nat
      BY <3>1
    <3>6. Bought(i) \in Int /\ Sold(i) \in Int
      BY MovesAreNumbers, SumOfTrades DEF Bought, Sold, BoughtBy, SoldBy
    <3>7. Unit(i)
      OBVIOUS
    <3> HIDE DEF a, b
    <3> QED BY <3>2, <3>4, <3>5, <3>6, <3>7 DEF Unit
  <2> QED BY <2>1, <2>2 DEF Goal, Reads
<1>6. ASSUME NEW t \in Trades, VerifyOpen(t) PROVE Goal
  BY <1>4, <1>6 DEF VerifyOpen, ghostVars
<1>7. CASE SettleOpen
  BY <1>4, <1>7, HeldTrades DEF SettleOpen, ghostVars, Types
<1>8. CASE ResolveOpen
  <2> DEFINE t == dispute[resolver.dispute].trade
  <2>1. t \in Trades /\ Exists(t) /\ Open(t, "RESOLVE") /\ UNCHANGED <<units, delivered>>
    BY <1>8, HeldTrades DEF ResolveOpen, ghostVars, Types
  <2> HIDE DEF t
  <2> QED BY <1>4, <2>1
<1>9. ASSUME NEW t \in Trades, VerifyCommit(t) PROVE Goal
  <2>1. Settling(t)
    BY <1>9 DEF VerifyCommit, Settling
  <2> QED BY <1>5, <1>9, <2>1 DEF VerifyCommit
<1>10. CASE SettleCommit
  BY <1>5, <1>10, HeldTrades DEF SettleCommit, Types, Settling
<1>11. CASE ResolveCommit
  <2> DEFINE t == dispute[resolver.dispute].trade
  <2>1. t \in Trades /\ Settling(t) /\ MoveUnits(t) /\ txn' = [txn EXCEPT ![t] = Idle]
    BY <1>11, HeldTrades DEF ResolveCommit, Types, Settling
  <2> HIDE DEF t
  <2> QED BY <1>5, <2>1
<1> QED
  BY <1>3, <1>6, <1>7, <1>8, <1>9, <1>10, <1>11 DEF Next, ListingStep, DeskStep, BuyerStep,
     SettleStep, DisputeStep, ResolveStep, PrepareRead, PrepareCommit, ConfirmRead, ConfirmSave,
     CancelListing, ListOnChain, CancelOnChain, CreateTradeIntent, ExecuteTrade, SignPurchase,
     MinePurchase, SubmitOnChainTransaction, SettleRead, SettleRelease, SettleFails, DisputeRead,
     DisputeCommit, DisputeAbort, ResolveOther, ResolveForBuyer, ResolveFrozen, ResolveRelease,
     ResolveFails, ghostVars, vars

\* Money always follows the trades; units do while one listing is traded and no
\* trade was completed on a transaction that is not its own: no ownership row is
\* written back from a read that another transaction has overtaken (removeUnits
\* and addUnits read without a lock; the tokens let one trade of a listing
\* settle).  With two listings, or with such a transaction, an update of a row
\* that two transactions have read is lost.
THEOREM MarketBooks ==
  ASSUME OneListing
  PROVE  Spec => []BooksFollowTrades
<1> DEFINE Counted == foreign = {} => Reads /\ \A i \in Investors : Unit(i)
           IInv == Types /\ Once /\ Owners /\ MoneyFollowsTrades /\ Counted
<1>1. (\A i \in Investors : Money(i)) <=> MoneyFollowsTrades
  BY DEF Money, MoneyFollowsTrades
<1>2. Init => IInv
  BY <1>1, TypesInit, OnceInit, OwnersInit, MoneyInit, CountInit
<1>3. IInv /\ [Next]_vars => IInv'
  <2> SUFFICES ASSUME IInv, [Next]_vars PROVE IInv'
    OBVIOUS
  <2>1. Types' /\ Once' /\ Owners'
    BY TypesStep, OnceStep, OwnersStep DEF Types
  <2>2. \A i \in Investors : Money(i)'
    BY <1>1, MoneyStep
  <2>3. MoneyFollowsTrades'
    BY <2>2 DEF Money, MoneyFollowsTrades
  <2>4. ASSUME foreign' = {} PROVE Reads' /\ \A i \in Investors : Unit(i)'
    <3>1. foreign = {}
      BY <2>4, ForeignStep DEF Types, Held, Granted
    <3> QED BY <2>4, <3>1, CountStep
  <2> QED BY <2>1, <2>3, <2>4
<1>4. IInv => BooksFollowTrades
  BY DEF BooksFollowTrades, UnitsFollowDeliveries, Unit
<1> HIDE DEF IInv
<1> QED BY <1>2, <1>3, <1>4, PTL DEF Spec

\* Of all the trades of a listing one is delivered: the one whose buyer has the
\* listing's tokens (settleTrade, handleFinancialResolution, verifyOnChainTrade);
\* the others are verified on a transaction that is not theirs.
THEOREM DeliveriesHaveTokens == Spec => []DeliveredHasTokens
<1>1. Book /\ Held => DeliveredHasTokens
  BY DEF Held, Granted, HasTokens, DeliveredHasTokens
<1> QED BY <1>1, BookInit, BookStep, HeldInit, HeldStep, PTL DEF Spec

\* A seller is credited as often as it has given units up at most, and never for
\* a purchase the buyer paid for on the chain (settleTrade, releaseEscrow,
\* releaseEscrowByTradeId).
THEOREM PaymentsAreDeliveries == Spec => []PaidMeansDelivered
<1>1. Book /\ Held => PaidMeansDelivered
  BY DEF Held, Granted, Released, PaidMeansDelivered
<1> QED BY <1>1, BookInit, BookStep, HeldInit, HeldStep, PTL DEF Spec
=============================================================================
