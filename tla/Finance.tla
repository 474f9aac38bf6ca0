-------------------------------- MODULE Finance --------------------------------
(* The wallets table and what is written to it by deposits, transfers and      *)
(* withdrawals: transactions with row locks, on connections of a bounded pool. *)
(* Sources: wallet/, ledger/, finance/, and the notifications they send.       *)
EXTENDS Integers, FiniteSets, Functions

CONSTANTS
  Users,
  Opened,        \* the users that have a wallets row at first
  Opening,       \* and the balance in it
  Withdrawals,   \* bound: the withdrawals ever requested
  Amounts,       \* the amounts of deposits, transfers and withdrawals
  TopUps,        \* the amounts that dummy top-ups name, negative ones too
  Minimum,       \* the least withdrawal
  Calls,         \* bound: the requests ever handled
  Pool           \* connections to the database

ASSUME FinanceAssumption ==
  /\ Opened \subseteq Users
  /\ Opening \in Nat
  /\ Amounts \subseteq Nat \ {0}
  /\ TopUps \subseteq Int
  /\ Minimum \in Nat
  /\ Pool \in Nat \ {0}
  /\ IsFiniteSet(Calls)
  /\ IsFiniteSet(Withdrawals)

VARIABLES
  wallet,       \* the wallets rows that are committed
  withdrawal,   \* the withdrawals rows that are committed
  ledger,       \* per user, credits minus debits of the committed ledger entries
  call,         \* what each request is doing
  taken,        \* (history) what top-ups of negative amounts took from each user
  unplaced      \* (history) the ledger's credits that found no wallets row

history == <<taken, unplaced>>
vars == <<wallet, withdrawal, ledger, call, taken, unplaced>>

Idle == [pc |-> "IDLE", locks |-> {}]
Done == [pc |-> "DONE", locks |-> {}]
NoRow == [exists |-> FALSE, available |-> 0, pending |-> 0]
Row(n) == [exists |-> TRUE, available |-> n, pending |-> 0]
None == "NONE"
NotMade == [status |-> None]

Init ==
  /\ wallet = [u \in Users |-> IF u \in Opened THEN Row(Opening) ELSE NoRow]
  /\ withdrawal = [w \in Withdrawals |-> NotMade]
  /\ ledger = [u \in Users |-> IF u \in Opened THEN Opening ELSE 0]
  /\ call = [p \in Calls |-> Idle]
  /\ taken = [u \in Users |-> 0]
  /\ unplaced = [u \in Users |-> 0]

-----------------------------------------------------------------------------
(* Transactions *)

Outside == {"IDLE", "DONE", "READ", "MAKE"}
Running(p) == call[p].pc \notin {"IDLE", "DONE"}

\* Each transaction keeps a connection; a query outside needs another one.
Busy == {p \in Calls : call[p].pc \notin Outside}
Free == Cardinality(Busy) < Pool

\* pc is the first query of the transaction.
Begin(p, op, pc, user, to, amount, row) ==
  /\ call[p] = Idle
  /\ Free
  /\ call' = [call EXCEPT ![p] = [op |-> op, pc |-> pc, user |-> user, to |-> to,
                                  amount |-> amount, row |-> row, locks |-> {}]]
  /\ UNCHANGED <<wallet, withdrawal, ledger, history>>

Go(p, pc) == call' = [call EXCEPT ![p].pc = pc]
Lock(p, u, pc) == call' = [call EXCEPT ![p].pc = pc, ![p].locks = @ \cup {u}]

\* The call ends, and what its transaction has written is undone.
Abort(p) ==
  /\ call' = [call EXCEPT ![p] = Done]
  /\ UNCHANGED <<wallet, withdrawal, ledger, history>>

Unlocked(p, u) == \A q \in Calls \ {p} : u \notin call[q].locks

-----------------------------------------------------------------------------
(* The requests *)

\* processDeposit credits one user, what it has checked to be more than nothing;
\* so does topUpDummy, that checks nothing; the investments' transfer debits
\* another user first.
TopUp(p, u, n) == Begin(p, "TOPUP", "CREDIT", u, u, n, None)
Deposit(p, u, n) == Begin(p, "DEPOSIT", "CREDIT", u, u, n, None)
Transfer(p, u, v, n) == Begin(p, "TRANSFER", "DEBIT", u, v, n, None)

\* request starts its transaction, then asks for the balance.
Request(p, u, n, w) ==
  /\ n >= Minimum
  /\ withdrawal[w] = NotMade
  /\ \A q \in Calls : ~(Running(q) /\ call[q].op = "REQUEST" /\ call[q].row = w)
  /\ Begin(p, "REQUEST", "READ BALANCE", u, u, n, w)

Decide(p, op, w) ==
  /\ withdrawal[w] # NotMade
  /\ Begin(p, op, "ROW", withdrawal[w].user, withdrawal[w].user, withdrawal[w].amount, w)

\* getWallet runs outside any transaction.
GetWallet(p, u) ==
  /\ call[p] = Idle
  /\ call' = [call EXCEPT ![p] = [op |-> "GET", pc |-> "READ", user |-> u, to |-> u,
                                  amount |-> 0, row |-> None, locks |-> {}]]
  /\ UNCHANGED <<wallet, withdrawal, ledger, history>>

-----------------------------------------------------------------------------
(* Their queries *)

\* getOrCreateWallet, on a connection of its own: a user without a row gets one.
ReadWallet(p) ==
  /\ call[p].pc \in {"READ", "READ BALANCE"}
  /\ Free
  /\ IF ~wallet[call[p].user].exists
     THEN Go(p, IF call[p].op = "GET" THEN "MAKE" ELSE "MAKE FOR BALANCE")
     ELSE IF call[p].op = "REQUEST" /\ wallet[call[p].user].available >= call[p].amount
     THEN Go(p, "DEBIT")
     ELSE call' = [call EXCEPT ![p] = Done]
  /\ UNCHANGED <<wallet, withdrawal, ledger, history>>

\* ... unless another call has made it (userId is unique); it is empty anyway.
MakeWallet(p) ==
  /\ call[p].pc \in {"MAKE", "MAKE FOR BALANCE"}
  /\ Free
  /\ wallet' = IF wallet[call[p].user].exists THEN wallet ELSE [wallet EXCEPT ![call[p].user] = Row(0)]
  /\ call' = [call EXCEPT ![p] = Done]
  /\ UNCHANGED <<withdrawal, ledger, history>>

\* Mistake: the balance of before the lock decides.
DebitUnchecked(p) ==
  /\ call[p].pc = "DEBIT"
  /\ Unlocked(p, call[p].user)
  /\ Lock(p, call[p].user, IF call[p].op = "REQUEST" THEN "NOTIFY" ELSE "CREDIT")
  /\ UNCHANGED <<wallet, withdrawal, ledger, history>>

\* debitAvailable reads the balance under the row's lock.
DebitAvailable(p) ==
  /\ call[p].pc = "DEBIT"
  /\ Unlocked(p, call[p].user)
  /\ IF wallet[call[p].user].available >= call[p].amount
     THEN Lock(p, call[p].user, IF call[p].op = "REQUEST" THEN "NOTIFY" ELSE "CREDIT")
     ELSE call' = [call EXCEPT ![p] = Done]
  /\ UNCHANGED <<wallet, withdrawal, ledger, history>>

\* creditAvailable updates no row if the user has none.
CreditAvailable(p) ==
  /\ call[p].pc = "CREDIT"
  /\ Unlocked(p, call[p].to)
  /\ IF wallet[call[p].to].exists THEN Lock(p, call[p].to, "COMMIT") ELSE Go(p, "COMMIT")
  /\ UNCHANGED <<wallet, withdrawal, ledger, history>>

\* approve and reject read the withdrawal under its lock.
Holds(p, w) ==
  /\ call[p].pc \in {"PAYOUT", "NOTIFY", "COMMIT"}
  /\ call[p].op \in {"APPROVE", "REJECT"}
  /\ call[p].row = w

\* Mistake: its status is not looked at again.
LockDecided(p) ==
  /\ call[p].pc = "ROW"
  /\ \A q \in Calls : ~Holds(q, call[p].row)
  /\ Go(p, "PAYOUT")
  /\ UNCHANGED <<wallet, withdrawal, ledger, history>>

LockWithdrawal(p) ==
  /\ call[p].pc = "ROW"
  /\ \A q \in Calls : ~Holds(q, call[p].row)
  /\ IF withdrawal[call[p].row].status = "PENDING" THEN Go(p, "PAYOUT") ELSE call' = [call EXCEPT ![p] = Done]
  /\ UNCHANGED <<wallet, withdrawal, ledger, history>>

FinalizePayout(p) ==
  /\ call[p].pc = "PAYOUT"
  /\ Unlocked(p, call[p].user)
  /\ Lock(p, call[p].user, "NOTIFY")
  /\ UNCHANGED <<wallet, withdrawal, ledger, history>>

\* Mistake: the other connection locks the wallet too.
NotifyLocking(p) ==
  /\ call[p].pc = "NOTIFY"
  /\ Free
  /\ \A q \in Calls : call[p].user \notin call[q].locks
  /\ Go(p, "COMMIT")
  /\ UNCHANGED <<wallet, withdrawal, ledger, history>>

\* The notification is saved on another connection while the locks are held;
\* its errors are caught.
Notify(p) ==
  /\ call[p].pc = "NOTIFY"
  /\ Free
  /\ Go(p, "COMMIT")
  /\ UNCHANGED <<wallet, withdrawal, ledger, history>>

-----------------------------------------------------------------------------
(* What each commits *)

Reserved(row, n) == [row EXCEPT !.available = @ - n, !.pending = @ + n]
Paid(row, n) == [row EXCEPT !.pending = @ - n]
\* Mistake: what is given back stays pending.
ReturnedOnly(row, n) == [row EXCEPT !.available = @ + n]

Returned(row, n) == [row EXCEPT !.available = @ + n, !.pending = @ - n]

\* The ledger gets its entries whether or not there was a row to credit.
CommitMoney(p) ==
  /\ call[p].pc = "COMMIT"
  /\ call[p].op \in {"DEPOSIT", "TOPUP", "TRANSFER"}
  /\ LET c == call[p]
         debit(u)  == IF c.op = "TRANSFER" /\ u = c.user THEN c.amount ELSE 0
         credit(u) == IF u = c.to THEN c.amount ELSE 0
         placed(u) == IF u \in c.locks THEN credit(u) ELSE 0
     IN  /\ wallet' = [u \in Users |-> [wallet[u] EXCEPT !.available = @ - debit(u) + placed(u)]]
         /\ ledger' = [u \in Users |-> ledger[u] - debit(u) + credit(u)]
         /\ unplaced' = [u \in Users |-> unplaced[u] + credit(u) - placed(u)]
         /\ taken' = [u \in Users |-> taken[u] - (IF placed(u) < 0 THEN placed(u) ELSE 0)]
  /\ call' = [call EXCEPT ![p] = Done]
  /\ UNCHANGED withdrawal

CommitRequest(p) ==
  /\ call[p].pc = "COMMIT"
  /\ call[p].op = "REQUEST"
  /\ wallet' = [wallet EXCEPT ![call[p].user] = Reserved(@, call[p].amount)]
  /\ withdrawal' = [withdrawal EXCEPT ![call[p].row] =
                      [status |-> "PENDING", user |-> call[p].user, amount |-> call[p].amount]]
  /\ call' = [call EXCEPT ![p] = Done]
  /\ UNCHANGED <<ledger, history>>

CommitDecision(p) ==
  /\ call[p].pc = "COMMIT"
  /\ call[p].op \in {"APPROVE", "REJECT"}
  /\ wallet' = [wallet EXCEPT ![call[p].user] =
                  IF call[p].op = "APPROVE" THEN Paid(@, call[p].amount) ELSE Returned(@, call[p].amount)]
  /\ withdrawal' = [withdrawal EXCEPT ![call[p].row].status =
                      IF call[p].op = "APPROVE" THEN "COMPLETED" ELSE "REJECTED"]
  /\ call' = [call EXCEPT ![p] = Done]
  /\ UNCHANGED <<ledger, history>>

\* A query fails, or the server dies.
Fails(p) == Running(p) /\ Abort(p)

\* The database ends a transaction of a cycle of transactions that wait for
\* each other's wallets.
Wants(p, u) ==
  \/ call[p].pc \in {"DEBIT", "PAYOUT"} /\ u = call[p].user
  \/ call[p].pc = "CREDIT" /\ u = call[p].to

WaitsFor(p, q) == p # q /\ \E u \in call[q].locks : Wants(p, u)

BreakDeadlock(p) ==
  /\ \E cycle \in SUBSET Calls :
       /\ p \in cycle
       /\ \A q \in cycle : (\E r \in cycle : WaitsFor(q, r)) /\ (\E r \in cycle : WaitsFor(r, q))
  /\ Abort(p)

Queries(p) ==
  \/ ReadWallet(p) \/ MakeWallet(p) \/ DebitAvailable(p) \/ CreditAvailable(p)
  \/ LockWithdrawal(p) \/ FinalizePayout(p) \/ Notify(p)
  \/ CommitMoney(p) \/ CommitRequest(p) \/ CommitDecision(p) \/ BreakDeadlock(p)

Requests(p) ==
  \/ \E u \in Users : GetWallet(p, u) \/ \E n \in TopUps : TopUp(p, u, n)
  \/ \E u \in Users, n \in Amounts :
       \/ Deposit(p, u, n)
       \/ \E v \in Users : Transfer(p, u, v, n)
       \/ \E w \in Withdrawals : Request(p, u, n, w)
  \/ \E w \in Withdrawals, op \in {"APPROVE", "REJECT"} : Decide(p, op, w)

Next == \E p \in Calls : Requests(p) \/ Queries(p) \/ Fails(p)

\* Queries that can run do: connections are handed out in the order they are
\* asked for, and the database serves every one.
Fairness == \A p \in Calls : WF_vars(Queries(p))

Spec == Init /\ [][Next]_vars /\ Fairness

-----------------------------------------------------------------------------
(* Properties *)

Balance(u) == wallet[u].available + wallet[u].pending

\* The money in the user's withdrawals of this status.
Sum(u, status) ==
  SumFunction([w \in Withdrawals |-> IF withdrawal[w].status = status /\ withdrawal[w].user = u
                                     THEN withdrawal[w].amount ELSE 0])

\* Nothing but a top-up of a negative amount makes a balance negative, and by no
\* more than it took; what is pending never is, and a user without a row has
\* nothing.
TypeInv ==
  /\ \A u \in Users : /\ wallet[u].available \in Int /\ wallet[u].available >= -taken[u]
                       /\ wallet[u].pending \in Nat
  /\ \A u \in Users : ~wallet[u].exists => wallet[u] = NoRow
  /\ \A w \in Withdrawals : withdrawal[w].status \in {"NONE", "PENDING", "COMPLETED", "REJECTED"}
  /\ Cardinality(Busy) <= Pool

\* What is kept apart for a user is the sum of its undecided withdrawals.
PendingIsUndecided == \A u \in Users : wallet[u].pending = Sum(u, "PENDING")

\* What a user has, withdrawals that were paid out taken off, is what the ledger
\* says less the credits that found no row; a user that had a row from the start
\* never missed one.
LedgerExplains ==
  \A u \in Users :
    /\ Balance(u) + Sum(u, "COMPLETED") + unplaced[u] = ledger[u]
    /\ u \in Opened => unplaced[u] = 0

\* Every balance has its explanation, in withdrawals and ledger.
MoneyIsExplained == PendingIsUndecided /\ LedgerExplains

\* No balance is ever negative.  This does not hold: a dummy top-up may be of any
\* amount.
NeverNegative == \A u \in Users : wallet[u].available >= 0

\* Transactions, locks and connections come down to the abstract account.
Promise == INSTANCE Account WITH
  available <- [u \in Users |-> wallet[u].available],
  reserved <- [u \in Users |-> wallet[u].pending]

ImplementsAccount == Promise!Spec

\* A call that has started ends, whatever locks it waits for, unless the pool
\* runs out of connections for good.
CallsEnd ==
  \/ <>[]~Free
  \/ \A p \in Calls : Running(p) ~> ~Running(p)
=============================================================================
