----------------------------- MODULE FinanceProofs -----------------------------
(* Finance implements Account, for any number of users, withdrawals, requests *)
(* and connections: what withdrawals, transfers and deposits commit under     *)
(* their locks is what the abstract account allows.  And what is pending, or  *)
(* was paid out, is the sum of the withdrawals that say so.                   *)
EXTENDS Finance, SumTheorems, TLAPS

Ops == {"DEPOSIT", "TOPUP", "TRANSFER", "REQUEST", "APPROVE", "REJECT", "GET"}
Pcs == {"READ", "READ BALANCE", "MAKE", "MAKE FOR BALANCE", "DEBIT", "CREDIT", "ROW",
        "PAYOUT", "NOTIFY", "COMMIT"}

Active == [op : Ops, pc : Pcs, user : Users, to : Users, amount : Int,
           row : Withdrawals \cup {None}, locks : SUBSET Users]

Made == [status : {"PENDING", "COMPLETED", "REJECTED"}, user : Users, amount : Amounts]

\* A user without a row has nothing, and one that has asked for a withdrawal
\* has a row.
RowsOK ==
  /\ wallet \in [Users -> [exists : BOOLEAN, available : Int, pending : Int]]
  /\ withdrawal \in [Withdrawals -> {NotMade} \cup Made]
  /\ \A u \in Users : ~wallet[u].exists => wallet[u].available = 0 /\ wallet[u].pending = 0
  /\ \A w \in Withdrawals : withdrawal[w] # NotMade => wallet[withdrawal[w].user].exists

Asks(c) == c.pc \in Pcs /\ c.op = "REQUEST"
Judges(c) == c.pc \in Pcs /\ c.op \in {"APPROVE", "REJECT"}
Decides(c) == Judges(c) /\ c.pc \in {"PAYOUT", "NOTIFY", "COMMIT"}

\* Which queries a request is made of.
Phase(c) ==
  /\ c.op = "GET" <=> c.pc \in {"READ", "MAKE"}
  /\ c.pc \in {"READ BALANCE", "MAKE FOR BALANCE"} => c.op = "REQUEST"
  /\ c.pc = "DEBIT" => c.op \in {"TRANSFER", "REQUEST"}
  /\ c.pc = "CREDIT" => c.op \in {"DEPOSIT", "TOPUP", "TRANSFER"}
  /\ c.pc \in {"ROW", "PAYOUT"} => c.op \in {"APPROVE", "REJECT"}
  /\ c.pc = "NOTIFY" => c.op \in {"REQUEST", "APPROVE", "REJECT"}

\* The amount was there under the lock, and the lock is kept.
Covered(c) == c.user \in c.locks /\ wallet[c.user].available >= c.amount

\* What a running request may rely on.
CallOK(c) ==
  c.pc \in Pcs =>
    /\ Phase(c)
    /\ c.op \notin {"GET", "TOPUP"} => c.amount \in Amounts
    /\ c.op = "TOPUP" => c.amount \in TopUps
    /\ \A u \in c.locks : wallet[u].exists
    /\ c.op = "TRANSFER" /\ c.pc \in {"CREDIT", "COMMIT"} => Covered(c)
    /\ c.op = "REQUEST" /\ c.pc \in {"NOTIFY", "COMMIT"} => Covered(c)
    /\ Asks(c) => c.row \in Withdrawals /\ withdrawal[c.row] = NotMade
    /\ Judges(c) =>
         /\ c.row \in Withdrawals /\ withdrawal[c.row] # NotMade
         /\ c.user = withdrawal[c.row].user /\ c.amount = withdrawal[c.row].amount
    /\ Decides(c) => withdrawal[c.row].status = "PENDING"

\* Two requests never hold one lock, nor are about to make or to decide one
\* withdrawal.
Apart(c, d) ==
  /\ c.locks \cap d.locks = {}
  /\ Asks(c) /\ Asks(d) => c.row # d.row
  /\ Decides(c) /\ Decides(d) => c.row # d.row

IInv ==
  /\ RowsOK
  /\ call \in [Calls -> {Idle, Done} \cup Active]
  /\ \A p \in Calls : CallOK(call[p])
  /\ \A p, q \in Calls : p # q => Apart(call[p], call[q])

-----------------------------------------------------------------------------
(* Records *)

LEMMA Records ==
  /\ \A c \in {Idle, Done} : c.pc \notin Pcs /\ c.locks = {}
  /\ \A c \in Active : c.pc \in Pcs
  /\ \A c \in {Idle, Done} \cup Active : c.pc \in Pcs => c \in Active
<1>1. /\ Idle.pc = "IDLE" /\ Idle.locks = {}
      /\ Done.pc = "DONE" /\ Done.locks = {}
  BY DEF Idle, Done
<1>2. "IDLE" \notin Pcs /\ "DONE" \notin Pcs
  BY DEF Pcs
<1>3. \A c \in {Idle, Done} : c.pc \notin Pcs /\ c.locks = {}
  BY <1>1, <1>2
<1>4. \A c \in Active : c.pc \in Pcs
  BY DEF Active
<1> QED BY <1>3, <1>4

LEMMA GoIsActive ==
  ASSUME NEW c \in Active, NEW pc \in Pcs
  PROVE  LET d == [c EXCEPT !.pc = pc] IN
         /\ d \in Active /\ d.op = c.op /\ d.pc = pc /\ d.user = c.user /\ d.to = c.to
         /\ d.amount = c.amount /\ d.row = c.row /\ d.locks = c.locks
  BY DEF Active

Locked(c, pc, u) == [c EXCEPT !.pc = pc, !.locks = c.locks \cup {u}]

LEMMA LockIsActive ==
  ASSUME NEW c \in Active, NEW pc \in Pcs, NEW u \in Users
  PROVE  LET d == Locked(c, pc, u) IN
         /\ d \in Active /\ d.op = c.op /\ d.pc = pc /\ d.user = c.user /\ d.to = c.to
         /\ d.amount = c.amount /\ d.row = c.row /\ d.locks = c.locks \cup {u}
  BY DEF Active, Locked

LEMMA Distinct == NotMade \notin Made /\ \A m \in Made : m.status # "NONE"
  BY DEF NotMade, Made, None

-----------------------------------------------------------------------------
(* A step of one request *)

\* A request goes on, the rows stay: enough that its new state is in order and
\* apart from the others'.
LEMMA Onward ==
  ASSUME IInv, NEW p \in Calls, NEW d \in {Idle, Done} \cup Active,
         UNCHANGED <<wallet, withdrawal>>, call' = [call EXCEPT ![p] = d],
         CallOK(d), \A q \in Calls \ {p} : Apart(d, call[q])
  PROVE  IInv'
<1>1. RowsOK'
  BY DEF IInv, RowsOK
<1>2. call' \in [Calls -> {Idle, Done} \cup Active]
  BY DEF IInv
<1>3. \A q \in Calls : call'[q] = IF q = p THEN d ELSE call[q]
  BY DEF IInv
<1>4. ASSUME NEW q \in Calls PROVE CallOK(call[q])'
  <2>1. CallOK(call'[q])
    BY <1>3 DEF IInv
  <2> QED BY <2>1 DEF CallOK, Covered
<1>5. ASSUME NEW q \in Calls, NEW r \in Calls, q # r PROVE Apart(call[q], call[r])'
  <2>1. CASE q # p /\ r # p
    BY <1>3, <1>5, <2>1 DEF IInv, Apart, Asks, Decides, Judges
  <2>2. CASE q = p
    BY <1>3, <1>5, <2>2 DEF Apart, Asks, Decides, Judges
  <2>3. CASE r = p
    <3>1. Apart(d, call[q])
      BY <1>5, <2>3
    <3> QED BY <3>1, <1>3, <1>5, <2>3 DEF Apart, Asks, Decides, Judges
  <2> QED BY <2>1, <2>2, <2>3
<1> QED BY <1>1, <1>2, <1>4, <1>5 DEF IInv

\* A request ends, and the rows it leaves are in order for the others.
LEMMA Ends ==
  ASSUME IInv, NEW p \in Calls, RowsOK', call' = [call EXCEPT ![p] = Done],
         \A q \in Calls \ {p} : call'[q] = call[q] => CallOK(call[q])'
  PROVE  IInv'
<1>1. call' \in [Calls -> {Idle, Done} \cup Active]
  BY DEF IInv
<1>2. \A q \in Calls : call'[q] = IF q = p THEN Done ELSE call[q]
  BY DEF IInv
<1>3. ASSUME NEW q \in Calls PROVE CallOK(call[q])'
  <2>1. CASE q = p
    BY <1>2, <2>1, Records DEF CallOK
  <2>2. CASE q # p
    BY <1>2, <2>2
  <2> QED BY <2>1, <2>2
<1>4. ASSUME NEW q \in Calls, NEW r \in Calls, q # r PROVE Apart(call[q], call[r])'
  BY <1>2, <1>4, Records DEF IInv, Apart, Asks, Decides, Judges
<1> QED BY <1>1, <1>3, <1>4 DEF IInv

\* An aborted transaction leaves nothing.
LEMMA Aborts == ASSUME IInv, NEW p \in Calls, Abort(p) PROVE IInv'
  BY Onward, Records DEF Abort, CallOK, Apart, Asks, Decides, Judges

\* A query that takes no lock and begins no decision.
LEMMA Goes ==
  ASSUME IInv, NEW p \in Calls, call[p] \in Active, NEW pc \in Pcs, Go(p, pc),
         UNCHANGED <<wallet, withdrawal>>,
         \A d \in Active :
           /\ d.op = call[p].op /\ d.pc = pc /\ d.user = call[p].user /\ d.amount = call[p].amount
           /\ d.row = call[p].row /\ d.locks = call[p].locks
           => CallOK(d) /\ (Decides(d) => Decides(call[p]))
  PROVE  IInv'
<1> DEFINE d == [call[p] EXCEPT !.pc = pc]
<1>1. /\ d \in Active /\ d.op = call[p].op /\ d.pc = pc /\ d.user = call[p].user
      /\ d.amount = call[p].amount /\ d.row = call[p].row /\ d.locks = call[p].locks
  BY GoIsActive
<1>2. CallOK(d) /\ (Decides(d) => Decides(call[p]))
  BY <1>1
<1>3. call' = [call EXCEPT ![p] = d]
  BY DEF Go
<1>4. \A q \in Calls \ {p} : Apart(d, call[q])
  BY <1>1, <1>2, Records DEF IInv, Apart, Asks
<1> HIDE DEF d
<1> QED BY <1>1, <1>2, <1>3, <1>4, Onward

\* A query that takes the lock of a wallet nobody else has locked.
LEMMA Locks ==
  ASSUME IInv, NEW p \in Calls, call[p] \in Active, NEW pc \in Pcs, NEW u \in Users,
         Lock(p, u, pc), Unlocked(p, u), UNCHANGED <<wallet, withdrawal>>,
         \A d \in Active :
           /\ d.op = call[p].op /\ d.pc = pc /\ d.user = call[p].user /\ d.amount = call[p].amount
           /\ d.row = call[p].row /\ d.locks = call[p].locks \cup {u}
           => CallOK(d) /\ (Decides(d) => Decides(call[p]))
  PROVE  IInv'
<1> DEFINE d == Locked(call[p], pc, u)
<1>1. /\ d \in Active /\ d.op = call[p].op /\ d.pc = pc /\ d.user = call[p].user
      /\ d.amount = call[p].amount /\ d.row = call[p].row /\ d.locks = call[p].locks \cup {u}
  BY LockIsActive
<1>2. CallOK(d) /\ (Decides(d) => Decides(call[p]))
  BY <1>1
<1>3. call' = [call EXCEPT ![p] = d]
  BY DEF Lock, Locked
<1>4. \A q \in Calls \ {p} : Apart(d, call[q])
  BY <1>1, <1>2, Records DEF IInv, Apart, Asks, Unlocked
<1> HIDE DEF d
<1> QED BY <1>1, <1>2, <1>3, <1>4, Onward

\* An action's request is one that runs.
LEMMA Runs == ASSUME IInv, NEW p \in Calls, call[p].pc \in Pcs PROVE call[p] \in Active
  BY Records DEF IInv

-----------------------------------------------------------------------------
(* The requests *)

\* deposit.service, wallet.service: nothing is locked yet.
LEMMA BeginStep ==
  ASSUME IInv, NEW p \in Calls, NEW d \in Active, call' = [call EXCEPT ![p] = d],
         UNCHANGED <<wallet, withdrawal>>, CallOK(d), d.locks = {}, ~Decides(d),
         \A q \in Calls : Asks(d) /\ Asks(call[q]) => d.row # call[q].row
  PROVE  IInv'
  BY Onward DEF Apart

LEMMA DepositStep ==
  ASSUME IInv, NEW p \in Calls, NEW u \in Users, NEW n \in Amounts, Deposit(p, u, n)
  PROVE  IInv'
<1> DEFINE d == [op |-> "DEPOSIT", pc |-> "CREDIT", user |-> u, to |-> u,
                 amount |-> n, row |-> None, locks |-> {}]
<1>1. d \in Active
  BY FinanceAssumption DEF Active, Ops, Pcs
<1>2. CallOK(d) /\ ~Decides(d) /\ ~Asks(d)
  BY DEF CallOK, Phase, Asks, Judges, Decides
<1> QED BY <1>1, <1>2, BeginStep DEF Deposit, Begin

LEMMA TopUpStep ==
  ASSUME IInv, NEW p \in Calls, NEW u \in Users, NEW n \in TopUps, TopUp(p, u, n)
  PROVE  IInv'
<1> DEFINE d == [op |-> "TOPUP", pc |-> "CREDIT", user |-> u, to |-> u,
                 amount |-> n, row |-> None, locks |-> {}]
<1>1. d \in Active
  BY FinanceAssumption DEF Active, Ops, Pcs
<1>2. CallOK(d) /\ ~Decides(d) /\ ~Asks(d)
  BY DEF CallOK, Phase, Asks, Judges, Decides
<1> QED BY <1>1, <1>2, BeginStep DEF TopUp, Begin

LEMMA TransferStep ==
  ASSUME IInv, NEW p \in Calls, NEW u \in Users, NEW v \in Users, NEW n \in Amounts,
         Transfer(p, u, v, n)
  PROVE  IInv'
<1> DEFINE d == [op |-> "TRANSFER", pc |-> "DEBIT", user |-> u, to |-> v,
                 amount |-> n, row |-> None, locks |-> {}]
<1>1. d \in Active
  BY FinanceAssumption DEF Active, Ops, Pcs
<1>2. CallOK(d) /\ ~Decides(d) /\ ~Asks(d)
  BY DEF CallOK, Phase, Asks, Judges, Decides
<1> QED BY <1>1, <1>2, BeginStep DEF Transfer, Begin

LEMMA RequestStep ==
  ASSUME IInv, NEW p \in Calls, NEW u \in Users, NEW n \in Amounts, NEW w \in Withdrawals,
         Request(p, u, n, w)
  PROVE  IInv'
<1> DEFINE d == [op |-> "REQUEST", pc |-> "READ BALANCE", user |-> u, to |-> u,
                 amount |-> n, row |-> w, locks |-> {}]
<1>1. d \in Active
  BY FinanceAssumption DEF Active, Ops, Pcs
<1>2. CallOK(d) /\ ~Decides(d)
  BY DEF CallOK, Phase, Asks, Judges, Decides, Request
<1>3. \A q \in Calls : Asks(call[q]) => Running(q) /\ call[q].op = "REQUEST"
  BY DEF Asks, Running, Pcs
<1>4. \A q \in Calls : Asks(call[q]) => call[q].row # w
  BY <1>3 DEF Request
<1> QED BY <1>1, <1>2, <1>4, BeginStep DEF Request, Begin

LEMMA DecideStep ==
  ASSUME IInv, NEW p \in Calls, NEW op \in {"APPROVE", "REJECT"}, NEW w \in Withdrawals,
         Decide(p, op, w)
  PROVE  IInv'
<1> DEFINE m == withdrawal[w]
           d == [op |-> op, pc |-> "ROW", user |-> m.user, to |-> m.user,
                 amount |-> m.amount, row |-> w, locks |-> {}]
<1>1. m # NotMade /\ m \in Made /\ m.user \in Users /\ m.amount \in Amounts
  BY DEF Decide, IInv, RowsOK, Made
<1>2. d \in Active
  <2>1. m.amount \in Int
    <3>1. Amounts \subseteq Int
      BY FinanceAssumption
    <3> HIDE DEF m
    <3> QED BY <1>1, <3>1
  <2> QED BY <1>1, <2>1 DEF Active, Ops, Pcs
<1>3. CallOK(d) /\ ~Decides(d) /\ ~Asks(d)
  BY <1>1 DEF CallOK, Phase, Asks, Judges, Decides
<1>4. call' = [call EXCEPT ![p] = d] /\ UNCHANGED <<wallet, withdrawal>>
  BY DEF Decide, Begin
<1>5. d.locks = {}
  OBVIOUS
<1> HIDE DEF d
<1> QED BY <1>2, <1>3, <1>4, <1>5, BeginStep

LEMMA GetWalletStep ==
  ASSUME IInv, NEW p \in Calls, NEW u \in Users, GetWallet(p, u)
  PROVE  IInv'
<1> DEFINE d == [op |-> "GET", pc |-> "READ", user |-> u, to |-> u,
                 amount |-> 0, row |-> None, locks |-> {}]
<1>1. d \in Active
  BY DEF Active, Ops, Pcs
<1>2. CallOK(d) /\ ~Decides(d) /\ ~Asks(d)
  BY DEF CallOK, Phase, Asks, Judges, Decides
<1> QED BY <1>1, <1>2, BeginStep DEF GetWallet

-----------------------------------------------------------------------------
(* The queries that commit nothing *)

LEMMA ReadWalletStep == ASSUME IInv, NEW p \in Calls, ReadWallet(p) PROVE IInv'
<1> DEFINE c == call[p]
<1>1. c \in Active /\ CallOK(c)
  BY Runs DEF ReadWallet, Pcs, IInv
<1>2. CASE call' = [call EXCEPT ![p] = Done]
  BY <1>2, Aborts DEF ReadWallet, Abort
<1>3. CASE Go(p, IF c.op = "GET" THEN "MAKE" ELSE "MAKE FOR BALANCE")
  <2> DEFINE pc == IF c.op = "GET" THEN "MAKE" ELSE "MAKE FOR BALANCE"
  <2>1. pc \in Pcs /\ c.pc \in Pcs
    BY <1>1 DEF Pcs, Active
  <2>2. ASSUME NEW d \in Active, d.op = c.op, d.pc = pc, d.user = c.user, d.amount = c.amount,
               d.row = c.row, d.locks = c.locks
        PROVE  CallOK(d) /\ ~Decides(d)
    BY <1>1, <2>1, <2>2 DEF ReadWallet, CallOK, Phase, Asks, Judges, Decides, Covered, Pcs
  <2> QED BY <1>1, <1>3, <2>1, <2>2, Goes DEF ReadWallet
<1>4. CASE c.op = "REQUEST" /\ Go(p, "DEBIT")
  <2>1. "DEBIT" \in Pcs /\ c.pc \in Pcs
    BY <1>1 DEF Pcs, Active
  <2>2. ASSUME NEW d \in Active, d.op = c.op, d.pc = "DEBIT", d.user = c.user,
               d.amount = c.amount, d.row = c.row, d.locks = c.locks
        PROVE  CallOK(d) /\ ~Decides(d)
    BY <1>1, <1>4, <2>1, <2>2 DEF CallOK, Phase, Asks, Judges, Decides, Covered, Pcs
  <2> QED BY <1>1, <1>4, <2>1, <2>2, Goes DEF ReadWallet
<1> QED BY <1>2, <1>3, <1>4 DEF ReadWallet

\* wallet.service, debitAvailable: what it has seen under the lock stays there.
LEMMA DebitStep == ASSUME IInv, NEW p \in Calls, DebitAvailable(p) PROVE IInv'
<1> DEFINE c == call[p]
           pc == IF c.op = "REQUEST" THEN "NOTIFY" ELSE "CREDIT"
<1>1. c \in Active /\ CallOK(c) /\ c.pc = "DEBIT" /\ c.pc \in Pcs /\ pc \in Pcs /\ c.user \in Users
  BY Runs DEF DebitAvailable, Pcs, IInv, Active
<1>2. CASE call' = [call EXCEPT ![p] = Done]
  BY <1>2, Aborts DEF DebitAvailable, Abort
<1>3. CASE wallet[c.user].available >= c.amount /\ Lock(p, c.user, pc)
  <2>1. c.op \in {"TRANSFER", "REQUEST"} /\ c.amount \in Amounts
    BY <1>1 DEF CallOK, Phase
  <2>2. wallet[c.user].exists
    <3>1. c.amount \in Nat \ {0} /\ wallet[c.user].available \in Int
      BY <1>1, <2>1, FinanceAssumption DEF IInv, RowsOK
    <3> QED BY <1>1, <1>3, <3>1 DEF IInv, RowsOK
  <2>3. ASSUME NEW d \in Active, d.op = c.op, d.pc = pc, d.user = c.user, d.amount = c.amount,
               d.row = c.row, d.locks = c.locks \cup {c.user}
        PROVE  CallOK(d) /\ ~Decides(d)
    <3>1. /\ Covered(d)
          /\ \A u \in d.locks : wallet[u].exists
      BY <1>1, <1>3, <2>2, <2>3 DEF Covered, CallOK
    <3> QED BY <1>1, <2>1, <2>3, <3>1 DEF CallOK, Phase, Asks, Judges, Decides
  <2> QED BY <1>1, <1>3, <2>3, Locks DEF DebitAvailable
<1> QED BY <1>2, <1>3 DEF DebitAvailable

\* wallet.service, creditAvailable: nothing to lock, nothing to credit.
LEMMA CreditStep == ASSUME IInv, NEW p \in Calls, CreditAvailable(p) PROVE IInv'
<1> DEFINE c == call[p]
<1>1. /\ c \in Active /\ CallOK(c) /\ c.pc = "CREDIT" /\ c.pc \in Pcs /\ "COMMIT" \in Pcs
      /\ c.to \in Users
  BY Runs DEF CreditAvailable, Pcs, IInv, Active
<1>2. c.op \in {"DEPOSIT", "TOPUP", "TRANSFER"}
  BY <1>1 DEF CallOK, Phase
<1>3. CASE wallet[c.to].exists /\ Lock(p, c.to, "COMMIT")
  <2>1. ASSUME NEW d \in Active, d.op = c.op, d.pc = "COMMIT", d.user = c.user,
               d.amount = c.amount, d.row = c.row, d.locks = c.locks \cup {c.to}
        PROVE  CallOK(d) /\ ~Decides(d)
    BY <1>1, <1>2, <1>3, <2>1 DEF CallOK, Phase, Asks, Judges, Decides, Covered
  <2> QED BY <1>1, <1>3, <2>1, Locks DEF CreditAvailable
<1>4. CASE Go(p, "COMMIT")
  <2>1. ASSUME NEW d \in Active, d.op = c.op, d.pc = "COMMIT", d.user = c.user,
               d.amount = c.amount, d.row = c.row, d.locks = c.locks
        PROVE  CallOK(d) /\ ~Decides(d)
    BY <1>1, <1>2, <2>1 DEF CallOK, Phase, Asks, Judges, Decides, Covered
  <2> QED BY <1>1, <1>4, <2>1, Goes DEF CreditAvailable
<1> QED BY <1>3, <1>4 DEF CreditAvailable

\* withdrawal.service, approve and reject: one of them decides.
LEMMA LockWithdrawalStep == ASSUME IInv, NEW p \in Calls, LockWithdrawal(p) PROVE IInv'
<1> DEFINE c == call[p]
           d == [c EXCEPT !.pc = "PAYOUT"]
<1>1. c \in Active /\ CallOK(c) /\ c.pc = "ROW" /\ c.pc \in Pcs /\ "PAYOUT" \in Pcs
  BY Runs DEF LockWithdrawal, Pcs, IInv
<1>2. c.op \in {"APPROVE", "REJECT"}
  BY <1>1 DEF CallOK, Phase
<1>3. CASE call' = [call EXCEPT ![p] = Done]
  BY <1>3, Aborts DEF LockWithdrawal, Abort
<1>4. CASE withdrawal[c.row].status = "PENDING" /\ Go(p, "PAYOUT")
  <2>1. /\ d \in Active /\ d.op = c.op /\ d.pc = "PAYOUT" /\ d.user = c.user
        /\ d.amount = c.amount /\ d.row = c.row /\ d.locks = c.locks
    BY <1>1, GoIsActive
  <2>2. call' = [call EXCEPT ![p] = d] /\ UNCHANGED <<wallet, withdrawal>>
    BY <1>4 DEF Go, LockWithdrawal
  <2> HIDE DEF d
  <2>3. CallOK(d)
    BY <1>1, <1>2, <1>4, <2>1 DEF CallOK, Phase, Asks, Judges, Decides, Covered
  <2>4. ASSUME NEW q \in Calls \ {p} PROVE Apart(d, call[q])
    <3>1. ~Holds(q, d.row)
      BY <2>1 DEF LockWithdrawal
    <3>2. Apart(c, call[q])
      BY DEF IInv
    <3> QED BY <1>2, <2>1, <3>1, <3>2 DEF Holds, Apart, Asks, Judges, Decides
  <2> QED BY <2>1, <2>2, <2>3, <2>4, Onward
<1> QED BY <1>3, <1>4 DEF LockWithdrawal

\* wallet.service, finalizePayout: who has asked for a withdrawal has a row.
LEMMA FinalizePayoutStep == ASSUME IInv, NEW p \in Calls, FinalizePayout(p) PROVE IInv'
<1> DEFINE c == call[p]
<1>1. /\ c \in Active /\ CallOK(c) /\ c.pc = "PAYOUT" /\ c.pc \in Pcs /\ "NOTIFY" \in Pcs
      /\ c.user \in Users
  BY Runs DEF FinalizePayout, Pcs, IInv, Active
<1>2. Judges(c) /\ Decides(c) /\ wallet[c.user].exists
  BY <1>1 DEF CallOK, Phase, Judges, Decides, IInv, RowsOK
<1>3. ASSUME NEW d \in Active, d.op = c.op, d.pc = "NOTIFY", d.user = c.user,
             d.amount = c.amount, d.row = c.row, d.locks = c.locks \cup {c.user}
      PROVE  CallOK(d)
  BY <1>1, <1>2, <1>3 DEF CallOK, Phase, Asks, Judges, Decides, Covered
<1> QED BY <1>1, <1>2, <1>3, Locks DEF FinalizePayout

LEMMA NotifyStep == ASSUME IInv, NEW p \in Calls, Notify(p) PROVE IInv'
<1> DEFINE c == call[p]
<1>1. c \in Active /\ CallOK(c) /\ c.pc = "NOTIFY" /\ c.pc \in Pcs /\ "COMMIT" \in Pcs
  BY Runs DEF Notify, Pcs, IInv
<1>2. ASSUME NEW d \in Active, d.op = c.op, d.pc = "COMMIT", d.user = c.user,
             d.amount = c.amount, d.row = c.row, d.locks = c.locks
      PROVE  CallOK(d) /\ (Decides(d) => Decides(c))
  BY <1>1, <1>2 DEF CallOK, Phase, Asks, Judges, Decides, Covered
<1> QED BY <1>1, <1>2, Goes DEF Notify

-----------------------------------------------------------------------------
(* The commits *)

\* What a request relies on survives the commits of others.
LEMMA Undisturbed ==
  ASSUME IInv, NEW q \in Calls, call'[q] = call[q],
         \A u \in Users : wallet[u].exists => wallet'[u].exists,
         \A u \in call[q].locks : wallet'[u].available >= wallet[u].available,
         \A u \in Users : wallet'[u].available \in Int,
         Asks(call[q]) => withdrawal'[call[q].row] = withdrawal[call[q].row],
         Judges(call[q]) =>
           /\ withdrawal'[call[q].row] # NotMade
           /\ withdrawal'[call[q].row].user = withdrawal[call[q].row].user
           /\ withdrawal'[call[q].row].amount = withdrawal[call[q].row].amount,
         Decides(call[q]) => withdrawal'[call[q].row].status = withdrawal[call[q].row].status
  PROVE  CallOK(call[q])'
<1> DEFINE c == call[q]
<1>1. CASE c.pc \notin Pcs
  BY <1>1 DEF CallOK
<1>2. CASE c.pc \in Pcs
  <2>1. c \in Active /\ CallOK(c)
    BY <1>2, Runs DEF IInv
  <2>2. c.user \in Users /\ c.locks \in SUBSET Users /\ c.amount \in Int
    BY <2>1 DEF Active
  <2>3. \A u \in c.locks : wallet'[u].exists
    BY <1>2, <2>1, <2>2 DEF CallOK
  <2>4. Covered(c) => c.user \in c.locks /\ wallet'[c.user].available >= c.amount
    <3>1. wallet[c.user].available \in Int /\ wallet'[c.user].available \in Int
      BY <2>2 DEF IInv, RowsOK
    <3> QED BY <2>2, <3>1 DEF Covered
  <2> QED BY <1>2, <2>1, <2>3, <2>4 DEF CallOK, Covered, Phase, Asks, Judges, Decides
<1> QED BY <1>1, <1>2

LEMMA MakeWalletStep == ASSUME IInv, NEW p \in Calls, MakeWallet(p) PROVE IInv'
<1> DEFINE u == call[p].user
<1>1. u \in Users
  BY Runs DEF MakeWallet, Pcs, Active
<1>2. /\ wallet' \in [Users -> [exists : BOOLEAN, available : Int, pending : Int]]
      /\ \A v \in Users : /\ wallet'[v].available = wallet[v].available
                          /\ wallet'[v].pending = wallet[v].pending
                          /\ wallet[v].exists => wallet'[v].exists
  <2>1. CASE wallet' = wallet
    BY <2>1 DEF IInv, RowsOK
  <2>2. CASE ~wallet[u].exists /\ wallet' = [wallet EXCEPT ![u] = Row(0)]
    <3>1. wallet \in [Users -> [exists : BOOLEAN, available : Int, pending : Int]]
      BY DEF IInv, RowsOK
    <3>2. /\ Row(0) \in [exists : BOOLEAN, available : Int, pending : Int]
          /\ Row(0).available = 0 /\ Row(0).pending = 0 /\ Row(0).exists
      BY DEF Row
    <3>3. wallet[u].available = 0 /\ wallet[u].pending = 0
      BY <1>1, <2>2 DEF IInv, RowsOK
    <3>4. \A v \in Users : wallet'[v] = IF v = u THEN Row(0) ELSE wallet[v]
      BY <2>2, <3>1
    <3> HIDE DEF u
    <3> QED BY <1>1, <2>2, <3>1, <3>2, <3>3, <3>4
  <2> QED BY <2>1, <2>2 DEF MakeWallet
<1>3. withdrawal' = withdrawal
  BY DEF MakeWallet
<1>4. RowsOK'
  <2>1. \A v \in Users : ~wallet'[v].exists => ~wallet[v].exists
    BY <1>2
  <2>2. \A w \in Withdrawals : withdrawal[w] # NotMade => withdrawal[w].user \in Users
    BY DEF IInv, RowsOK, Made
  <2> QED BY <1>2, <1>3, <2>1, <2>2 DEF IInv, RowsOK
<1>5. ASSUME NEW q \in Calls \ {p}, call'[q] = call[q] PROVE CallOK(call[q])'
  <2>1. \A v \in Users : wallet'[v].available \in Int /\ wallet'[v].available >= wallet[v].available
    BY <1>2 DEF IInv, RowsOK
  <2>2. call[q].locks \subseteq Users
    BY Records DEF IInv, Active
  <2>3. Judges(call[q]) => withdrawal'[call[q].row] # NotMade
    BY <1>3, Records DEF IInv, CallOK, Judges
  <2> QED BY <1>2, <1>3, <1>5, <2>1, <2>2, <2>3, Undisturbed
<1> QED BY <1>4, <1>5, Ends DEF MakeWallet

\* What a deposit or a transfer does to the rows: nothing to those it has not
\* locked.
LEMMA MoneyRows ==
  ASSUME IInv, NEW p \in Calls, CommitMoney(p)
  PROVE  LET c == call[p]
             debit(u) == IF c.op = "TRANSFER" /\ u = c.user THEN c.amount ELSE 0
             credit(u) == IF u = c.to /\ u \in c.locks THEN c.amount ELSE 0
         IN  /\ c \in Active /\ CallOK(c) /\ c.pc = "COMMIT" /\ c.pc \in Pcs
             /\ c.amount \in Amounts \cup TopUps /\ c.amount \in Int
             /\ c.op = "TRANSFER" => Covered(c) /\ c.amount \in Amounts
             /\ wallet' \in [Users -> [exists : BOOLEAN, available : Int, pending : Int]]
             /\ \A u \in Users :
                  /\ wallet'[u].exists = wallet[u].exists
                  /\ wallet'[u].pending = wallet[u].pending
                  /\ wallet'[u].available = wallet[u].available - debit(u) + credit(u)
                  /\ u \notin c.locks => wallet'[u].available = wallet[u].available
<1> DEFINE c == call[p]
           debit(u) == IF c.op = "TRANSFER" /\ u = c.user THEN c.amount ELSE 0
           credit(u) == IF u = c.to /\ u \in c.locks THEN c.amount ELSE 0
<1>1. c \in Active /\ CallOK(c) /\ c.pc = "COMMIT" /\ c.pc \in Pcs
  BY Runs DEF CommitMoney, Pcs, IInv
<1>2. /\ c.amount \in Amounts \cup TopUps /\ c.amount \in Int
      /\ c.op = "TRANSFER" => Covered(c) /\ c.amount \in Amounts
  BY <1>1, FinanceAssumption DEF CommitMoney, CallOK
<1>3. wallet \in [Users -> [exists : BOOLEAN, available : Int, pending : Int]]
  BY DEF IInv, RowsOK
<1>4. wallet' = [u \in Users |-> [wallet[u] EXCEPT !.available =
                   @ - debit(u) + (IF u \in c.locks THEN (IF u = c.to THEN c.amount ELSE 0) ELSE 0)]]
  BY DEF CommitMoney
<1>5. \A u \in Users :
        debit(u) \in Int /\ credit(u) \in Int
        /\ credit(u) = (IF u \in c.locks THEN (IF u = c.to THEN c.amount ELSE 0) ELSE 0)
  BY <1>2
<1>6. ASSUME NEW u \in Users, u \notin c.locks PROVE debit(u) = 0 /\ credit(u) = 0
  BY <1>2, <1>6 DEF Covered
<1>7. wallet' = [u \in Users |-> [wallet[u] EXCEPT !.available = @ - debit(u) + credit(u)]]
  BY <1>4, <1>5
<1> HIDE DEF debit, credit
<1>8. wallet' \in [Users -> [exists : BOOLEAN, available : Int, pending : Int]]
  BY <1>3, <1>5, <1>7
<1>9. \A u \in Users :
        /\ wallet'[u].exists = wallet[u].exists
        /\ wallet'[u].pending = wallet[u].pending
        /\ wallet'[u].available = wallet[u].available - debit(u) + credit(u)
  BY <1>3, <1>5, <1>7
<1>10. \A u \in Users : u \notin c.locks => wallet'[u].available = wallet[u].available
  <2>1. \A u \in Users : wallet[u].available \in Int
    BY <1>3
  <2> QED BY <1>6, <1>9, <2>1
<1> QED BY <1>1, <1>2, <1>8, <1>9, <1>10 DEF debit, credit

LEMMA CommitMoneyStep == ASSUME IInv, NEW p \in Calls, CommitMoney(p) PROVE IInv'
<1> DEFINE c == call[p]
<1>1. /\ c \in Active /\ CallOK(c) /\ c.pc \in Pcs
      /\ wallet' \in [Users -> [exists : BOOLEAN, available : Int, pending : Int]]
      /\ \A u \in Users :
           /\ wallet'[u].exists = wallet[u].exists
           /\ wallet'[u].pending = wallet[u].pending
           /\ u \notin c.locks => wallet'[u].available = wallet[u].available
  BY MoneyRows
<1>2. withdrawal' = withdrawal /\ call' = [call EXCEPT ![p] = Done]
  BY DEF CommitMoney
<1>3. RowsOK'
  <2>1. \A w \in Withdrawals : withdrawal[w] # NotMade => withdrawal[w].user \in Users
    BY DEF IInv, RowsOK, Made
  <2>2. \A u \in Users : ~wallet[u].exists => u \notin c.locks
    BY <1>1 DEF CallOK
  <2> QED BY <1>1, <1>2, <2>1, <2>2 DEF IInv, RowsOK
<1>4. ASSUME NEW q \in Calls \ {p}, call'[q] = call[q] PROVE CallOK(call[q])'
  <2>1. call[q].locks \subseteq Users /\ (\A u \in call[q].locks : u \notin c.locks)
    BY Records DEF IInv, Active, Apart
  <2>2. \A u \in Users : wallet'[u].available \in Int /\ wallet[u].available \in Int
    BY <1>1 DEF IInv, RowsOK
  <2>3. \A u \in call[q].locks : wallet'[u].available >= wallet[u].available
    BY <1>1, <2>1, <2>2
  <2>4. Judges(call[q]) => withdrawal'[call[q].row] # NotMade
    BY <1>2, Records DEF IInv, CallOK, Judges
  <2> QED BY <1>1, <1>2, <1>4, <2>2, <2>3, <2>4, Undisturbed
<1> QED BY <1>2, <1>3, <1>4, Ends

\* wallet.service, requestPayout and finalizePayout.
LEMMA RowOperations ==
  ASSUME NEW r \in [exists : BOOLEAN, available : Int, pending : Int], NEW n \in Nat
  PROVE  /\ LET s == Reserved(r, n) IN
            /\ s \in [exists : BOOLEAN, available : Int, pending : Int]
            /\ s.exists = r.exists /\ s.available = r.available - n /\ s.pending = r.pending + n
         /\ LET s == Paid(r, n) IN
            /\ s \in [exists : BOOLEAN, available : Int, pending : Int]
            /\ s.exists = r.exists /\ s.available = r.available /\ s.pending = r.pending - n
         /\ LET s == Returned(r, n) IN
            /\ s \in [exists : BOOLEAN, available : Int, pending : Int]
            /\ s.exists = r.exists /\ s.available = r.available + n /\ s.pending = r.pending - n
<1>1. r.available \in Int /\ r.pending \in Int
  OBVIOUS
<1>2. /\ r.available - n \in Int /\ r.available + n \in Int
      /\ r.pending - n \in Int /\ r.pending + n \in Int
  BY <1>1
<1> QED BY <1>1, <1>2 DEF Reserved, Paid, Returned

\* What a request for a withdrawal makes of the rows.
LEMMA RequestRows ==
  ASSUME IInv, NEW p \in Calls, CommitRequest(p)
  PROVE  LET c == call[p] IN
         /\ c \in Active /\ CallOK(c) /\ Asks(c) /\ Covered(c)
         /\ c.user \in Users /\ c.amount \in Amounts /\ c.amount \in Nat /\ c.row \in Withdrawals
         /\ withdrawal[c.row] = NotMade
         /\ withdrawal' = [withdrawal EXCEPT ![c.row] =
                             [status |-> "PENDING", user |-> c.user, amount |-> c.amount]]
         /\ wallet' \in [Users -> [exists : BOOLEAN, available : Int, pending : Int]]
         /\ \A u \in Users :
              /\ wallet'[u].exists = wallet[u].exists
              /\ wallet'[u].available = IF u = c.user THEN wallet[u].available - c.amount
                                        ELSE wallet[u].available
              /\ wallet'[u].pending = IF u = c.user THEN wallet[u].pending + c.amount
                                      ELSE wallet[u].pending
<1> DEFINE c == call[p]
<1>1. c \in Active /\ CallOK(c) /\ c.pc = "COMMIT" /\ c.pc \in Pcs /\ c.op = "REQUEST"
  BY Runs DEF CommitRequest, Pcs, IInv
<1>2. /\ Asks(c) /\ Covered(c) /\ c.user \in Users
      /\ c.amount \in Amounts /\ c.row \in Withdrawals /\ withdrawal[c.row] = NotMade
  BY <1>1 DEF CallOK, Asks, Active
<1>3. c.amount \in Nat
  BY <1>2, FinanceAssumption
<1>4. wallet \in [Users -> [exists : BOOLEAN, available : Int, pending : Int]]
  BY DEF IInv, RowsOK
<1>5. /\ wallet' = [wallet EXCEPT ![c.user] = Reserved(wallet[c.user], c.amount)]
      /\ withdrawal' = [withdrawal EXCEPT ![c.row] =
                          [status |-> "PENDING", user |-> c.user, amount |-> c.amount]]
  BY DEF CommitRequest
<1>6. LET r == wallet[c.user]
          s == Reserved(r, c.amount)
      IN  /\ s \in [exists : BOOLEAN, available : Int, pending : Int]
          /\ s.exists = r.exists /\ s.available = r.available - c.amount
          /\ s.pending = r.pending + c.amount
  <2> DEFINE r == wallet[c.user]
  <2>1. r \in [exists : BOOLEAN, available : Int, pending : Int]
    BY <1>2, <1>4
  <2> QED BY <1>3, <2>1, RowOperations
<1> HIDE DEF c
<1> QED BY <1>1, <1>2, <1>3, <1>4, <1>5, <1>6 DEF c

LEMMA CommitRequestStep == ASSUME IInv, NEW p \in Calls, CommitRequest(p) PROVE IInv'
<1> DEFINE c == call[p]
           m == [status |-> "PENDING", user |-> c.user, amount |-> c.amount]
<1>1. /\ c \in Active /\ CallOK(c) /\ Asks(c) /\ Covered(c)
      /\ c.user \in Users /\ c.amount \in Amounts /\ c.row \in Withdrawals
      /\ withdrawal' = [withdrawal EXCEPT ![c.row] = m]
      /\ wallet' \in [Users -> [exists : BOOLEAN, available : Int, pending : Int]]
      /\ \A u \in Users :
           /\ wallet'[u].exists = wallet[u].exists
           /\ u # c.user => /\ wallet'[u].available = wallet[u].available
                            /\ wallet'[u].pending = wallet[u].pending
  BY RequestRows
<1>2. call' = [call EXCEPT ![p] = Done]
  BY DEF CommitRequest
<1>3. wallet[c.user].exists
  BY <1>1 DEF CallOK, Covered, Asks
<1>4. m \in Made /\ m.user = c.user
  BY <1>1 DEF Made
<1>5. /\ withdrawal \in [Withdrawals -> {NotMade} \cup Made]
      /\ \A w \in Withdrawals : withdrawal'[w] = IF w = c.row THEN m ELSE withdrawal[w]
  BY <1>1 DEF IInv, RowsOK
<1> HIDE DEF m
<1>6. RowsOK'
  <2>1. withdrawal' \in [Withdrawals -> {NotMade} \cup Made]
    BY <1>1, <1>4, <1>5
  <2>2. \A u \in Users : ~wallet'[u].exists => wallet'[u].available = 0 /\ wallet'[u].pending = 0
    BY <1>1, <1>3 DEF IInv, RowsOK
  <2>3. ASSUME NEW w \in Withdrawals, withdrawal'[w] # NotMade PROVE wallet'[withdrawal'[w].user].exists
    <3>1. CASE w = c.row
      BY <1>1, <1>3, <1>4, <1>5, <3>1
    <3>2. CASE w # c.row
      <4>1. withdrawal'[w] = withdrawal[w] /\ withdrawal[w] # NotMade
        BY <1>5, <2>3, <3>2
      <4>2. wallet[withdrawal[w].user].exists /\ withdrawal[w].user \in Users
        BY <4>1 DEF IInv, RowsOK, Made
      <4> QED BY <1>1, <4>1, <4>2
    <3> QED BY <3>1, <3>2
  <2> QED BY <1>1, <2>1, <2>2, <2>3 DEF RowsOK
<1>7. ASSUME NEW q \in Calls \ {p}, call'[q] = call[q] PROVE CallOK(call[q])'
  <2>1. call[q].locks \subseteq Users /\ c.user \notin call[q].locks
    BY <1>1, Records DEF IInv, Active, Apart, Covered
  <2>2. \A u \in Users : wallet'[u].available \in Int /\ wallet[u].available \in Int
    BY <1>1 DEF IInv, RowsOK
  <2>3. \A u \in call[q].locks : wallet'[u].available >= wallet[u].available
    BY <1>1, <2>1, <2>2
  <2>4. Asks(call[q]) => withdrawal'[call[q].row] = withdrawal[call[q].row]
    <3>1. Asks(call[q]) => call[q].row # c.row /\ call[q].row \in Withdrawals
      BY <1>1 DEF IInv, Apart, CallOK, Asks
    <3> QED BY <1>5, <3>1
  <2>5. Judges(call[q]) => /\ withdrawal'[call[q].row] = withdrawal[call[q].row]
                           /\ withdrawal[call[q].row] # NotMade
    <3>1. Judges(call[q]) => withdrawal[call[q].row] # NotMade /\ call[q].row \in Withdrawals
      BY Records DEF IInv, CallOK, Judges
    <3>2. withdrawal[c.row] = NotMade
      BY <1>1 DEF CallOK, Asks
    <3> QED BY <1>5, <3>1, <3>2
  <2>6. Decides(call[q]) => Judges(call[q])
    BY DEF Decides
  <2> QED BY <1>1, <1>7, <2>2, <2>3, <2>4, <2>5, <2>6, Undisturbed
<1> QED BY <1>2, <1>6, <1>7, Ends

\* What a decision makes of the rows.
LEMMA DecisionRows ==
  ASSUME IInv, NEW p \in Calls, CommitDecision(p)
  PROVE  LET c == call[p]
             s == IF c.op = "APPROVE" THEN "COMPLETED" ELSE "REJECTED"
         IN
         /\ c \in Active /\ Decides(c) /\ Judges(c)
         /\ c.user \in Users /\ c.amount \in Nat /\ c.row \in Withdrawals
         /\ withdrawal[c.row] \in Made /\ withdrawal[c.row].status = "PENDING"
         /\ withdrawal[c.row].user = c.user /\ withdrawal[c.row].amount = c.amount
         /\ withdrawal' = [withdrawal EXCEPT ![c.row].status = s]
         /\ wallet' \in [Users -> [exists : BOOLEAN, available : Int, pending : Int]]
         /\ \A u \in Users :
              /\ wallet'[u].exists = wallet[u].exists
              /\ wallet'[u].available = IF u = c.user /\ c.op = "REJECT"
                                        THEN wallet[u].available + c.amount ELSE wallet[u].available
              /\ wallet'[u].pending = IF u = c.user THEN wallet[u].pending - c.amount
                                      ELSE wallet[u].pending
<1> DEFINE c == call[p]
           s == IF c.op = "APPROVE" THEN "COMPLETED" ELSE "REJECTED"
           r == wallet[c.user]
           new == IF c.op = "APPROVE" THEN Paid(r, c.amount) ELSE Returned(r, c.amount)
<1>1. c \in Active /\ CallOK(c) /\ c.pc = "COMMIT" /\ c.pc \in Pcs /\ c.op \in {"APPROVE", "REJECT"}
  BY Runs DEF CommitDecision, Pcs, IInv
<1>2. Judges(c) /\ Decides(c)
  BY <1>1 DEF Judges, Decides
<1>3. /\ c.user \in Users /\ c.amount \in Nat /\ c.row \in Withdrawals
      /\ withdrawal[c.row] # NotMade /\ withdrawal[c.row].status = "PENDING"
      /\ withdrawal[c.row].user = c.user /\ withdrawal[c.row].amount = c.amount
  BY <1>1, <1>2, FinanceAssumption DEF CallOK, Active
<1>4. withdrawal[c.row] \in Made
  BY <1>3 DEF IInv, RowsOK
<1>5. wallet \in [Users -> [exists : BOOLEAN, available : Int, pending : Int]]
  BY DEF IInv, RowsOK
<1>6. wallet' = [wallet EXCEPT ![c.user] = new] /\ withdrawal' = [withdrawal EXCEPT ![c.row].status = s]
  BY DEF CommitDecision
<1>7. /\ new \in [exists : BOOLEAN, available : Int, pending : Int]
      /\ new.exists = r.exists /\ new.pending = r.pending - c.amount
      /\ new.available = IF c.op = "REJECT" THEN r.available + c.amount ELSE r.available
  <2>1. r \in [exists : BOOLEAN, available : Int, pending : Int]
    BY <1>3, <1>5
  <2>2. CASE c.op = "APPROVE"
    BY <1>3, <2>1, <2>2, RowOperations
  <2>3. CASE c.op = "REJECT"
    BY <1>3, <2>1, <2>3, RowOperations
  <2> QED BY <1>1, <2>2, <2>3
<1> HIDE DEF new, c
<1>8. /\ wallet' \in [Users -> [exists : BOOLEAN, available : Int, pending : Int]]
      /\ \A u \in Users : wallet'[u] = IF u = c.user THEN new ELSE wallet[u]
  BY <1>3, <1>5, <1>6, <1>7
<1> QED BY <1>1, <1>2, <1>3, <1>4, <1>6, <1>7, <1>8 DEF c

LEMMA CommitDecisionStep == ASSUME IInv, NEW p \in Calls, CommitDecision(p) PROVE IInv'
<1> DEFINE c == call[p]
           s == IF c.op = "APPROVE" THEN "COMPLETED" ELSE "REJECTED"
           m == [withdrawal[c.row] EXCEPT !.status = s]
<1>1. /\ c \in Active /\ Decides(c) /\ c.user \in Users /\ c.amount \in Nat /\ c.row \in Withdrawals
      /\ withdrawal[c.row] \in Made
      /\ withdrawal' = [withdrawal EXCEPT ![c.row].status = s]
      /\ wallet' \in [Users -> [exists : BOOLEAN, available : Int, pending : Int]]
      /\ \A u \in Users : wallet'[u].exists = wallet[u].exists
      /\ \A u \in Users \ {c.user} : /\ wallet'[u].available = wallet[u].available
                                     /\ wallet'[u].pending = wallet[u].pending
      /\ wallet'[c.user].available \in {wallet[c.user].available, wallet[c.user].available + c.amount}
      /\ withdrawal[c.row].user = c.user
  BY DecisionRows
<1>2. call' = [call EXCEPT ![p] = Done]
  BY DEF CommitDecision
<1>3. /\ m \in Made /\ m.user = withdrawal[c.row].user /\ m.amount = withdrawal[c.row].amount
      /\ withdrawal[c.row] # NotMade /\ m # NotMade
  <2>1. m \in Made /\ m.user = withdrawal[c.row].user /\ m.amount = withdrawal[c.row].amount
    BY <1>1 DEF Made
  <2> HIDE DEF m
  <2> QED BY <1>1, <2>1, Distinct
<1>4. \A w \in Withdrawals : withdrawal'[w] = IF w = c.row THEN m ELSE withdrawal[w]
  BY <1>1 DEF IInv, RowsOK
<1> HIDE DEF m, s
<1>5. wallet[c.user].exists
  BY <1>1, <1>3 DEF IInv, RowsOK
<1>6. RowsOK'
  <2>1. withdrawal' \in [Withdrawals -> {NotMade} \cup Made]
    BY <1>1, <1>3, <1>4 DEF IInv, RowsOK
  <2>2. \A u \in Users : ~wallet'[u].exists => wallet'[u].available = 0 /\ wallet'[u].pending = 0
    BY <1>1, <1>5 DEF IInv, RowsOK
  <2>3. ASSUME NEW w \in Withdrawals, withdrawal'[w] # NotMade PROVE wallet'[withdrawal'[w].user].exists
    <3>1. withdrawal[w] # NotMade /\ withdrawal'[w].user = withdrawal[w].user
      BY <1>3, <1>4, <2>3
    <3>2. wallet[withdrawal[w].user].exists /\ withdrawal[w].user \in Users
      BY <3>1 DEF IInv, RowsOK, Made
    <3> QED BY <1>1, <3>1, <3>2
  <2> QED BY <1>1, <2>1, <2>2, <2>3 DEF RowsOK
<1>7. ASSUME NEW q \in Calls \ {p}, call'[q] = call[q] PROVE CallOK(call[q])'
  <2>1. call[q].locks \subseteq Users
    BY Records DEF IInv, Active
  <2>2. \A u \in Users : /\ wallet'[u].available \in Int /\ wallet[u].available \in Int
                         /\ wallet'[u].available >= wallet[u].available
    BY <1>1 DEF IInv, RowsOK
  <2>3. Asks(call[q]) => withdrawal'[call[q].row] = withdrawal[call[q].row]
    <3>1. Asks(call[q]) => call[q].row \in Withdrawals /\ withdrawal[call[q].row] = NotMade
      BY DEF IInv, CallOK, Asks
    <3> QED BY <1>3, <1>4, <3>1
  <2>4. Judges(call[q]) =>
          /\ withdrawal'[call[q].row] # NotMade
          /\ withdrawal'[call[q].row].user = withdrawal[call[q].row].user
          /\ withdrawal'[call[q].row].amount = withdrawal[call[q].row].amount
    <3>1. Judges(call[q]) => call[q].row \in Withdrawals /\ withdrawal[call[q].row] # NotMade
      BY Records DEF IInv, CallOK, Judges
    <3> QED BY <1>3, <1>4, <3>1
  <2>5. Decides(call[q]) => withdrawal'[call[q].row].status = withdrawal[call[q].row].status
    <3>1. Decides(call[q]) => call[q].row # c.row /\ call[q].row \in Withdrawals
      BY <1>1 DEF IInv, Apart, CallOK, Decides, Judges
    <3> QED BY <1>4, <3>1
  <2> QED BY <1>1, <1>7, <2>1, <2>2, <2>3, <2>4, <2>5, Undisturbed
<1> QED BY <1>2, <1>6, <1>7, Ends

-----------------------------------------------------------------------------
(* The invariant *)

LEMMA InitIInv == Init => IInv
<1> SUFFICES ASSUME Init PROVE IInv
  OBVIOUS
<1>1. RowsOK
  BY FinanceAssumption DEF Init, RowsOK, Row, NoRow
<1>2. \A p \in Calls : call[p] = Idle
  BY DEF Init
<1>3. call \in [Calls -> {Idle, Done} \cup Active]
  BY DEF Init
<1> QED BY <1>1, <1>2, <1>3, Records DEF IInv, CallOK, Apart, Asks, Judges, Decides

LEMMA RequestsStep == ASSUME IInv, NEW p \in Calls, Requests(p) PROVE IInv'
  BY GetWalletStep, DepositStep, TopUpStep, TransferStep, RequestStep, DecideStep DEF Requests

LEMMA QueriesStep == ASSUME IInv, NEW p \in Calls, Queries(p) PROVE IInv'
<1>1. CASE BreakDeadlock(p)
  BY <1>1, Aborts DEF BreakDeadlock
<1> QED BY <1>1, ReadWalletStep, MakeWalletStep, DebitStep, CreditStep, LockWithdrawalStep,
           FinalizePayoutStep, NotifyStep, CommitMoneyStep, CommitRequestStep, CommitDecisionStep
        DEF Queries

LEMMA IInvStep == IInv /\ [Next]_vars => IInv'
<1> SUFFICES ASSUME IInv, [Next]_vars PROVE IInv'
  OBVIOUS
<1>1. CASE UNCHANGED vars
  BY <1>1 DEF vars, IInv, RowsOK, CallOK, Apart, Phase, Covered, Asks, Judges, Decides
<1>2. ASSUME NEW p \in Calls, Fails(p) PROVE IInv'
  BY <1>2, Aborts DEF Fails
<1> QED BY <1>1, <1>2, RequestsStep, QueriesStep DEF Next

-----------------------------------------------------------------------------
(* Money *)

\* What the withdrawals W hold for a user, one by one and together.
Part(W, u, status) ==
  [w \in Withdrawals |-> IF W[w].status = status /\ W[w].user = u THEN W[w].amount ELSE 0]
Total(W, u, status) == SumFunctionOnSet(Part(W, u, status), Withdrawals)

\* A row of the ledger is opened for good, and a deposit finds it.
Credited(c) ==
  c.pc = "COMMIT" /\ c.op \in {"DEPOSIT", "TOPUP", "TRANSFER"} /\ c.to \in Opened => c.to \in c.locks

\* With IInv, all that MoneyIsExplained rests on.
MInv ==
  /\ IInv
  /\ ledger \in [Users -> Int]
  /\ taken \in [Users -> Nat] /\ unplaced \in [Users -> Int]
  /\ \A u \in Users : wallet[u].available >= -taken[u]
  /\ \A u \in Opened : wallet[u].exists
  /\ \A p \in Calls : Credited(call[p])
  /\ MoneyIsExplained

Whole == [exists : BOOLEAN, available : Int, pending : Int]

LEMMA SumIsTotal ==
  ASSUME NEW u, NEW s
  PROVE  /\ Sum(u, s) = Total(withdrawal, u, s)
         /\ Sum(u, s)' = Total(withdrawal', u, s)
<1>1. Sum(u, s) = Total(withdrawal, u, s)
  BY DEF Sum, Total, Part, SumFunction
<1>2. Sum(u, s)' = Total(withdrawal', u, s)
  BY DEF Sum, Total, Part, SumFunction
<1> QED BY <1>1, <1>2

LEMMA PartNat ==
  ASSUME NEW W \in [Withdrawals -> {NotMade} \cup Made], NEW u, NEW s \in {"PENDING", "COMPLETED"}
  PROVE  /\ \A w \in Withdrawals : Part(W, u, s)[w] \in Nat
         /\ Total(W, u, s) \in Nat
<1>1. NotMade.status = "NONE"
  BY DEF NotMade, None
<1>2. ASSUME NEW w \in Withdrawals PROVE Part(W, u, s)[w] \in Nat
  <2>1. W[w].status = s => W[w].amount \in Nat
    <3>1. CASE W[w] = NotMade
      BY <3>1, <1>1
    <3>2. CASE W[w] \in Made
      BY <3>2, FinanceAssumption DEF Made
    <3> QED BY <3>1, <3>2
  <2> QED BY <2>1 DEF Part
<1> QED BY <1>2, SumNat, FinanceAssumption DEF Total

\* One withdrawal changes: the total follows it.
LEMMA TotalChange ==
  ASSUME NEW W \in [Withdrawals -> {NotMade} \cup Made],
         NEW V \in [Withdrawals -> {NotMade} \cup Made],
         NEW u, NEW s \in {"PENDING", "COMPLETED"},
         NEW w \in Withdrawals, \A x \in Withdrawals : x # w => V[x] = W[x]
  PROVE  Total(V, u, s) = Total(W, u, s) + Part(V, u, s)[w] - Part(W, u, s)[w]
<1>1. \A x \in Withdrawals : Part(W, u, s)[x] \in Nat /\ Part(V, u, s)[x] \in Nat
  BY PartNat
<1>2. \A x \in Withdrawals \ {w} : Part(W, u, s)[x] = Part(V, u, s)[x]
  BY DEF Part
<1>3. \A x \in Withdrawals : Part(W, u, s)[x] \in Int /\ Part(V, u, s)[x] \in Int
  BY <1>1
<1> QED BY <1>2, <1>3, SumChange, FinanceAssumption DEF Total

\* A step that leaves wallets, withdrawals and ledger explains as much as before.
LEMMA MoneyStays ==
  ASSUME MInv, IInv', UNCHANGED <<withdrawal, ledger, history>>,
         \A u \in Users : /\ wallet'[u].available = wallet[u].available
                          /\ wallet'[u].pending = wallet[u].pending
                          /\ wallet[u].exists => wallet'[u].exists,
         \A p \in Calls : Credited(call'[p])
  PROVE  MInv'
<1>1. \A u \in Users : Balance(u)' = Balance(u)
  BY DEF Balance
<1>2. \A u, s : Sum(u, s)' = Sum(u, s)
  BY SumIsTotal
<1>3. MoneyIsExplained'
  BY <1>1, <1>2 DEF MInv, MoneyIsExplained, PendingIsUndecided, LedgerExplains, history
<1>4. \A p \in Calls : Credited(call[p])'
  BY DEF Credited
<1> QED BY <1>3, <1>4, FinanceAssumption DEF MInv, history

\* wallet.service, getOrCreateWallet: an empty row explains itself.
LEMMA MakeWalletMoney == ASSUME MInv, NEW p \in Calls, MakeWallet(p) PROVE MInv'
<1> DEFINE u == call[p].user
<1>1. IInv'
  BY MakeWalletStep DEF MInv
<1>2. \A v \in Users : /\ wallet'[v].available = wallet[v].available
                       /\ wallet'[v].pending = wallet[v].pending
                       /\ wallet[v].exists => wallet'[v].exists
  <2>1. CASE wallet' = wallet
    BY <2>1
  <2>2. CASE ~wallet[u].exists /\ wallet' = [wallet EXCEPT ![u] = Row(0)]
    <3>1. u \in Users
      BY Runs DEF MInv, MakeWallet, Pcs, Active
    <3>2. \A v \in Users : wallet'[v] = IF v = u THEN Row(0) ELSE wallet[v]
      BY <2>2 DEF MInv, IInv, RowsOK
    <3>3. Row(0).available = 0 /\ Row(0).pending = 0 /\ Row(0).exists
      BY DEF Row
    <3>4. wallet[u].available = 0 /\ wallet[u].pending = 0
      BY <2>2, <3>1 DEF MInv, IInv, RowsOK
    <3> HIDE DEF u
    <3> QED BY <3>2, <3>3, <3>4
  <2> QED BY <2>1, <2>2 DEF MakeWallet
<1>3. \A q \in Calls : call'[q] = IF q = p THEN Done ELSE call[q]
  BY DEF MakeWallet, MInv, IInv
<1>4. \A q \in Calls : Credited(call'[q])
  BY <1>3 DEF MInv, Credited, Done
<1> QED BY <1>1, <1>2, <1>4, MoneyStays DEF MakeWallet

\* A request goes on: no money moves.
LEMMA OnwardMoney ==
  ASSUME MInv, IInv', NEW p \in Calls, NEW d, call' = [call EXCEPT ![p] = d],
         UNCHANGED <<wallet, withdrawal, ledger, history>>, Credited(d)
  PROVE  MInv'
<1>1. \A q \in Calls : call'[q] = IF q = p THEN d ELSE call[q]
  BY DEF MInv, IInv
<1>2. \A q \in Calls : Credited(call'[q])
  BY <1>1 DEF MInv
<1> QED BY <1>2, MoneyStays

LEMMA DoneCredited == Credited(Done)
  BY DEF Credited, Done

LEMMA RequestsMoney == ASSUME MInv, NEW p \in Calls, Requests(p) PROVE MInv'
<1>1. IInv'
  BY RequestsStep DEF MInv
<1>2. ASSUME NEW op, NEW pc \in {"CREDIT", "DEBIT", "READ BALANCE", "ROW"}, NEW u, NEW v, NEW n, NEW w,
             Begin(p, op, pc, u, v, n, w)
      PROVE  MInv'
  <2> DEFINE d == [op |-> op, pc |-> pc, user |-> u, to |-> v, amount |-> n, row |-> w, locks |-> {}]
  <2>1. d.pc # "COMMIT" /\ call' = [call EXCEPT ![p] = d]
    BY <1>2 DEF Begin
  <2> HIDE DEF d
  <2> QED BY <1>1, <1>2, <2>1, OnwardMoney DEF Begin, Credited
<1>3. ASSUME NEW u \in Users, GetWallet(p, u) PROVE MInv'
  <2> DEFINE d == [op |-> "GET", pc |-> "READ", user |-> u, to |-> u, amount |-> 0, row |-> None,
                   locks |-> {}]
  <2>1. d.pc # "COMMIT" /\ call' = [call EXCEPT ![p] = d]
    BY <1>3 DEF GetWallet
  <2> HIDE DEF d
  <2> QED BY <1>1, <1>3, <2>1, OnwardMoney DEF GetWallet, Credited
<1> QED BY <1>2, <1>3 DEF Requests, Deposit, TopUp, Transfer, Request, Decide

\* The queries that commit nothing: only creditAvailable makes a request that
\* is to credit anyone, with the lock of the row if there is one.
LEMMA QueryMoney ==
  ASSUME MInv, IInv', NEW p \in Calls,
         \/ ReadWallet(p) \/ DebitAvailable(p) \/ CreditAvailable(p) \/ LockWithdrawal(p)
         \/ FinalizePayout(p) \/ Notify(p) \/ Abort(p)
  PROVE  MInv'
<1> DEFINE c == call[p]
<1>0. CASE call' = [call EXCEPT ![p] = Done] /\ UNCHANGED <<wallet, withdrawal, ledger, history>>
  BY <1>0, OnwardMoney, DoneCredited
<1>1. ASSUME NEW pc, pc # "COMMIT", UNCHANGED <<wallet, withdrawal, ledger, history>>,
             Go(p, pc) \/ \E u \in Users : Lock(p, u, pc), c \in Active
      PROVE  MInv'
  <2>1. CASE Go(p, pc)
    <3>1. Credited([c EXCEPT !.pc = pc])
      BY <1>1 DEF Credited, Active
    <3> QED BY <1>1, <2>1, <3>1, OnwardMoney DEF Go
  <2>2. ASSUME NEW u \in Users, Lock(p, u, pc) PROVE MInv'
    <3>1. Credited(Locked(c, pc, u))
      BY <1>1 DEF Credited, Active, Locked
    <3>2. call' = [call EXCEPT ![p] = Locked(c, pc, u)]
      BY <2>2 DEF Lock, Locked
    <3> QED BY <1>1, <3>1, <3>2, OnwardMoney
  <2> QED BY <1>1, <2>1, <2>2
<1>2. CASE ReadWallet(p)
  <2>1. c \in Active
    BY <1>2, Runs DEF ReadWallet, Pcs, MInv
  <2>2. \/ call' = [call EXCEPT ![p] = Done]
        \/ \E pc \in {"MAKE", "MAKE FOR BALANCE", "DEBIT"} : Go(p, pc)
    BY <1>2 DEF ReadWallet
  <2> QED BY <1>0, <1>1, <1>2, <2>1, <2>2 DEF ReadWallet
<1>3. CASE DebitAvailable(p)
  <2>1. c \in Active /\ c.user \in Users
    BY <1>3, Runs DEF DebitAvailable, Pcs, MInv, Active
  <2>2. \/ call' = [call EXCEPT ![p] = Done]
        \/ \E pc \in {"NOTIFY", "CREDIT"} : Lock(p, c.user, pc)
    BY <1>3 DEF DebitAvailable
  <2> QED BY <1>0, <1>1, <1>3, <2>1, <2>2 DEF DebitAvailable
<1>4. CASE CreditAvailable(p)
  <2>1. c \in Active /\ c.to \in Users
    BY <1>4, Runs DEF CreditAvailable, Pcs, MInv, Active
  <2>2. CASE wallet[c.to].exists /\ Lock(p, c.to, "COMMIT")
    <3>1. Locked(c, "COMMIT", c.to).to = c.to /\ c.to \in Locked(c, "COMMIT", c.to).locks
      BY <2>1 DEF Locked, Active
    <3>2. Credited(Locked(c, "COMMIT", c.to))
      BY <3>1 DEF Credited
    <3>3. call' = [call EXCEPT ![p] = Locked(c, "COMMIT", c.to)]
      BY <2>2 DEF Lock, Locked
    <3> QED BY <1>4, <3>2, <3>3, OnwardMoney DEF CreditAvailable
  <2>3. CASE ~wallet[c.to].exists /\ Go(p, "COMMIT")
    <3>1. c.to \notin Opened
      BY <2>3 DEF MInv
    <3>2. Credited([c EXCEPT !.pc = "COMMIT"])
      BY <2>1, <3>1 DEF Credited, Active
    <3> QED BY <1>4, <2>3, <3>2, OnwardMoney DEF Go, CreditAvailable
  <2> QED BY <1>4, <2>2, <2>3 DEF CreditAvailable
<1>5. CASE LockWithdrawal(p)
  <2>1. c \in Active
    BY <1>5, Runs DEF LockWithdrawal, Pcs, MInv
  <2> QED BY <1>0, <1>1, <1>5, <2>1 DEF LockWithdrawal
<1>6. CASE FinalizePayout(p)
  <2>1. c \in Active /\ c.user \in Users
    BY <1>6, Runs DEF FinalizePayout, Pcs, MInv, Active
  <2> QED BY <1>1, <1>6, <2>1 DEF FinalizePayout
<1>7. CASE Notify(p)
  <2>1. c \in Active /\ CallOK(c) /\ c.pc = "NOTIFY"
    BY <1>7, Runs DEF Notify, Pcs, MInv, IInv
  <2>2. c.op \notin {"DEPOSIT", "TOPUP", "TRANSFER"}
    BY <2>1 DEF CallOK, Phase, Pcs
  <2>3. Credited([c EXCEPT !.pc = "COMMIT"])
    BY <2>1, <2>2 DEF Credited, Active
  <2> QED BY <1>7, <2>3, OnwardMoney DEF Go, Notify
<1> QED BY <1>0, <1>2, <1>3, <1>4, <1>5, <1>6, <1>7 DEF Abort

\* deposit.service, the investments' transfer: who is debited is covered, who
\* had a row from the start is credited what the ledger says.
LEMMA CommitMoneyMoney == ASSUME MInv, NEW p \in Calls, CommitMoney(p) PROVE MInv'
<1> DEFINE c == call[p]
           debit(u) == IF c.op = "TRANSFER" /\ u = c.user THEN c.amount ELSE 0
           credit(u) == IF u = c.to THEN c.amount ELSE 0
           got(u) == IF u = c.to /\ u \in c.locks THEN c.amount ELSE 0
           loss(u) == IF got(u) < 0 THEN got(u) ELSE 0
<1>0. IInv /\ IInv'
  BY CommitMoneyStep DEF MInv
<1>1. /\ c \in Active /\ c.amount \in Int /\ c.pc = "COMMIT"
      /\ c.op = "TRANSFER" => Covered(c) /\ c.amount \in Nat
      /\ \A u \in Users :
           /\ wallet'[u].exists = wallet[u].exists
           /\ wallet'[u].pending = wallet[u].pending
           /\ wallet'[u].available = wallet[u].available - debit(u) + got(u)
  BY <1>0, MoneyRows, FinanceAssumption
<1>2. /\ ledger' = [u \in Users |-> ledger[u] - debit(u) + credit(u)]
      /\ withdrawal' = withdrawal /\ call' = [call EXCEPT ![p] = Done]
      /\ c.op \in {"DEPOSIT", "TOPUP", "TRANSFER"}
  BY DEF CommitMoney
<1>3. \A u \in Users : /\ wallet[u].available \in Int /\ wallet[u].pending \in Int
                       /\ ledger[u] \in Int /\ taken[u] \in Nat /\ unplaced[u] \in Int
                       /\ wallet[u].available >= -taken[u]
  BY DEF MInv, IInv, RowsOK
<1>4. Credited(c)
  BY DEF MInv
<1>5. ASSUME NEW u \in Users
      PROVE  /\ debit(u) \in Nat /\ credit(u) \in Int /\ got(u) \in Int
             /\ got(u) = (IF u \in c.locks THEN IF u = c.to THEN c.amount ELSE 0 ELSE 0)
             /\ u \in Opened => got(u) = credit(u)
             /\ debit(u) = 0 \/ (debit(u) <= wallet[u].available /\ got(u) >= 0)
  BY <1>1, <1>2, <1>3, <1>4 DEF Credited, Covered
<1>16. /\ unplaced' = [u \in Users |-> unplaced[u] + credit(u) - got(u)]
       /\ taken' = [u \in Users |-> taken[u] - loss(u)]
  BY <1>5 DEF CommitMoney
<1>17. \A u \in Users : loss(u) \in Int /\ loss(u) <= 0 /\ loss(u) <= got(u)
                         /\ (got(u) >= 0 => loss(u) = 0)
  BY <1>5
<1> HIDE DEF debit, credit, got, loss
<1>6. /\ ledger' \in [Users -> Int] /\ unplaced' \in [Users -> Int] /\ taken' \in [Users -> Nat]
      /\ \A u \in Users : /\ ledger'[u] = ledger[u] - debit(u) + credit(u)
                           /\ unplaced'[u] = unplaced[u] + credit(u) - got(u)
                           /\ taken'[u] = taken[u] - loss(u)
  BY <1>2, <1>3, <1>5, <1>16, <1>17
<1>7. \A u \in Users : wallet'[u].available >= -taken'[u]
  BY <1>1, <1>3, <1>5, <1>6, <1>17
<1>8. \A u, s : Sum(u, s)' = Sum(u, s)
  BY <1>2, SumIsTotal
<1>9. \A u \in Users : Balance(u)' = Balance(u) - debit(u) + got(u) /\ Balance(u) \in Int
  BY <1>1, <1>3, <1>5 DEF Balance
<1>10. ASSUME NEW u \in Users
       PROVE  /\ wallet'[u].pending = Sum(u, "PENDING")'
              /\ (Balance(u) + Sum(u, "COMPLETED") + unplaced[u] = ledger[u])'
              /\ u \in Opened => unplaced[u]' = 0
  <2>1. Sum(u, "COMPLETED") \in Nat
    BY SumIsTotal, PartNat DEF MInv, IInv, RowsOK
  <2>2. /\ wallet[u].pending = Sum(u, "PENDING")
        /\ Balance(u) + Sum(u, "COMPLETED") + unplaced[u] = ledger[u]
        /\ u \in Opened => unplaced[u] = 0
    BY DEF MInv, MoneyIsExplained, PendingIsUndecided, LedgerExplains
  <2>3. Sum(u, "COMPLETED")' = Sum(u, "COMPLETED") /\ Sum(u, "PENDING")' = Sum(u, "PENDING")
    BY <1>8
  <2> QED BY <1>1, <1>3, <1>5, <1>6, <1>9, <2>1, <2>2, <2>3
<1>11. MoneyIsExplained'
  BY <1>10 DEF MoneyIsExplained, PendingIsUndecided, LedgerExplains
<1>12. \A q \in Calls : call'[q] = IF q = p THEN Done ELSE call[q]
  BY <1>2 DEF MInv, IInv
<1>13. \A q \in Calls : Credited(call'[q])
  BY <1>12, DoneCredited DEF MInv
<1>14. \A q \in Calls : Credited(call[q])'
  BY <1>13 DEF Credited
<1>15. \A u \in Opened : wallet'[u].exists
  BY <1>1, FinanceAssumption DEF MInv
<1> QED BY <1>0, <1>6, <1>7, <1>11, <1>14, <1>15 DEF MInv

\* withdrawal.service, request: what leaves the balance is pending, and owed.
LEMMA CommitRequestMoney == ASSUME MInv, NEW p \in Calls, CommitRequest(p) PROVE MInv'
<1> DEFINE c == call[p]
           V == withdrawal'
<1>0. IInv /\ IInv'
  BY CommitRequestStep DEF MInv
<1>1. /\ Covered(c)
      /\ c.user \in Users /\ c.amount \in Nat /\ c.row \in Withdrawals
      /\ withdrawal[c.row] = NotMade
      /\ V = [withdrawal EXCEPT ![c.row] =
                          [status |-> "PENDING", user |-> c.user, amount |-> c.amount]]
      /\ \A u \in Users :
           /\ wallet'[u].exists = wallet[u].exists
           /\ wallet'[u].available = IF u = c.user THEN wallet[u].available - c.amount
                                     ELSE wallet[u].available
           /\ wallet'[u].pending = IF u = c.user THEN wallet[u].pending + c.amount
                                   ELSE wallet[u].pending
  BY <1>0, RequestRows
<1>2. ledger' = ledger /\ taken' = taken /\ unplaced' = unplaced /\ call' = [call EXCEPT ![p] = Done]
  BY DEF CommitRequest, history
<1>3. \A u \in Users : /\ wallet[u].available \in Int /\ wallet[u].pending \in Int
                       /\ ledger[u] \in Int /\ unplaced[u] \in Int
                       /\ taken[u] \in Nat /\ wallet[u].available >= -taken[u]
  BY DEF MInv, IInv, RowsOK
<1>4. /\ withdrawal \in [Withdrawals -> {NotMade} \cup Made]
      /\ V \in [Withdrawals -> {NotMade} \cup Made]
  BY <1>0 DEF IInv, RowsOK
<1>5. /\ \A x \in Withdrawals : x # c.row => V[x] = withdrawal[x]
      /\ V[c.row].status = "PENDING" /\ V[c.row].user = c.user /\ V[c.row].amount = c.amount
  BY <1>1, <1>4
<1> HIDE DEF c, V
<1>6. ASSUME NEW u \in Users, NEW s \in {"PENDING", "COMPLETED"}
      PROVE  Total(V, u, s) = Total(withdrawal, u, s)
                              + (IF s = "PENDING" /\ u = c.user THEN c.amount ELSE 0)
  <2>1. Total(V, u, s) = Total(withdrawal, u, s) + Part(V, u, s)[c.row] - Part(withdrawal, u, s)[c.row]
    <3>1. PICK w \in Withdrawals : w = c.row
      BY <1>1
    <3>2. \A x \in Withdrawals : x # w => V[x] = withdrawal[x]
      BY <1>5, <3>1
    <3>3. Total(V, u, s) = Total(withdrawal, u, s) + Part(V, u, s)[w] - Part(withdrawal, u, s)[w]
      BY <1>4, <3>2, TotalChange
    <3> QED BY <3>1, <3>3
  <2>2. Part(withdrawal, u, s)[c.row] = 0
    BY <1>1 DEF Part, NotMade, None
  <2>3. Part(V, u, s)[c.row] = IF s = "PENDING" /\ u = c.user THEN c.amount ELSE 0
    BY <1>1, <1>5 DEF Part
  <2>4. Total(withdrawal, u, s) \in Nat
    BY <1>4, PartNat
  <2> QED BY <1>1, <2>1, <2>2, <2>3, <2>4
<1>7. ASSUME NEW u \in Users
      PROVE  /\ wallet'[u].pending = Sum(u, "PENDING")'
             /\ (Balance(u) + Sum(u, "COMPLETED") + unplaced[u] = ledger[u])'
             /\ u \in Opened => unplaced[u]' = 0
  <2>1. Total(withdrawal, u, "PENDING") \in Nat /\ Total(withdrawal, u, "COMPLETED") \in Nat
    BY <1>4, PartNat
  <2>2. /\ wallet[u].pending = Sum(u, "PENDING")
        /\ Balance(u) + Sum(u, "COMPLETED") + unplaced[u] = ledger[u]
        /\ u \in Opened => unplaced[u] = 0
    BY DEF MInv, MoneyIsExplained, PendingIsUndecided, LedgerExplains
  <2>3. /\ Sum(u, "COMPLETED")' = Sum(u, "COMPLETED")
        /\ Sum(u, "PENDING")' = Sum(u, "PENDING") + (IF u = c.user THEN c.amount ELSE 0)
    <3>1. /\ Total(V, u, "COMPLETED") = Total(withdrawal, u, "COMPLETED")
          /\ Total(V, u, "PENDING") = Total(withdrawal, u, "PENDING")
                                      + (IF u = c.user THEN c.amount ELSE 0)
      BY <1>6, <2>1
    <3>2. \A s : Sum(u, s) = Total(withdrawal, u, s) /\ Sum(u, s)' = Total(V, u, s)
      BY SumIsTotal DEF V
    <3> QED BY <3>1, <3>2
  <2>4. Balance(u)' = Balance(u)
    BY <1>1, <1>3 DEF Balance
  <2>5. wallet'[u].pending = Sum(u, "PENDING")'
    BY <1>1, <1>3, <2>2, <2>3
  <2>6. ledger[u]' = ledger[u] /\ unplaced[u]' = unplaced[u]
    BY <1>2
  <2> QED BY <2>2, <2>3, <2>4, <2>5, <2>6
<1>8. MoneyIsExplained'
  BY <1>7 DEF MoneyIsExplained, PendingIsUndecided, LedgerExplains
<1>9. \A u \in Users : wallet'[u].available >= -taken'[u]
  BY <1>1, <1>2, <1>3 DEF Covered
<1>10. \A q \in Calls : call'[q] = IF q = p THEN Done ELSE call[q]
  BY <1>2 DEF MInv, IInv
<1>11. \A q \in Calls : Credited(call'[q])
  BY <1>10, DoneCredited DEF MInv
<1>12. \A q \in Calls : Credited(call[q])'
  BY <1>11 DEF Credited
<1>13. \A u \in Opened : wallet'[u].exists
  BY <1>1, FinanceAssumption DEF MInv
<1> QED BY <1>0, <1>2, <1>8, <1>9, <1>12, <1>13 DEF MInv

\* withdrawal.service, approve and reject: what was pending is paid out or back.
LEMMA CommitDecisionMoney == ASSUME MInv, NEW p \in Calls, CommitDecision(p) PROVE MInv'
<1> DEFINE c == call[p]
           V == withdrawal'
           final == IF c.op = "APPROVE" THEN "COMPLETED" ELSE "REJECTED"
           n == c.amount
<1>0. IInv /\ IInv'
  BY CommitDecisionStep DEF MInv
<1>1. /\ Judges(c)
      /\ c.user \in Users /\ n \in Nat /\ c.row \in Withdrawals
      /\ withdrawal[c.row] \in Made /\ withdrawal[c.row].status = "PENDING"
      /\ withdrawal[c.row].user = c.user /\ withdrawal[c.row].amount = n
      /\ V = [withdrawal EXCEPT ![c.row].status = final]
      /\ \A u \in Users :
           /\ wallet'[u].exists = wallet[u].exists
           /\ wallet'[u].available = IF u = c.user /\ c.op = "REJECT"
                                     THEN wallet[u].available + n ELSE wallet[u].available
           /\ wallet'[u].pending = IF u = c.user THEN wallet[u].pending - n
                                   ELSE wallet[u].pending
  BY <1>0, DecisionRows
<1>2. ledger' = ledger /\ taken' = taken /\ unplaced' = unplaced /\ call' = [call EXCEPT ![p] = Done]
  BY DEF CommitDecision, history
<1>3. \A u \in Users : /\ wallet[u].available \in Int /\ wallet[u].pending \in Int
                       /\ ledger[u] \in Int /\ unplaced[u] \in Int
                       /\ taken[u] \in Nat /\ wallet[u].available >= -taken[u]
  BY DEF MInv, IInv, RowsOK
<1>4. /\ withdrawal \in [Withdrawals -> {NotMade} \cup Made]
      /\ V \in [Withdrawals -> {NotMade} \cup Made]
  BY <1>0 DEF IInv, RowsOK
<1>5. /\ \A x \in Withdrawals : x # c.row => V[x] = withdrawal[x]
      /\ V[c.row].status = final /\ V[c.row].user = c.user /\ V[c.row].amount = n
  BY <1>1, <1>4 DEF Made
<1>6. c.op \in {"APPROVE", "REJECT"}
  BY <1>1 DEF Judges
<1>7. final = IF c.op = "APPROVE" THEN "COMPLETED" ELSE "REJECTED"
  OBVIOUS
<1> HIDE DEF c, V, final, n
<1>8. ASSUME NEW u \in Users, NEW s \in {"PENDING", "COMPLETED"}
      PROVE  Total(V, u, s) = Total(withdrawal, u, s)
                              - (IF s = "PENDING" /\ u = c.user THEN n ELSE 0)
                              + (IF s = final /\ u = c.user THEN n ELSE 0)
  <2>1. Total(V, u, s) = Total(withdrawal, u, s) + Part(V, u, s)[c.row] - Part(withdrawal, u, s)[c.row]
    <3>1. PICK w \in Withdrawals : w = c.row
      BY <1>1
    <3>2. \A x \in Withdrawals : x # w => V[x] = withdrawal[x]
      BY <1>5, <3>1
    <3>3. Total(V, u, s) = Total(withdrawal, u, s) + Part(V, u, s)[w] - Part(withdrawal, u, s)[w]
      BY <1>4, <3>2, TotalChange
    <3> QED BY <3>1, <3>3
  <2>2. Part(withdrawal, u, s)[c.row] = IF s = "PENDING" /\ u = c.user THEN n ELSE 0
    BY <1>1 DEF Part
  <2>3. Part(V, u, s)[c.row] = IF s = final /\ u = c.user THEN n ELSE 0
    BY <1>1, <1>5 DEF Part
  <2>4. Total(withdrawal, u, s) \in Nat
    BY <1>4, PartNat
  <2> QED BY <1>1, <2>1, <2>2, <2>3, <2>4
<1>9. ASSUME NEW u \in Users
      PROVE  /\ wallet'[u].pending = Sum(u, "PENDING")'
             /\ (Balance(u) + Sum(u, "COMPLETED") + unplaced[u] = ledger[u])'
             /\ u \in Opened => unplaced[u]' = 0
  <2>1. Total(withdrawal, u, "PENDING") \in Nat /\ Total(withdrawal, u, "COMPLETED") \in Nat
    BY <1>4, PartNat
  <2>2. /\ wallet[u].pending = Sum(u, "PENDING")
        /\ Balance(u) + Sum(u, "COMPLETED") + unplaced[u] = ledger[u]
        /\ u \in Opened => unplaced[u] = 0
    BY DEF MInv, MoneyIsExplained, PendingIsUndecided, LedgerExplains
  <2>3. /\ Sum(u, "COMPLETED")' =
             Sum(u, "COMPLETED") + (IF c.op = "APPROVE" /\ u = c.user THEN n ELSE 0)
        /\ Sum(u, "PENDING")' = Sum(u, "PENDING") - (IF u = c.user THEN n ELSE 0)
        /\ Sum(u, "COMPLETED") \in Nat /\ Sum(u, "PENDING") \in Nat
    <3>1. /\ Total(V, u, "COMPLETED") = Total(withdrawal, u, "COMPLETED")
                                        + (IF c.op = "APPROVE" /\ u = c.user THEN n ELSE 0)
          /\ Total(V, u, "PENDING") = Total(withdrawal, u, "PENDING") - (IF u = c.user THEN n ELSE 0)
      <4>1. n \in Int /\ final # "PENDING" /\ (final = "COMPLETED" <=> c.op = "APPROVE")
        BY <1>1, <1>7
      <4>2. Total(V, u, "COMPLETED") = Total(withdrawal, u, "COMPLETED") - 0
                                       + (IF c.op = "APPROVE" /\ u = c.user THEN n ELSE 0)
        BY <1>8, <4>1
      <4>3. Total(V, u, "PENDING") = Total(withdrawal, u, "PENDING")
                                     - (IF u = c.user THEN n ELSE 0) + 0
        BY <1>8, <4>1
      <4> QED BY <2>1, <4>1, <4>2, <4>3
    <3>2. \A s : Sum(u, s) = Total(withdrawal, u, s) /\ Sum(u, s)' = Total(V, u, s)
      BY SumIsTotal DEF V
    <3> QED BY <2>1, <3>1, <3>2
  <2>4. Balance(u)' + (IF c.op = "APPROVE" /\ u = c.user THEN n ELSE 0) = Balance(u)
        /\ Balance(u)' \in Int /\ Balance(u) \in Int
    BY <1>1, <1>3, <1>6 DEF Balance
  <2> QED BY <1>1, <1>2, <1>3, <2>2, <2>3, <2>4
<1>10. MoneyIsExplained'
  BY <1>9 DEF MoneyIsExplained, PendingIsUndecided, LedgerExplains
<1>11. \A u \in Users : wallet'[u].available >= -taken'[u]
  BY <1>1, <1>2, <1>3
<1>12. \A q \in Calls : call'[q] = IF q = p THEN Done ELSE call[q]
  BY <1>2 DEF MInv, IInv
<1>13. \A q \in Calls : Credited(call'[q])
  BY <1>12, DoneCredited DEF MInv
<1>14. \A q \in Calls : Credited(call[q])'
  BY <1>13 DEF Credited
<1>15. \A u \in Opened : wallet'[u].exists
  BY <1>1, FinanceAssumption DEF MInv
<1> QED BY <1>0, <1>2, <1>10, <1>11, <1>14, <1>15 DEF MInv

LEMMA InitMInv == Init => MInv
<1> SUFFICES ASSUME Init PROVE MInv
  OBVIOUS
<1>1. \A u \in Users :
        /\ wallet[u].available = (IF u \in Opened THEN Opening ELSE 0) /\ wallet[u].pending = 0
        /\ u \in Opened => wallet[u].exists
        /\ ledger[u] = (IF u \in Opened THEN Opening ELSE 0)
  BY DEF Init, Row, NoRow
<1>2. ASSUME NEW u \in Users, NEW s \in {"PENDING", "COMPLETED"} PROVE Sum(u, s) = 0
  <2>1. \A w \in Withdrawals : Part(withdrawal, u, s)[w] = 0
    BY DEF Init, Part, NotMade, None
  <2>2. Total(withdrawal, u, s) = 0
    BY <2>1, SumZero, FinanceAssumption DEF Total
  <2> QED BY <2>2, SumIsTotal
<1>3. MoneyIsExplained
  <2>1. \A u \in Users : unplaced[u] = 0
    BY DEF Init
  <2> QED BY <1>1, <1>2, <2>1, FinanceAssumption
          DEF MoneyIsExplained, PendingIsUndecided, LedgerExplains, Balance
<1>4. \A p \in Calls : Credited(call[p])
  BY DEF Init, Credited, Idle
<1>5. /\ ledger \in [Users -> Int]
      /\ taken = [u \in Users |-> 0] /\ unplaced = [u \in Users |-> 0]
  BY FinanceAssumption DEF Init
<1> QED BY <1>1, <1>3, <1>4, <1>5, InitIInv, FinanceAssumption DEF MInv

LEMMA MInvStep == MInv /\ [Next]_vars => MInv'
<1> SUFFICES ASSUME MInv, [Next]_vars PROVE MInv'
  OBVIOUS
<1>0. IInv'
  BY IInvStep DEF MInv
<1>1. CASE UNCHANGED vars
  <2>1. \A p \in Calls : Credited(call'[p])
    BY <1>1 DEF vars, MInv
  <2> QED BY <1>0, <1>1, <2>1, MoneyStays DEF vars, history
<1>2. ASSUME NEW p \in Calls, Fails(p) PROVE MInv'
  BY <1>0, <1>2, QueryMoney DEF Fails
<1>3. ASSUME NEW p \in Calls, Queries(p) PROVE MInv'
  <2>1. CASE BreakDeadlock(p)
    BY <1>0, <2>1, QueryMoney DEF BreakDeadlock
  <2> QED BY <1>0, <1>3, <2>1, QueryMoney, MakeWalletMoney, CommitMoneyMoney, CommitRequestMoney,
             CommitDecisionMoney DEF Queries
<1> QED BY <1>1, <1>2, <1>3, RequestsMoney DEF Next

\* What a user waits for is the sum of its undecided withdrawals, and what it
\* has is what the ledger says less what was paid out, however the requests
\* interleave, fail and are retried.
THEOREM FinanceMoney == Spec => []MoneyIsExplained
<1>1. MInv => MoneyIsExplained
  BY DEF MInv
<1> QED BY <1>1, InitMInv, MInvStep, PTL DEF Spec

-----------------------------------------------------------------------------
(* Connections *)

\* Only the first query of a transaction needs a connection that is free.
LEMMA BusyStep ==
  ASSUME IInv, [Next]_vars, Cardinality(Busy) <= Pool
  PROVE  Cardinality(Busy)' <= Pool
<1>1. IsFiniteSet(Busy) /\ Cardinality(Busy) \in Nat
  BY FS_Subset, FS_CardinalityType, FinanceAssumption DEF Busy
<1>2. ASSUME NEW p \in Calls, NEW d, call' = [call EXCEPT ![p] = d],
             d.pc \in Outside \/ call[p].pc \notin Outside
      PROVE  Busy' \subseteq Busy
  BY <1>2 DEF Busy, IInv
<1>3. ASSUME Busy' \subseteq Busy PROVE Cardinality(Busy') <= Pool
  <2>1. Cardinality(Busy') <= Cardinality(Busy) /\ IsFiniteSet(Busy')
    BY <1>1, <1>3, FS_Subset
  <2>2. Cardinality(Busy') \in Nat
    BY <2>1, FS_CardinalityType
  <2> QED BY <1>1, <2>1, <2>2, FinanceAssumption
<1>4. ASSUME NEW p \in Calls, Free, NEW d, call' = [call EXCEPT ![p] = d] PROVE Cardinality(Busy') <= Pool
  <2>1. Busy' \subseteq Busy \cup {p}
    BY <1>4 DEF Busy, IInv
  <2>2. IsFiniteSet(Busy \cup {p}) /\ Cardinality(Busy \cup {p}) <= Cardinality(Busy) + 1
    <3>1. /\ IsFiniteSet(Busy \cup {p})
          /\ Cardinality(Busy \cup {p}) = IF p \in Busy THEN Cardinality(Busy) ELSE Cardinality(Busy) + 1
      BY <1>1, FS_AddElement
    <3> QED BY <1>1, <3>1
  <2>3. Cardinality(Busy') <= Cardinality(Busy \cup {p}) /\ IsFiniteSet(Busy')
    BY <2>1, <2>2, FS_Subset
  <2>4. Cardinality(Busy') \in Nat /\ Cardinality(Busy \cup {p}) \in Nat
    BY <2>2, <2>3, FS_CardinalityType
  <2> QED BY <1>1, <1>4, <2>2, <2>3, <2>4, FinanceAssumption DEF Free
<1>5. CASE UNCHANGED vars
  BY <1>3, <1>5 DEF vars, Busy
<1>6. ASSUME NEW p \in Calls, Requests(p) PROVE Cardinality(Busy') <= Pool
  <2>1. ASSUME NEW u \in Users, GetWallet(p, u) PROVE Cardinality(Busy') <= Pool
    <3> DEFINE d == [op |-> "GET", pc |-> "READ", user |-> u, to |-> u, amount |-> 0, row |-> None,
                     locks |-> {}]
    <3>1. d.pc \in Outside /\ call' = [call EXCEPT ![p] = d]
      BY <2>1 DEF GetWallet, Outside
    <3> HIDE DEF d
    <3> QED BY <1>2, <1>3, <3>1
  <2> QED BY <1>4, <1>6, <2>1 DEF Requests, Deposit, TopUp, Transfer, Request, Decide, Begin
<1>7. ASSUME NEW p \in Calls, call' = [call EXCEPT ![p] = Done] PROVE Cardinality(Busy') <= Pool
  BY <1>2, <1>3, <1>7 DEF Done, Outside
<1>8. ASSUME NEW p \in Calls, NEW pc, call[p].pc \notin Outside,
             Go(p, pc) \/ \E u : Lock(p, u, pc)
      PROVE  Cardinality(Busy') <= Pool
  BY <1>2, <1>3, <1>8 DEF Go, Lock
<1>9. ASSUME NEW p \in Calls, ReadWallet(p) PROVE Cardinality(Busy') <= Pool
  BY <1>4, <1>9 DEF ReadWallet, Go
<1>10. ASSUME NEW p \in Calls, Queries(p) PROVE Cardinality(Busy') <= Pool
  <2>1. CASE BreakDeadlock(p)
    BY <1>7, <2>1 DEF BreakDeadlock, Abort
  <2>2. CASE MakeWallet(p) \/ CommitMoney(p) \/ CommitRequest(p) \/ CommitDecision(p)
    BY <1>7, <2>2 DEF MakeWallet, CommitMoney, CommitRequest, CommitDecision
  <2>3. CASE DebitAvailable(p)
    BY <1>7, <1>8, <2>3 DEF DebitAvailable, Outside
  <2>4. CASE CreditAvailable(p)
    BY <1>7, <1>8, <2>4 DEF CreditAvailable, Outside
  <2>5. CASE LockWithdrawal(p)
    BY <1>7, <1>8, <2>5 DEF LockWithdrawal, Outside
  <2>6. CASE FinalizePayout(p) \/ Notify(p)
    BY <1>8, <2>6 DEF FinalizePayout, Notify, Outside
  <2> QED BY <1>9, <1>10, <2>1, <2>2, <2>3, <2>4, <2>5, <2>6 DEF Queries
<1>11. ASSUME NEW p \in Calls, Fails(p) PROVE Cardinality(Busy') <= Pool
  BY <1>7, <1>11 DEF Fails, Abort
<1> QED BY <1>5, <1>6, <1>10, <1>11 DEF Next

\* Whatever amounts top-ups name, a balance is negative by no more than negative
\* ones took: no debit, of withdrawals or transfers, ever takes it below zero.
\* What is pending is never negative, a user without a row has nothing, and no
\* more transactions run than the pool has connections.
THEOREM FinanceTypes == Spec => []TypeInv
<1>1. Init => Cardinality(Busy) <= Pool
  <2> SUFFICES ASSUME Init PROVE Cardinality(Busy) <= Pool
    OBVIOUS
  <2>1. Busy = {}
    BY DEF Init, Busy, Idle, Outside
  <2>2. Cardinality(Busy) = 0
    BY <2>1, FS_EmptySet
  <2> QED BY <2>2, FinanceAssumption
<1>2. MInv /\ Cardinality(Busy) <= Pool => TypeInv
  <2> SUFFICES ASSUME MInv, Cardinality(Busy) <= Pool PROVE TypeInv
    OBVIOUS
  <2>1. ASSUME NEW u \in Users
        PROVE  /\ wallet[u].available \in Int /\ wallet[u].available >= -taken[u]
               /\ wallet[u].pending \in Nat
               /\ ~wallet[u].exists => wallet[u] = NoRow
    <3>1. wallet[u] \in Whole /\ wallet[u].available >= -taken[u]
      BY DEF MInv, IInv, RowsOK, Whole
    <3>2. wallet[u].pending = Total(withdrawal, u, "PENDING")
      BY SumIsTotal DEF MInv, MoneyIsExplained, PendingIsUndecided
    <3>3. wallet[u].pending \in Nat
      BY <3>2, PartNat DEF MInv, IInv, RowsOK
    <3>4. ASSUME ~wallet[u].exists PROVE wallet[u] = NoRow
      <4>1. wallet[u].exists = FALSE /\ wallet[u].available = 0 /\ wallet[u].pending = 0
        BY <3>1, <3>4 DEF MInv, IInv, RowsOK, Whole
      <4> QED BY <3>1, <4>1 DEF Whole, NoRow
    <3> QED BY <3>1, <3>3, <3>4 DEF Whole
  <2>2. \A w \in Withdrawals : withdrawal[w].status \in {"NONE", "PENDING", "COMPLETED", "REJECTED"}
    BY DEF MInv, IInv, RowsOK, Made, NotMade, None
  <2> QED BY <2>1, <2>2 DEF TypeInv
<1>3. MInv /\ Cardinality(Busy) <= Pool /\ [Next]_vars => (Cardinality(Busy) <= Pool)'
  <2>1. Pool' = Pool
    OBVIOUS
  <2> QED BY <2>1, BusyStep DEF MInv
<1> QED BY <1>1, <1>2, <1>3, InitMInv, MInvStep, PTL DEF Spec

-----------------------------------------------------------------------------
(* The refinement *)

Available == [u \in Users |-> wallet[u].available]
Pending == [u \in Users |-> wallet[u].pending]
abstractVars == <<Available, Pending, withdrawal>>

LEMMA InitMaps == Init => Promise!Init
<1> SUFFICES ASSUME Init PROVE Promise!Init
  OBVIOUS
<1>1. \A u \in Users : wallet[u].available \in Nat /\ wallet[u].pending = 0
  BY FinanceAssumption DEF Init, Row, NoRow
<1>2. Available \in [Users -> Nat] /\ Pending = [u \in Users |-> 0]
  BY <1>1 DEF Available, Pending
<1>3. withdrawal = [w \in Withdrawals |-> Promise!NotMade]
  BY DEF Init, NotMade, None, Promise!NotMade
<1> QED BY <1>2, <1>3 DEF Promise!Init, Available, Pending

\* A deposit, or a transfer, of which the receiver may get nothing.
LEMMA MoneyMaps ==
  ASSUME IInv, NEW p \in Calls, CommitMoney(p)
  PROVE  Promise!Next \/ UNCHANGED abstractVars
<1> DEFINE c == call[p]
           got(u) == u = c.to /\ u \in c.locks
<1>1. /\ c \in Active /\ c.amount \in Amounts \cup TopUps /\ c.amount \in Int
      /\ c.op = "TRANSFER" => Covered(c) /\ c.amount \in Amounts
      /\ \A u \in Users :
           /\ wallet'[u].pending = wallet[u].pending
           /\ wallet'[u].available = wallet[u].available
                - (IF c.op = "TRANSFER" /\ u = c.user THEN c.amount ELSE 0)
                + (IF got(u) THEN c.amount ELSE 0)
  BY MoneyRows
<1>2. c.user \in Users /\ c.to \in Users /\ withdrawal' = withdrawal
  BY <1>1 DEF Active, CommitMoney
<1>3. Pending' = Pending
  BY <1>1 DEF Pending
<1>4. \A u \in Users : wallet[u].available \in Int /\ Available[u] = wallet[u].available
  BY DEF IInv, RowsOK, Available
<1> HIDE DEF c
<1>5. CASE c.op = "TRANSFER" /\ got(c.to)
  <2>1. Available[c.user] >= c.amount
    BY <1>1, <1>2, <1>4, <1>5 DEF Covered
  <2>2. PICK u \in Users, v \in Users, n \in Amounts : u = c.user /\ v = c.to /\ n = c.amount
    BY <1>1, <1>2, <1>5
  <2>3. \A x \in Users : wallet'[x].available =
                           Available[x] - (IF x = u THEN n ELSE 0) + (IF x = v THEN n ELSE 0)
    BY <1>1, <1>4, <1>5, <2>2
  <2>4. Available' = [x \in Users |-> Available[x] - (IF x = u THEN n ELSE 0) + (IF x = v THEN n ELSE 0)]
    BY <2>3 DEF Available
  <2>5. Promise!Transfer(u, v, n)
    BY <1>2, <1>3, <2>1, <2>2, <2>4 DEF Promise!Transfer, Available, Pending
  <2> QED BY <2>5 DEF Promise!Next
<1>6. CASE c.op = "TRANSFER" /\ ~got(c.to)
  <2>1. Available[c.user] >= c.amount
    BY <1>1, <1>2, <1>4, <1>6 DEF Covered
  <2>2. Available' = [Available EXCEPT ![c.user] = @ - c.amount]
    BY <1>1, <1>2, <1>4, <1>6 DEF Available
  <2>3. PICK u \in Users, n \in Amounts : u = c.user /\ n = c.amount
    BY <1>1, <1>2, <1>6
  <2>4. Promise!Spend(u, n)
    BY <1>2, <1>3, <2>1, <2>2, <2>3 DEF Promise!Spend, Available, Pending
  <2> QED BY <2>4 DEF Promise!Next
<1>7. CASE c.op # "TRANSFER" /\ got(c.to)
  <2>1. Available' = [Available EXCEPT ![c.to] = @ + c.amount]
    BY <1>1, <1>2, <1>4, <1>7 DEF Available
  <2>2. PICK u \in Users, n \in Amounts \cup TopUps : u = c.to /\ n = c.amount
    BY <1>1, <1>2
  <2>3. Promise!Receive(u, n)
    BY <1>2, <1>3, <2>1, <2>2 DEF Promise!Receive, Available, Pending
  <2> QED BY <2>3 DEF Promise!Next
<1>8. CASE c.op # "TRANSFER" /\ ~got(c.to)
  <2>1. Available' = Available
    BY <1>1, <1>4, <1>8 DEF Available
  <2> QED BY <1>2, <1>3, <2>1 DEF abstractVars
<1> QED BY <1>5, <1>6, <1>7, <1>8

LEMMA RequestMaps == ASSUME IInv, NEW p \in Calls, CommitRequest(p) PROVE Promise!Next
<1> DEFINE c == call[p]
<1>1. /\ Covered(c)
      /\ c.user \in Users /\ c.amount \in Amounts /\ c.amount \in Nat /\ c.row \in Withdrawals
      /\ withdrawal[c.row] = NotMade
      /\ withdrawal' = [withdrawal EXCEPT ![c.row] =
                          [status |-> "PENDING", user |-> c.user, amount |-> c.amount]]
      /\ \A u \in Users :
           /\ wallet'[u].available = IF u = c.user THEN wallet[u].available - c.amount
                                     ELSE wallet[u].available
           /\ wallet'[u].pending = IF u = c.user THEN wallet[u].pending + c.amount
                                   ELSE wallet[u].pending
  BY RequestRows
<1>2. Available[c.user] >= c.amount
  BY <1>1 DEF Covered, Available
<1> HIDE DEF c
<1>3. Available' = [Available EXCEPT ![c.user] = @ - c.amount]
  BY <1>1 DEF Available
<1>4. Pending' = [Pending EXCEPT ![c.user] = @ + c.amount]
  BY <1>1 DEF Pending
<1>5. withdrawal[c.row] = Promise!NotMade
  BY <1>1 DEF NotMade, None, Promise!NotMade
<1>6. PICK w \in Withdrawals, u \in Users, n \in Amounts : w = c.row /\ u = c.user /\ n = c.amount
  BY <1>1
<1>7. Promise!Reserve(w, u, n)
  BY <1>1, <1>2, <1>3, <1>4, <1>5, <1>6 DEF Promise!Reserve, Available, Pending
<1> QED BY <1>7 DEF Promise!Next

LEMMA DecisionMaps == ASSUME IInv, NEW p \in Calls, CommitDecision(p) PROVE Promise!Next
<1> DEFINE c == call[p]
           s == IF c.op = "APPROVE" THEN "COMPLETED" ELSE "REJECTED"
<1>1. /\ c \in Active /\ Judges(c)
      /\ c.user \in Users /\ c.amount \in Nat /\ c.row \in Withdrawals
      /\ withdrawal[c.row].status = "PENDING"
      /\ withdrawal[c.row].user = c.user /\ withdrawal[c.row].amount = c.amount
      /\ withdrawal' = [withdrawal EXCEPT ![c.row].status = s]
      /\ \A u \in Users :
           /\ wallet'[u].available = IF u = c.user /\ c.op = "REJECT"
                                     THEN wallet[u].available + c.amount ELSE wallet[u].available
           /\ wallet'[u].pending = IF u = c.user THEN wallet[u].pending - c.amount
                                   ELSE wallet[u].pending
  BY DecisionRows
<1>2. s \in {"COMPLETED", "REJECTED"} /\ (s = "REJECTED" <=> c.op = "REJECT")
  BY <1>1 DEF Judges
<1> HIDE DEF c, s
<1>3. Available' = IF s = "REJECTED" THEN [Available EXCEPT ![c.user] = @ + c.amount] ELSE Available
  BY <1>1, <1>2 DEF Available
<1>4. Pending' = [Pending EXCEPT ![c.user] = @ - c.amount]
  BY <1>1 DEF Pending
<1>5. PICK w \in Withdrawals, status \in {"COMPLETED", "REJECTED"} : w = c.row /\ status = s
  BY <1>1, <1>2
<1>6. Promise!Decide(w, status)
  BY <1>1, <1>3, <1>4, <1>5 DEF Promise!Decide, Available, Pending
<1> QED BY <1>6 DEF Promise!Next

\* The row that getOrCreateWallet makes is empty.
LEMMA MakeWalletMaps ==
  ASSUME IInv, NEW p \in Calls, MakeWallet(p) PROVE UNCHANGED abstractVars
<1> DEFINE u == call[p].user
<1>1. CASE wallet' = wallet
  BY <1>1 DEF MakeWallet, abstractVars, Available, Pending
<1>2. CASE ~wallet[u].exists /\ wallet' = [wallet EXCEPT ![u] = Row(0)]
  <2>1. u \in Users
    BY Runs DEF MakeWallet, Pcs, Active
  <2>2. \A v \in Users : wallet'[v] = IF v = u THEN Row(0) ELSE wallet[v]
    BY <1>2 DEF IInv, RowsOK
  <2>3. Row(0).available = 0 /\ Row(0).pending = 0
    BY DEF Row
  <2>4. wallet[u].available = 0 /\ wallet[u].pending = 0
    BY <1>2, <2>1 DEF IInv, RowsOK
  <2> HIDE DEF u
  <2>5. \A v \in Users : /\ wallet'[v].available = wallet[v].available
                         /\ wallet'[v].pending = wallet[v].pending
    BY <2>2, <2>3, <2>4
  <2> QED BY <2>5 DEF MakeWallet, abstractVars, Available, Pending
<1> QED BY <1>1, <1>2 DEF MakeWallet

\* Every step is one of the account or leaves it as it is.
LEMMA StepMaps == IInv /\ [Next]_vars => [Promise!Next]_abstractVars
<1> SUFFICES ASSUME IInv, [Next]_vars PROVE Promise!Next \/ UNCHANGED abstractVars
  OBVIOUS
<1>1. CASE UNCHANGED <<wallet, withdrawal>>
  BY <1>1 DEF abstractVars, Available, Pending
<1>2. ASSUME NEW p \in Calls, Requests(p) PROVE UNCHANGED <<wallet, withdrawal>>
  BY <1>2 DEF Requests, GetWallet, Deposit, TopUp, Transfer, Request, Decide, Begin
<1>3. ASSUME NEW p \in Calls, Queries(p)
      PROVE  \/ UNCHANGED <<wallet, withdrawal>>
             \/ MakeWallet(p) \/ CommitMoney(p) \/ CommitRequest(p) \/ CommitDecision(p)
  BY <1>3 DEF Queries, ReadWallet, DebitAvailable, CreditAvailable, LockWithdrawal, FinalizePayout,
              Notify, BreakDeadlock, Abort
<1>4. ASSUME NEW p \in Calls, Fails(p) PROVE UNCHANGED <<wallet, withdrawal>>
  BY <1>4 DEF Fails, Abort
<1> QED BY <1>1, <1>2, <1>3, <1>4, MakeWalletMaps, MoneyMaps, RequestMaps, DecisionMaps
        DEF Next, vars

\* However transactions, locks, lost connections and second connections
\* interleave, money is received, spent, set apart and decided about as in
\* Account: no withdrawal is paid or given back twice, or without having been
\* set apart, and none takes more than there is.
THEOREM FinanceImplementsAccount == Spec => ImplementsAccount
<1>1. IInv /\ [Next]_vars => [Promise!Next]_<<[u \in Users |-> wallet[u].available],
                                [u \in Users |-> wallet[u].pending], withdrawal>>
  BY StepMaps DEF abstractVars, Available, Pending
<1> QED BY <1>1, InitMaps, InitIInv, IInvStep, PTL DEF Spec, ImplementsAccount, Promise!Spec
================================================================================
