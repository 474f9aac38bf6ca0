-------------------------------- MODULE Account --------------------------------
(* What withdrawals promise: money a user asks to withdraw leaves its balance   *)
(* at once, is kept apart as long as nobody has decided, and then is paid out   *)
(* or comes back, once.  Finance, with its transactions, locks and pooled       *)
(* connections, implements this.                                                *)
EXTENDS Integers

CONSTANTS Users, Withdrawals, Amounts, TopUps

VARIABLES
  available,   \* what each user can spend
  reserved,    \* what each user waits for
  withdrawal   \* the withdrawals

NotMade == [status |-> "NONE"]

Init ==
  /\ available \in [Users -> Nat]
  /\ reserved = [u \in Users |-> 0]
  /\ withdrawal = [w \in Withdrawals |-> NotMade]

\* A top-up may take, whatever the user has.
Receive(u, n) ==
  /\ available' = [available EXCEPT ![u] = @ + n]
  /\ UNCHANGED <<reserved, withdrawal>>

\* The receiver of a transfer may get nothing.
Spend(u, n) ==
  /\ available[u] >= n
  /\ available' = [available EXCEPT ![u] = @ - n]
  /\ UNCHANGED <<reserved, withdrawal>>

Transfer(u, v, n) ==
  /\ available[u] >= n
  /\ available' = [x \in Users |-> available[x] - (IF x = u THEN n ELSE 0)
                                               + (IF x = v THEN n ELSE 0)]
  /\ UNCHANGED <<reserved, withdrawal>>

Reserve(w, u, n) ==
  /\ withdrawal[w] = NotMade
  /\ available[u] >= n
  /\ available' = [available EXCEPT ![u] = @ - n]
  /\ reserved' = [reserved EXCEPT ![u] = @ + n]
  /\ withdrawal' = [withdrawal EXCEPT ![w] = [status |-> "PENDING", user |-> u, amount |-> n]]

Decide(w, status) ==
  /\ withdrawal[w].status = "PENDING"
  /\ LET u == withdrawal[w].user
         n == withdrawal[w].amount
     IN  /\ reserved' = [reserved EXCEPT ![u] = @ - n]
         /\ available' = IF status = "REJECTED" THEN [available EXCEPT ![u] = @ + n] ELSE available
  /\ withdrawal' = [withdrawal EXCEPT ![w].status = status]

Next ==
  \/ \E u \in Users, n \in Amounts \cup TopUps : Receive(u, n)
  \/ \E u \in Users, n \in Amounts : Spend(u, n)
  \/ \E u, v \in Users, n \in Amounts : Transfer(u, v, n)
  \/ \E u \in Users, n \in Amounts, w \in Withdrawals : Reserve(w, u, n)
  \/ \E w \in Withdrawals, status \in {"COMPLETED", "REJECTED"} : Decide(w, status)

Spec == Init /\ [][Next]_<<available, reserved, withdrawal>>
=============================================================================
