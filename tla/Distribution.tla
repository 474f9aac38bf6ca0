------------------------------ MODULE Distribution ------------------------------
(* The distribution of an asset's income to its holders: a partner makes a     *)
(* batch of payouts, an administrator approves or rejects it, the approval     *)
(* pays the off-chain holders from the partner's wallet, commits the on-chain  *)
(* holders to a Merkle root and, after its transaction, records the batch on   *)
(* the chain; an on-chain holder fetches a proof, claims on the chain and      *)
(* tells the server.  Sources: distribution/, asset/income.service.ts,         *)
(* blockchain/indexer/handlers/yield.handler.ts.                               *)
(*                                                                             *)
(* Amounts are in halalas (1/100 SAR), the unit the code rounds to; its        *)
(* binary fractions are taken for exact ones.  There is one asset and one      *)
(* partner.  A batch id is fresh: its clock reading is not modelled.           *)
EXTENDS Integers, FiniteSets, Functions

CONSTANTS
  Holders,       \* the investors that own units of the asset
  Units,         \* the units of each
  Linked,        \* those with a wallet address on the chain
  InitialMode,   \* the distribution mode each has chosen at first
  Batches,       \* bound: the payouts that are ever triggered
  Incomes,       \* the income reports of the asset
  NetAmount,     \* the net amount of each report
  Amounts,       \* the amounts of the batches triggered without a report
  Admins,        \* the approvals that may run at once
  PartnerFunds,  \* the partner's available balance at first
  NotaryFails    \* whether recording a batch on the chain may fail

ASSUME DistributionAssumption ==
  /\ Units \in [Holders -> Nat]
  /\ Linked \subseteq Holders
  /\ InitialMode \in [Holders -> {"OFF_CHAIN", "ON_CHAIN"}]
  /\ NetAmount \in [Incomes -> Nat \ {0}]
  /\ "none" \notin Incomes
  /\ Amounts \subseteq Nat \ {0}
  /\ PartnerFunds \in Nat
  /\ NotaryFails \in BOOLEAN
  /\ IsFiniteSet(Holders) /\ IsFiniteSet(Batches)

\* A server serves finitely many requests at once.
ASSUME FewApprovals == IsFiniteSet(Admins)

\* No batch's id is the hash of one.
ASSUME IdsAreNoHashes == \A b \in Batches : <<"keccak256", b>> \notin Batches

VARIABLES
  distributed,  \* isDistributed of each income report
  mode,         \* distributionMode in each holder's profile
  row,          \* the distributions table: per batch and holder a row or NoRow
  partner,      \* the partner's available balance
  admin,        \* the approvals in progress
  confirm,      \* the claim confirmations in progress
  record,       \* what the notary contract has recorded of each batch
  held,         \* the proof each holder has fetched for each batch
  claimed,      \* the <<batch, holder>> pairs the contract has paid
  indexed,      \* the <<batch, holder>> claims whose event was handled
  made,         \* ghost: the income and the total each batch was made from
  spent,        \* ghost: per batch, what approvals debited, kept as fee and granted
  credits,      \* ghost: how often each payout was credited off the chain
  allotments,   \* ghost: how often each payout was put under a Merkle root
  eager         \* ghost: the payouts marked as claimed before they were

rowVars == <<distributed, row, made>>
chainVars == <<record, claimed, indexed>>
moneyVars == <<partner, spent, credits, allotments, eager>>
vars == <<distributed, mode, row, partner, admin, confirm, record, held, claimed,
          indexed, made, spent, credits, allotments, eager>>

Modes == {"OFF_CHAIN", "ON_CHAIN"}
Nothing == "none"   \* no income report, or no batch yet

-----------------------------------------------------------------------------
(* Data *)

\* A root stands for the tree it is the root of: the on-chain holders, each
\* with its amount.  The proof of a leaf is valid for one root only.
NoRoot == [h \in {} |-> 0]

NoRow == [amount |-> 0, status |-> "NONE", mode |-> "OFF_CHAIN", proof |-> NoRoot]

NoRecord == [kind |-> "NONE", root |-> NoRoot]

Idle == [pc |-> "IDLE"]

\* Math.round(x * 100) / 100 for x * 100 = num / den: halves go up.
Round(num, den) == (2 * num + den) \div (2 * den)

Total(f) == SumFunction(f)

Eligible == {h \in Holders : Units[h] > 0}

\* Every holder but the last gets its rounded share; the last gets the rest.
GrossShares(total, last) ==
  LET share == [h \in Eligible \ {last} |-> Round(total * Units[h], Total(Units))]
  IN  [h \in Eligible |-> IF h = last THEN total - Total(share) ELSE share[h]]

PlatformFee(gross) == Round(gross, 100)

\* Mistake: every net payout is rounded, and nobody gets the rest.
NetSharesRounded(amounts, off, last) ==
  [h \in DOMAIN amounts |-> Round(99 * amounts[h], 100)]

\* The net payouts of one approval.  The rest of the rounding goes to the last
\* payout when all are of one mode, and to nobody otherwise.
NetShares(amounts, off, last) ==
  LET S     == DOMAIN amounts
      net   == [h \in S |-> Round(99 * amounts[h], 100)]
      rest  == Total(amounts) - PlatformFee(Total(amounts))
                 - Total([h \in S \ {last} |-> net[h]])
  IN  IF off \in {{}, S} THEN [net EXCEPT ![last] = rest] ELSE net

Rows(b, S) == {h \in Holders : row[b][h].status \in S}

Unused(b) == made[b].total = 0

-----------------------------------------------------------------------------
Init ==
  /\ distributed = [x \in Incomes |-> FALSE]
  /\ mode = InitialMode
  /\ row = [b \in Batches |-> [h \in Holders |-> NoRow]]
  /\ partner = PartnerFunds
  /\ admin = [a \in Admins |-> Idle]
  /\ confirm = [h \in Holders |-> Idle]
  /\ record = [b \in Batches |-> NoRecord]
  /\ held = [b \in Batches |-> [h \in Holders |-> NoRow]]
  /\ claimed = {}
  /\ indexed = {}
  /\ made = [b \in Batches |-> [from |-> Nothing, total |-> 0]]
  /\ spent = [b \in Batches |-> [debited |-> 0, fees |-> 0, granted |-> 0]]
  /\ credits = [b \in Batches |-> [h \in Holders |-> 0]]
  /\ allotments = [b \in Batches |-> [h \in Holders |-> 0]]
  /\ eager = {}

-----------------------------------------------------------------------------
(* The partner *)

\* triggerYieldDistribution.  The balance is only looked at: nothing reserves
\* it, and the approval looks again.
TriggerYieldDistribution(b, total, last, from) ==
  /\ Unused(b)
  /\ partner >= total
  /\ last \in Eligible
  /\ row' = [row EXCEPT ![b] = [h \in Holders |->
                IF h \in Eligible
                THEN [amount |-> GrossShares(total, last)[h], status |-> "PENDING",
                      mode |-> mode[h], proof |-> NoRoot]
                ELSE NoRow]]
  /\ made' = [made EXCEPT ![b] = [from |-> from, total |-> total]]

\* Mistake: isDistributed is not looked at.
TriggerDistributionFromIncomeAgain(x, b, last) ==
  /\ distributed' = [distributed EXCEPT ![x] = TRUE]
  /\ TriggerYieldDistribution(b, NetAmount[x], last, x)
  /\ UNCHANGED <<mode, admin, confirm, held, chainVars, moneyVars>>

\* triggerDistributionFromIncome holds the report's row lock from its read to
\* its commit, so it is one step.
TriggerDistributionFromIncome(x, b, last) ==
  /\ ~distributed[x]
  /\ distributed' = [distributed EXCEPT ![x] = TRUE]
  /\ TriggerYieldDistribution(b, NetAmount[x], last, x)
  /\ UNCHANGED <<mode, admin, confirm, held, chainVars, moneyVars>>

Distribute(b, total, last) ==
  /\ TriggerYieldDistribution(b, total, last, Nothing)
  /\ UNCHANGED <<distributed, mode, admin, confirm, held, chainVars, moneyVars>>

-----------------------------------------------------------------------------
(* The administrator *)

\* The pending payouts and their investors' modes, read without a lock.
ApproveRead(a, b) ==
  LET pending == Rows(b, {"PENDING"})
  IN  /\ admin[a].pc = "IDLE"
      /\ pending # {}
      /\ admin' = [admin EXCEPT ![a] =
            [pc |-> "APPROVING", batch |-> b,
             payouts |-> [h \in pending |-> row[b][h]],
             off |-> {h \in pending : mode[h] = "OFF_CHAIN"}]]
      /\ UNCHANGED <<rowVars, mode, confirm, held, chainVars, moneyVars>>

Gross(a) == Total([h \in DOMAIN admin[a].payouts |-> admin[a].payouts[h].amount])

OnChainPart(a) == DOMAIN admin[a].payouts \ admin[a].off

\* Mistake: the balance that was looked at when the batch was made is trusted.
PayableUnchecked(a) == OnChainPart(a) \subseteq Linked

Payable(a) == partner >= Gross(a) /\ OnChainPart(a) \subseteq Linked

\* Mistake: an approved payout keeps its status.
SettledRowPending(a, h, net, root) == [admin[a].payouts[h] EXCEPT !.amount = net[h]]

\* Mistake: the row of an on-chain payout keeps its gross amount.
SettledRowGross(a, h, net, root) ==
  IF h \in admin[a].off
  THEN [admin[a].payouts[h] EXCEPT !.amount = net[h], !.status = "PAID"]
  ELSE [admin[a].payouts[h] EXCEPT !.status = "READY", !.mode = "ON_CHAIN", !.proof = root]

\* Mistake: every payout is an UPDATE by id, so a row deleted since stays so.
SettledRowUpdated(a, h, net, root) ==
  LET now == row[admin[a].batch][h]
  IN  IF now = NoRow THEN NoRow
      ELSE IF h \in admin[a].off
           THEN [now EXCEPT !.amount = net[h], !.status = "PAID"]
           ELSE [amount |-> net[h], status |-> "READY", mode |-> "ON_CHAIN", proof |-> root]

\* An off-chain payout is saved as the entity that was read, with its new
\* amount and status: a row deleted since is inserted again.  An on-chain payout
\* is an UPDATE by id: a row deleted since stays deleted.
SettledRow(a, h, net, root) ==
  LET read == admin[a].payouts[h]
      now  == row[admin[a].batch][h]
  IN  IF h \in admin[a].off
      THEN [read EXCEPT !.amount = net[h], !.status = "PAID"]
      ELSE IF now = NoRow
           THEN NoRow
           ELSE [amount |-> net[h], status |-> "READY", mode |-> "ON_CHAIN", proof |-> root]

\* From debitAvailable, which takes the lock of the partner's wallet, to the
\* commit of the transaction.
ApproveCommit(a, last) ==
  /\ admin[a].pc = "APPROVING"
  /\ Payable(a)
  /\ last \in DOMAIN admin[a].payouts
  /\ LET b    == admin[a].batch
         S    == DOMAIN admin[a].payouts
         net  == NetShares([h \in S |-> admin[a].payouts[h].amount], admin[a].off, last)
         root == [h \in OnChainPart(a) |-> net[h]]
     IN  /\ partner' = partner - Gross(a)
         /\ row' = [row EXCEPT ![b] = [h \in Holders |->
                      IF h \in S THEN SettledRow(a, h, net, root) ELSE @[h]]]
         /\ spent' = [spent EXCEPT ![b] =
                      [debited |-> @.debited + Gross(a),
                       fees    |-> @.fees + PlatformFee(Gross(a)),
                       granted |-> @.granted + Total(net)]]
         /\ credits' = [credits EXCEPT ![b] = [h \in Holders |->
                      IF h \in admin[a].off THEN @[h] + 1 ELSE @[h]]]
         /\ allotments' = [allotments EXCEPT ![b] = [h \in Holders |->
                      IF h \in OnChainPart(a) THEN @[h] + 1 ELSE @[h]]]
         /\ admin' = [admin EXCEPT ![a] =
                [pc |-> "NOTARISING", batch |-> b,
                 record |-> IF OnChainPart(a) = {}
                            THEN [kind |-> "PLAIN", root |-> NoRoot]
                            ELSE [kind |-> "MERKLE", root |-> root]]]
  /\ UNCHANGED <<distributed, made, mode, confirm, held, eager, chainVars>>

\* Too small a balance, or an on-chain holder without an address: the
\* transaction is rolled back.
ApproveAbort(a) ==
  /\ admin[a].pc = "APPROVING"
  /\ ~Payable(a)
  /\ admin' = [admin EXCEPT ![a] = Idle]
  /\ UNCHANGED <<rowVars, mode, confirm, held, chainVars, moneyVars>>

\* The notary contract keeps the first record of a batch; it reverts the others.
RecordYield(b, r) ==
  IF record[b] = NoRecord THEN [record EXCEPT ![b] = r] ELSE record

\* recordYieldOnChain or recordYieldWithMerkleOnChain is mined or reverts.
Notarise(a) ==
  /\ admin[a].pc = "NOTARISING"
  /\ record' = RecordYield(admin[a].batch, admin[a].record)
  /\ admin' = [admin EXCEPT ![a] = Idle]
  /\ UNCHANGED <<rowVars, mode, confirm, held, claimed, indexed, moneyVars>>

\* It fails, or the server goes down before it: the error is logged and dropped.
NotaryFailed(a) ==
  /\ NotaryFails
  /\ admin[a].pc = "NOTARISING"
  /\ admin' = [admin EXCEPT ![a] = Idle]
  /\ UNCHANGED <<rowVars, mode, confirm, held, chainVars, moneyVars>>

RejectDistributionBatch(b) ==
  /\ Rows(b, {"PENDING"}) # {}
  /\ row' = [row EXCEPT ![b] = [h \in Holders |->
                IF h \in Rows(b, {"PENDING"}) THEN NoRow ELSE @[h]]]
  /\ UNCHANGED <<distributed, made, mode, admin, confirm, held, chainVars, moneyVars>>

-----------------------------------------------------------------------------
(* The holder *)

\* updateProfile changes the mode whatever is in progress.
UpdateProfile(h) ==
  /\ mode' = [mode EXCEPT ![h] = IF @ = "OFF_CHAIN" THEN "ON_CHAIN" ELSE "OFF_CHAIN"]
  /\ UNCHANGED <<rowVars, admin, confirm, held, chainVars, moneyVars>>

\* getUserMerkleProof serves the row's amount and proof until the row is PAID.
GetUserMerkleProof(b, h) ==
  /\ row[b][h].mode = "ON_CHAIN"
  /\ row[b][h].status # "PAID"
  /\ row[b][h].proof # NoRoot
  /\ held' = [held EXCEPT ![b][h] = row[b][h]]
  /\ UNCHANGED <<rowVars, mode, admin, confirm, chainVars, moneyVars>>

\* The contract pays a leaf of the recorded root once.
ProofIsValid(b, h) ==
  /\ record[b].kind = "MERKLE"
  /\ held[b][h].proof = record[b].root
  /\ h \in DOMAIN record[b].root
  /\ held[b][h].amount = record[b].root[h]

Claim(b, h) ==
  /\ ProofIsValid(b, h)
  /\ <<b, h>> \notin claimed
  /\ claimed' = claimed \cup {<<b, h>>}
  /\ UNCHANGED <<rowVars, mode, admin, confirm, held, record, indexed, moneyVars>>

\* confirmOnChainClaim reads the row without a lock and asks only that it is
\* not PAID: neither its mode nor the chain is looked at, so a holder may
\* confirm a claim it has not made.
ConfirmRead(b, h) ==
  /\ confirm[h].pc = "IDLE"
  /\ row[b][h].status \in {"PENDING", "READY"}
  /\ confirm' = [confirm EXCEPT ![h] = [pc |-> "SAVING", batch |-> b, row |-> row[b][h]]]
  /\ UNCHANGED <<rowVars, mode, admin, held, chainVars, moneyVars>>

\* The entity is saved whole, as it was read but for its status.
ConfirmSave(h) ==
  /\ confirm[h].pc = "SAVING"
  /\ row' = [row EXCEPT ![confirm[h].batch][h] = [confirm[h].row EXCEPT !.status = "PAID"]]
  /\ confirm' = [confirm EXCEPT ![h] = Idle]
  /\ eager' = eager \cup ({<<confirm[h].batch, h>>} \ claimed)
  /\ UNCHANGED <<distributed, made, mode, admin, held, chainVars, partner, spent, credits, allotments>>

-----------------------------------------------------------------------------
(* The indexer *)

\* A batch goes to the contract as the keccak hash of its id, and comes back
\* in the event.  The handler takes the hash for a padded string, fails to
\* decode it and looks for the hash itself among the batch ids.
FormatBatchIdToBytes32(b) == <<"keccak256", b>>

SafeDecodeBatchId(id) ==
  IF \E b \in Batches : id = <<"bytes32", b>>
  THEN CHOOSE b \in Batches : id = <<"bytes32", b>>
  ELSE id

Found(b) == {c \in Batches : c = SafeDecodeBatchId(FormatBatchIdToBytes32(b))}

\* handleYieldRecorded marks the OFF_CHAIN rows of the batches it finds, unless
\* they were marked before; handleYieldBatchMerkleRecorded changes no row.  (The
\* router's signatures of both events also differ from the contract's ABI.)
HandleYieldRecorded(b) ==
  /\ record[b] # NoRecord
  /\ <<b, Nothing>> \notin indexed
  /\ indexed' = indexed \cup {<<b, Nothing>>}
  /\ row' = [c \in Batches |-> [h \in Holders |->
        IF /\ record[b].kind = "PLAIN" /\ c \in Found(b)
           /\ Rows(c, {"PAID"}) = {}
           /\ row[c][h] # NoRow /\ row[c][h].mode = "OFF_CHAIN"
        THEN [row[c][h] EXCEPT !.status = "PAID"]
        ELSE row[c][h]]]
  /\ UNCHANGED <<distributed, made, mode, admin, confirm, held, record, claimed, moneyVars>>

\* handleYieldClaimed looks for the hash too, and locks the outer joins of its
\* query, which PostgreSQL refuses.  The router swallows the error, and the
\* event is recorded as handled.
HandleYieldClaimed(b, h) ==
  /\ <<b, h>> \in claimed \ indexed
  /\ indexed' = indexed \cup {<<b, h>>}
  /\ UNCHANGED <<rowVars, mode, admin, confirm, held, record, claimed, moneyVars>>

-----------------------------------------------------------------------------
PartnerStep ==
  \E b \in Batches, last \in Eligible :
    \/ \E x \in Incomes : TriggerDistributionFromIncome(x, b, last)
    \/ \E total \in Amounts : Distribute(b, total, last)

ApproveStep(a) ==
  \/ \E b \in Batches : ApproveRead(a, b)
  \/ \E last \in Holders : ApproveCommit(a, last)
  \/ ApproveAbort(a)

NotaryStep(a) == Notarise(a) \/ NotaryFailed(a)

HolderStep(h) ==
  \/ UpdateProfile(h)
  \/ \E b \in Batches : GetUserMerkleProof(b, h) \/ Claim(b, h) \/ ConfirmRead(b, h)
  \/ ConfirmSave(h)

IndexerStep ==
  \E b \in Batches : HandleYieldRecorded(b) \/ \E h \in Holders : HandleYieldClaimed(b, h)

Next ==
  \/ PartnerStep
  \/ \E a \in Admins : ApproveStep(a) \/ NotaryStep(a)
  \/ \E b \in Batches : RejectDistributionBatch(b)
  \/ \E h \in Holders : HolderStep(h)
  \/ IndexerStep

Spec == Init /\ [][Next]_vars

\* A request that is being served goes on, and the indexer polls.  Nothing
\* obliges a partner, an administrator or a holder to make one.
Fairness ==
  /\ \A a \in Admins :
       /\ WF_vars(\E last \in Holders : ApproveCommit(a, last))
       /\ WF_vars(ApproveAbort(a))
       /\ WF_vars(NotaryStep(a))
  /\ \A h \in Holders : WF_vars(ConfirmSave(h))
  /\ WF_vars(IndexerStep)

FairSpec == Spec /\ Fairness

-----------------------------------------------------------------------------
(* Properties *)

RowOK(r) ==
  /\ DOMAIN r = {"amount", "status", "mode", "proof"}
  /\ r.status \in {"NONE", "PENDING", "READY", "PAID"}
  /\ r.mode \in Modes
  /\ r.amount \in Int
  /\ DOMAIN r.proof \subseteq Linked

\* Every variable has its type.  The partner's balance is never negative,
\* though approvals run side by side and creation reserves nothing
\* (wallet.service.ts, debitAvailable).
TypeInv ==
  /\ distributed \in [Incomes -> BOOLEAN]
  /\ mode \in [Holders -> Modes]
  /\ \A b \in Batches, h \in Holders : RowOK(row[b][h]) /\ RowOK(held[b][h])
  /\ partner \in Nat
  /\ \A a \in Admins : admin[a].pc \in {"IDLE", "APPROVING", "NOTARISING"}
  /\ \A h \in Holders : confirm[h].pc \in {"IDLE", "SAVING"}
  /\ \A b \in Batches : record[b].kind \in {"NONE", "PLAIN", "MERKLE"}
  /\ claimed \subseteq Batches \X Holders
  /\ indexed \subseteq Batches \X (Holders \cup {Nothing})
  /\ made \in [Batches -> [from : Incomes \cup {Nothing}, total : Nat]]
  /\ spent \in [Batches -> [debited : Int, fees : Int, granted : Int]]
  /\ credits \in [Batches -> [Holders -> Nat]]
  /\ allotments \in [Batches -> [Holders -> Nat]]
  /\ eager \subseteq Batches \X Holders

\* One income report makes one batch, however many requests name it, and only
\* a report that is marked has one.
IncomeMakesOneBatch ==
  \A b \in Batches : made[b].from \in Incomes =>
    /\ distributed[made[b].from]
    /\ \A c \in Batches : made[c].from = made[b].from => c = b

Payouts(b) == Total(credits[b]) + Total(allotments[b])

Drift(b) == spent[b].debited - spent[b].fees - spent[b].granted

\* What an approval takes from the partner is the platform's fee and what the
\* holders get: to the halala when the batch is of one mode, and within one
\* halala per payout when it is mixed.  What is taken left the partner's wallet.
MoneyAddsUp ==
  /\ PartnerFunds - partner = Total([b \in Batches |-> spent[b].debited])
  /\ \A b \in Batches :
       /\ (Total(credits[b]) = 0 \/ Total(allotments[b]) = 0) => Drift(b) = 0
       /\ Drift(b) \in -Payouts(b) .. Payouts(b)

\* However a total is rounded, no pending payout is further from the holder's
\* exact share than half a halala per holder: the rest that goes to the last
\* one is never more, and it may be negative.
SharesAreFair ==
  \A b \in Batches : \A h \in Rows(b, {"PENDING"}) :
    LET d == 2 * (row[b][h].amount * Total(Units) - made[b].total * Units[h])
        n == Cardinality(Eligible) * Total(Units)
    IN  d \in -n .. n

\* From the report to the single payout no halala is made or lost on the way,
\* and none goes to the wrong holder (approveDistributionBatch).
AmountsAreRight == MoneyAddsUp /\ SharesAreFair

\* A payout is granted once: credited off the chain or put under a root.
PaidOnce == \A b \in Batches, h \in Holders : credits[b][h] + allotments[b][h] <= 1

\* It is granted once at most by each of the approvals that run side by side:
\* one that starts after a commit finds nothing pending, whatever is saved late,
\* inserted again or rejected meanwhile (approveDistributionBatch).
PaidOncePerApproval ==
  \A b \in Batches, h \in Holders : credits[b][h] + allotments[b][h] <= Cardinality(Admins)

\* A row says PAID if its holder was credited, and only if it was credited or
\* has claimed on the chain.
PaidMeansPaid ==
  \A b \in Batches, h \in Holders :
    /\ credits[b][h] > 0 => row[b][h].status = "PAID"
    /\ row[b][h].status = "PAID" => credits[b][h] > 0 \/ <<b, h>> \in claimed

\* The rows tell how a holder was paid, though approvals and confirmations save
\* what they read before.  A credit is never hidden, by a rejection that
\* overtakes the approval either: its row is there and PAID, unless another
\* approval put it under a root too.  What the contract has paid was put under a
\* root.  A row that is PAID without a credit or a claim was marked by its holder
\* (approveDistributionBatch, confirmOnChainClaim, YieldHandler).
PaymentsAreReal ==
  \A b \in Batches, h \in Holders :
    /\ credits[b][h] > 0 => \/ row[b][h].status = "PAID"
                            \/ row[b][h].status = "READY" /\ allotments[b][h] > 0
    /\ <<b, h>> \in claimed => allotments[b][h] > 0
    /\ row[b][h].status = "PAID" => credits[b][h] > 0 \/ <<b, h>> \in claimed \cup eager

\* The proof a READY row serves is accepted by the contract once its batch is
\* recorded: same root, same amount.
ReadyProofIsValid ==
  \A b \in Batches : record[b].kind # "NONE" => \A h \in Rows(b, {"READY"}) :
    /\ row[b][h].proof = record[b].root
    /\ row[b][h].amount = record[b].root[h]

\* A claim whose event the indexer has handled is PAID in the database.
IndexedClaimIsPaid ==
  \A b \in Batches, h \in Holders :
    <<b, h>> \in indexed => row[b][h].status \in {"PAID", "NONE"}

\* A report that is marked as distributed has payouts.
DistributedIncomeHasPayouts ==
  \A x \in Incomes : distributed[x] =>
    \E b \in Batches : made[b].from = x /\ Rows(b, {"PENDING", "READY", "PAID"}) # {}

\* A batch whose on-chain payouts are committed is recorded on the chain.
ReadyIsRecorded ==
  \A b \in Batches : Rows(b, {"READY"}) # {} ~> record[b] # NoRecord
=============================================================================
