# Verification of RemzikBackend

RemzikBackend is a NestJS service that sells shares of tokenised real estate.
Its state is in PostgreSQL (through TypeORM, isolation level READ COMMITTED),
in the jobs of a Bull queue in Redis, and on an EVM chain that it writes with
its own key and reads through an RPC node and an event indexer. This directory
holds TLA+ models of it, the TLC runs that check them, and TLAPS proofs.

| Module | Models | Runs | Proofs |
|---|---|---|---|
| `Investment` | the primary market: rows, queue and worker, verifiers, indexer handler, chain | `offchain`, `mixed`, `onchain`, `live` | `InvestmentProofs` |
| `Distribution` | income reports, payout batches, approval, notary, claims | `dist_serial`, `dist_race` | `DistributionProofs` |
| `SecondaryMarket` | listings, trades, escrows, disputes | `sm_market` | `SecondaryMarketProofs` |
| `Finance`, `Account` | deposits, transfers and withdrawals with locks and connections, and what they promise | `finance_money` | `FinanceProofs` |
| `AssetGovernance` | an asset's life: approval, deployment, tokenization, price, governance | `assets`, `price` | `AssetGovernanceProofs` |
| `Identity` | a user's row, KYC, freezes, wallets, wallet recovery | `identity_user` | `IdentityProofs` |
| `Indexer` | the polling loop: cursor, window, repetition, failures | `polls` | `IndexerProofs` |

`MC<module>.tla` gives a module its model values, and each
`MC<module>_<name>.cfg` is an instance: `tlc -config MCFinance_money.cfg
MCFinance`, `tlapm FinanceProofs.tla`. The runs are listed in `PROJECT.json`;
the other cfg files show of properties that the code does not have them, and
are named where the property is discussed (one that lists several shows a
behaviour for each with `tlc -continue`). There too `map` says which
lines each definition models, `hazards` what is hard to test and which property
covers it, and `mutants` how each property was seen to fail.

## 1. Inventory

`src/src/` is the application. It has no tests worth the name: its comments,
log messages and error messages are the statements of intent.

| Component | State | Operations | Interacts with |
|---|---|---|---|
| Primary market (`investment/`) | `investments` rows: status, settlement mode, intent snapshot, txHash | createInvestment, createInvestmentIntent, submitOnChainTransaction, verifyOnChainInvestment, finalizeTokenization, finalizeVerifiedInvestment, handleInvestmentFailure, confirmInvestment | token, asset, wallet, ownership rows; queue; chain; indexer |
| Queue and worker (`investment.processor.ts`, `investment.module.ts`) | Bull jobs | process-investment, verify-onchain-investment | primary market |
| Indexer (`blockchain/indexer/`) | `chain_event_logs` (also its cursor) | poll a window of blocks, route each log, record it; one handler per contract | every domain table |
| Wallet, ledger (`wallet/`, `ledger/`) | available, locked, pending and earned balances; ledger entries | credit, debit, lock, unlock, payout, transfer | all money flows |
| Ownership (`ownership/`) | shares per investor and asset | addShares, addUnits, removeUnits | settlement of investments and trades |
| Tokenised asset (`asset/`, `tokenization/`, price oracle) | asset status, funded, investors; token availableShares, price | create, approve (deploys contracts), tokenize, freeze, reject, sync price | chain, admin |
| Secondary market (`secondary-market/`) | listings, trades, an in-memory set of locked listings | prepare/confirm/cancel listing, trade intent, execute, submit, verify, sync, settle | escrow, wallet, ownership, chain |
| Escrow, disputes (`escrow/`, `dispute/`) | escrow and dispute rows | create, release, refund, dispute, freeze; open, resolve | trades, wallet, chain |
| Distributions (`distribution/`, `asset/income.service.ts`) | payout rows per batch | report income, batch, approve, reject, confirm a claim, indexed events | wallet, ownership, chain |
| Deposits, withdrawals (`finance/`) | deposit and withdrawal rows | webhook credit; request, approve, reject | wallet |
| Recovery (`Recovery/`) | recovery requests | request, verify, approve and execute on the chain | users, chain |
| Governance (`governance/`) | proposals | propose, execute, liquidate; indexed proposals | chain, asset |
| KYC, identity, admin (`kyc/`, `admin/`, guards) | KYC status, freezes, the on-chain identity registry | submit, review, approve, freeze | chain first, then database |
| Users, auth, partners, investors | profiles | registration, login, profile edits | one row each |
| Notifications, broadcasts, analytics, documents, storage, audit | messages, files, reports | append or read | can throw into the handler that calls them |
| Cron (`cron/`) | none | imported by no module, never runs | |

What makes it hard:

* **Concurrency.** Requests, two queue processors and the indexer run as
  interleaved promises, in as many processes as are deployed. Row locks
  (`pessimistic_write`) protect some reads and not others; several decisions
  are taken on a read before an `await` and acted on after it.
* **Two systems of record.** The chain is written first, irreversibly, and the
  database afterwards; the indexer then hears of the service's own writes as if
  they came from outside.
* **Failure and retry.** Bull retries a job that throws (3 or 30 attempts) and
  one whose process died; clients repeat requests; the indexer swallows errors.
* **Stale write-backs.** TypeORM's `save` writes an entity read earlier.

What makes each part correct: reservations come back once or are turned into
ownership; money moves once per confirmed purchase; confirmation is final and
backed by the chain (primary market); money is conserved and never in two
places (wallet, escrow, withdrawals); a listing is sold once, a trade is
settled or refunded and not both (secondary market); a batch is paid once, in
full (distributions); every event is handled once, in order, and polling makes
progress (indexer); database and registry agree in the end (identity,
recovery, governance).

`PROJECT.json` lists the hazards with their lines, and the properties that
cover them.

## 2. Plan

The modules were written in the order of what a mistake costs: the money and
shares of the primary market first, then income, secondary market, wallets,
the chain-first protocols around users and assets, and the loop that feeds the
handlers. All seven are done. Each stands for itself: they meet in the
wallets, the ownership rows and the events, and each models what the others do
to those as an action of its own (a transfer in `Finance` is the debit of an
investment; the events `AssetGovernance` and `Identity` hear are the logs of
`Indexer`).

What is left, in this order:

1. abstract specifications of the other money flows, as `Account` is one of
   withdrawals: a ledger of shares (free, reserved, sold) for `Investment`, a
   sale (units and price change hands together) for the part of
   `SecondaryMarket` without disputes;
2. a composition of `Indexer` with a handler, so that the repetitions and gaps
   of the one are the inputs of the other.

Runs use two actors and at most two or three of everything else; theorems are
stated for every value of the constants.

Every invariant and every safety property of the runs that pass has a theorem;
the liveness properties are checked by TLC alone, for liveness under fairness is
beyond the provers used here.

**Sums.** Money and units are sums over sets: `SumFunction` and
`SumFunctionOnSet` of the community modules, which a fold defines by recursion on the chosen
element. The provers cannot do induction over such a fold, but they can use
well-foundedness: `SumTheorems.tla` proves each fact about a sum of any finite
set by taking a smallest set that refutes it and removing the element the
recursion takes first (`SmallestSubset`, `SumChosen`). Its lemmas say what the
other proofs need: the sum over the empty set, with an element more or less
(`SumAdd`, `SumRemove`), of a function changed at one point or with an amount
moved between two (`SumChange`, `SumMoved`), of functions compared point by
point (`SumMonotone`, `SumLinear`, `SumBound`), and of one that counts
(`SumCount`). The sets that are summed over (withdrawals, trades, holders,
batches, wallets) are assumed finite in the modules that declare them.

Where a step changes a function at two points that may be one, it is written as
a function constructor (`RecoverWallet`, `MoveUnits`): what the two changes make
of one point is then in sight, for the reader and for the provers.

## 3. The primary market: `Investment.tla`

One asset, its token, its partner, any set of investors and investments.

**State.** `status`, `mode`, `txHash` are the columns of `investments`; `open`
is a creation whose transaction has inserted its row and holds the token's lock
but has not committed; `avail`, `owned`, `funded`, `investorCount` are
`availableShares`, `Ownership.shares`, `Asset.funded`, `Asset.investors`;
`balance`, `partnerFunds` are wallets; `healed` are the rows the indexer
inserts by itself; `checkpoint` is what `chain_event_logs` puts behind the
indexer. `job` holds the process-investment jobs, by Bull job id; `verifier`
says where each call of verifyOnChainInvestment stands, one by the HTTP handler
and one by the queue per investment; `idx` is the indexer; `chain` is the
chain. `returned`, `paid`, `creditUnits`, `taken` are observations that no
action reads.

**Steps.** A step is a transaction, or the part of a handler between two
awaits after which it acts on what it read:

| Code | Actions |
|---|---|
| createInvestment | `CreateInvestmentOpen` (up to queue.add, inside the transaction), `CreateInvestmentCommit`, `CreateInvestmentRollback` |
| createInvestmentIntent | `CreateInvestmentIntent` |
| admin confirm | `ConfirmInvestment` |
| InvestmentProcessor.handleInvestment | `JobStart` (unlocked idempotency check), `ExecuteBlockchainTransfer` / `TransferReplyLost` / `TransferRefused`, `FinalizeTokenizationLock`, `...Commit` / `...Rollback`, `HandleFailure` / `HandleFailureThrows`, `WorkerCrash` |
| submitOnChainTransaction | `SubmitOnChainTransaction`, `SubmitEnqueue` |
| verifyOnChainInvestment | `VerifyRead` (row and RPC node, with the verdict of `VerifyOutcome`), `FailVerification`, `FinalizeVerified`, `FinalizeVerifiedRefused`, `VerifierCrash` |
| InvestmentHandler, router and poller | `IndexKnown`, `IndexRead`, `IndexConfirmIntent`, `IndexSelfHeal`, `IndexSwallow`, `IndexCheckpoint`, `IndexCrash` |
| the chain and the investor's wallet (external) | `SignDeposit`, `Mine`, `NewBlock` |

`Job*` and `QueueAdd` are Bull as `investment.module.ts` configures it: three
attempts, jobs removed when they complete or fail (a verification job that
fails for good is kept: `removeOnFail: false`), an add under an id the queue
holds is dropped, a job whose process died runs again until it stalled too
often.

**Mistake operators.** An operator commented `Mistake:` is a wrong variant of
the one that follows it. No specification uses it; each stands for a plausible
bug, which the run named in `PROJECT.json` "mutants" must catch.

**Abstractions and assumptions.**

* A client submits deposits signed by its own wallet; anybody else's hash fails
  the sender check in the code and adds nothing.
* A deposit is described by its intent, its outcome and its confirmations; the
  comparison of calldata is "same owner, same amount", because two intents of
  one investor for one amount have the same calldata. There are no chain
  reorganisations: the code has no handling of them.
* `TreasuryVault.deposit` emits StablecoinDeposited, not TokensReleased;
  tokens are released by the service only.
* Two unlocked checks that are repeated under the lock are merged with it
  (submitOnChainTransaction). In finalizeTokenization and in the indexer the
  read of the ownership row and the write of the asset row are one step; the
  asset row's lock is taken by the first write of funded.
* PostgreSQL accepts the `FOR UPDATE` queries with relation filters
  (investment.handler.ts:128-135); were they refused, the indexer would take
  the error path, `IndexSwallow`, each time.
* `decimals` is 18 by default, so a raw amount is never a share count:
  `Scale > 1` is the realistic case, `Scale = 1` the friendly one.
* Notifications appear only where they can throw into a handler that acts on it.
* Left out: investments of different assets (they share wallets only), frozen
  accounts and KYC guards (reads), CANCELLED, TOKENIZED and CREATED (no code
  assigns them).

### Properties

`TypeInv` is the type invariant with the ranges that matter (no share or
balance below zero, attempts left). The safety properties are listed, each
with its comment, at the end of the module:

* `OneOutcome`: one outcome per investment, whatever races. Its parts are
  `ReturnedAtMostOnce`, `PaidIffConfirmed` and `CreditedIffConfirmed`.
* `ConfirmedIsFinal`: no step takes a confirmation back.
* `MoneyMatchesConfirmations`: balances against confirmed investments.
* `TotalsAgree`: totals against the rows they summarise. Its parts are
  `OwnershipMatchesCredits`, `SharesAccounted` and `FundingNeverOverstated`.
* `ConfirmationIsBacked`: no confirmation without the transaction that
  justifies it. Its parts are `OnChainConfirmationHasEvidence` and
  `OffChainConfirmationHasRelease`.
* `ReleasedIsSettled`, `VerdictIsCarriedOut`: liveness.

### Runs

| Run | Shows | Bounds |
|---|---|---|
| `offchain` | two investors, an admin, crash or database error anywhere | 2 investments, 2 attempts, 1 fault, 2 transactions; 1.5 M states |
| `mixed` | one investor, both modes at once; also `TypeInv` | 2 investments, funds for one of them, shares for both, 2 confirmations, 1 attempt, 1 fault; 2.0 M states |
| `onchain` | deposits of one intent submitted for another | 2 intents of different amounts; 0.25 M states |
| `live` | liveness under fairness | 1 investment, both modes, admin, 3 transactions, no fault; 8 k states |

Why the bounds are enough: each race is between two settlements of one row or
between the rows of one owner, so two investments, two job ids (three with the
admin's) and two worker slots reach every pair of actors. `Funds` lets the
second debit of `mixed` fail; `TotalShares` equals the demand, so that a share
given back twice shows; `FundedMax` lets a raw release be refused when
`Scale = 2`; `TxLimit` leaves a second release for a retry; one fault is any
single crash or error at any point, and the second attempt runs after it.
`FaultLimit`, `TxLimit` and the two constant sets bound the behaviours, the
other constants are the configuration's. `CHECK_DEADLOCK` is off: when every
investment has settled and the transactions are spent the bounded system stops.
Symmetry is not used: with owners and keys fixed per investment there is none
to exploit.

Fairness (`FairSpec`): strong fairness for each worker and each verifier, as
Bull's wait list and PostgreSQL's lock queues are first come, first served and
the steps of one may be disabled and enabled again by others' locks; weak
fairness for the end of an open transaction, for the indexer's endless polling
loop, and for the chain including and burying a deposit. Clients and admins owe
nothing, and no fault has to happen. The counterexamples of `MCInvestment_queued.cfg`,
`MCInvestment_buried.cfg` and `MCInvestment_heal.cfg` (below) are found under
this fairness: nothing is left to do in their final states.

### Findings

Seven properties are stated in the module and do not hold; the cfg files
beside it show it. `FundingCountsEveryInvestment` (`MCInvestment_funding.cfg`):
two settlements at the same time read `funded` before either writes it, and the
row comes to count one of them. `FailedIsFinal` (`MCInvestment_failedfinal.cfg`):
a FAILED investment can be confirmed after its reservation was given back.
`QueuedIsProcessed` (`MCInvestment_queued.cfg`): a job can spend its attempts
before the row it names is committed.
`MinedDepositIsSettled` (`MCInvestment_buried.cfg`): a
deposit verified before it is buried is never verified again, though
investment.service.ts:1091 says it is "waiting for required blockchain
confirmations". `CreationIsIdempotent` (`MCInvestment_idempotency.cfg`):
create-investment.dto.ts:28 calls transactionId an "idempotency/reference ID",
and a repeated one makes two investments. `CompletedIsNotExecutedAgain`
(`MCInvestment_reexecute.cfg`): investment.processor.ts:41 says "Never execute
an already completed investment again", and two jobs of one investment release
tokens twice. `ReleaseGetsARow` (`MCInvestment_heal.cfg`): the "Self-Healing
Path" of investment.handler.ts:152 takes a raw amount for shares, it overflows,
and the swallowed error leaves a recorded event without a row.

## 4. Proofs: `InvestmentProofs.tla`

For every value of the constants that satisfies `InvestmentAssumption` (which
TLC evaluates in every run):

| Theorem | Statement |
|---|---|
| `TypeCorrect` | `Spec => []TypeInv` |
| `SettlementSafe` | `Spec => []SettlementInv` |
| `OneOutcomeEach` | `Spec => []OneOutcome`, from `ReservationReturnedOnce`, `PaidExactlyOnce`, `CreditedWithConfirmation` |
| `ConfirmationBacked` | `Spec => []ConfirmationIsBacked`, from `OffChainBacked`, `OnChainBacked` |
| `ConfirmationFinal` | `Spec => ConfirmedIsFinal` |
| `InvestmentMoney` | `Spec => []MoneyMatchesConfirmations` |
| `FundingIsModest` | `Spec => []FundingInv` |
| `TotalsKept` | `Spec => []TotalsAgree`, from `OwnershipsAddUp`, `SharesAreAccounted`, `FundingIsModest` |

The argument. `TypeInv` is inductive by itself: `CreationInv` (the open
creation's shares are still there when it commits, because it alone holds the
token's lock) keeps `avail` from going below zero, and `TriesLive` keeps the
attempts in range. None of the safety properties is inductive: a worker that
is about to commit relies on what it saw some steps ago. `SettlementInv` says
what that is: a job that passed the lock owns a row that is not confirmed, and
a release made for it; two jobs never hold one row's lock; a row is bound to a
deposit until it is confirmed; a verdict "finalize" is about the deposit the row
is still bound to; the indexer's event is a release. `TypeInv /\ SettlementInv`
is preserved by every action (lemmas `<Action>Typed` and `<Action>Settled`, one
pair per action, put together in `InvariantStep`). From it the actions that
write a row are shown to be the only ones that change an outcome
(`RowStepsOnly`), and each property follows with one lemma about its own step
(`ReservationStep`, `PaidStep`, `CreditedStep`, `OffChainStep`, `OnChainStep`,
`FinalStep`).

The totals are sums over investments and over hashes, and each step changes one
term. `LedgerStepsOnly` lists the actions that touch a row, a balance or a
total, and what each of them changes; everything else leaves every sum as it is.
`MoneyMatchesConfirmations` follows from `PaidIffConfirmed` and `JobInv`: the
debit happens in the step that confirms a row that was not confirmed, so it adds
one term to one investor's spending (`MoneyStep`). `SharesAccounted` needs
`ReservationInv`: shares come back with `returned` going from 0 to 1 and from
nothing else (`SharesStep`). `OwnershipMatchesCredits` needs that the hash a row
is made for was not healed before, which the checkpoint does not say but the
handler's look for the row does, and that a healed hash stays a release
(`HealedReleases`), because what it is worth is read off the chain.

`FundingNeverOverstated` is not inductive even with all of these: a worker that
holds a row's lock, and the indexer before it writes, carry a copy of `funded`
and `investorCount` read some steps ago and write it back with their own
addition, over whatever was written meanwhile. `FundingInv` says of each copy
that still can be written what the property says of the row (`Modest`). It is
preserved because what bounds the totals only grows: a confirmation is final, so
the terms of `Earned` stay, and ownership rows are never reduced in the primary
market, so `Holders` stay (`EarnedGrows`, `HoldersGrow`). The writer's addition
is then covered by the term that its own step adds (`EarnedByRow`,
`EarnedByRelease`, `TotalsWritten`). TLC checked `FundingInv` and
`HealedReleases` on the instances of `mixed` before they were proved.

Only model-checked: the liveness properties.

## 5. Distributions: `Distribution.tla`

One asset with one partner, any set of holders, income reports and batches.

**State.** `distributed` is `AssetIncome.isDistributed`; `row` is the
`distributions` table, per batch and holder (the table's unique index), with
amount, status, mode and proof; `mode` is `InvestorProfile.distributionMode`;
`partner` is the partner's available balance. `admin` and `confirm` say where
the approvals and the claim confirmations in progress stand, and hold what they
have read. `record` and `claimed` are the YieldNotary contract; `held` is the
proof a holder has fetched; `indexed` are the events that were handled. `made`,
`spent`, `credits`, `allotments` and `eager` (the payouts their holder has
marked as claimed before they were) are observations that no action reads, but
that `made` also says which batch ids are unused.

| Code | Actions |
|---|---|
| triggerDistributionFromIncome, triggerYieldDistribution | `TriggerDistributionFromIncome` (one step: it holds the report's row), `Distribute` |
| approveDistributionBatch | `ApproveRead` (unlocked), `ApproveCommit` / `ApproveAbort` (from the lock of the partner's wallet), `Notarise` / `NotaryFailed` (after the commit) |
| rejectDistributionBatch | `RejectDistributionBatch` |
| updateProfile (the mode only), getUserMerkleProof | `UpdateProfile`, `GetUserMerkleProof` |
| confirmOnChainClaim | `ConfirmRead`, `ConfirmSave` |
| YieldHandler | `HandleYieldRecorded`, `HandleYieldClaimed` |
| the contract (external) | `Claim`, and the `record'` of `Notarise` |

What the model keeps of TypeORM: `save` of an entity read earlier writes what
was read, and inserts the row again if it was deleted; an UPDATE by id does
not. Both happen in one approval, for off-chain and on-chain payouts.

**Abstractions and assumptions.** Amounts are integers, in the halalas the code
rounds to, so `Math.round` is exact; the code computes in binary fractions,
where a product that should end in half a halala may round the other way. A
batch id never repeats (it is a clock reading and four characters of the
asset's id). A root stands for its tree: two trees with the same leaves are the
same, and no other proof is valid. Every holder and the platform's account have
a wallet row, without which a credit would vanish. The contract keeps the first
record of a batch and pays a leaf once. A chain step that fails fails as a
whole. Holders confirm what they like, claimed or not, as confirmOnChainClaim
lets them.

### Properties

* `IncomeMakesOneBatch`: one batch per report, however many requests name it.
* `PaidOncePerApproval`: each of the approvals that run side by side grants a
  payout once at most. One that starts after a commit finds nothing to grant,
  though rejections delete rows and confirmations save them again meanwhile.
* `AmountsAreRight`. What leaves the partner's wallet is fee plus payouts,
  exactly for batches of one mode, within a halala per payout for mixed ones
  (the code gives the rest of the rounding to nobody there): `MoneyAddsUp`. No
  payout is far from the exact share; the last holder takes the sum of the
  others' rounding errors, which may even make it negative: `SharesAreFair`.
* `PaymentsAreReal`. A credit is never hidden: its row is there and PAID, or
  READY if another approval has put the payout under a root too. What the
  contract has paid was put under a root. A row that is PAID was credited or
  claimed, or its own holder has marked it (`eager`).
* `ReadyProofIsValid`: a READY row's proof against the contract.

`PaidOnce`, `PaidMeansPaid`, `ReadyIsRecorded` and two more are stated and do not
hold, see below.

### Runs

| Run | Shows | Bounds |
|---|---|---|
| `dist_serial` | `AmountsAreRight`, `ReadyProofIsValid` | 3 holders (1, 2 and 1 units, so that shares of 100 and 101 do not divide), one of them without an address, 1 batch of either amount, 1 approval at a time; 1.09 M states, half a minute |
| `dist_race` | `TypeInv`, `IncomeMakesOneBatch`, `PaidOncePerApproval`, `PaymentsAreReal`, with approvals side by side | 1 holder, 2 batches, 2 approvals, funds for three debits where four are possible; batches and approvals are interchangeable; 2.21 M states, 80 seconds |

In both the notary may fail, holders change modes and confirm what they have not
claimed, and rejections overtake approvals. One batch is enough in
`dist_serial`, for batches share nothing but the partner's balance and the
income flag, which `dist_race` has two batches for, and holders share nothing
but the rounding; two approvals are the smallest race, and a third would have to
pay a batch that two have paid. `ReadyProofIsValid` is about approvals that do
not overlap: two of them put two roots under one batch, and the contract keeps
the first. Mode changes are unbounded, as the modes are two. `CHECK_DEADLOCK` is
off as the batches are bounded. No liveness is claimed: what has to happen after
the commit, the record of the batch, is lost for good when its one attempt fails
(`MCDistribution_notary.cfg`).

### Findings

Five properties do not hold, as the cfg files beside the module show. `PaidOnce`
with two approvals at a time (`MCDistribution_twice.cfg`): both read the rows
before either writes them, and both pay. `ReadyIsRecorded` when the notary may
fail (`MCDistribution_notary.cfg`): the error is dropped, though its log at
distribution.service.ts:450 says "will retry via queue". `PaidMeansPaid`
(`MCDistribution_unmet.cfg`, as the next two): a claim that was never made is
"successfully verified and completed" (distribution.service.ts:584).
`IndexedClaimIsPaid`: the indexer cannot find the batch of a claim, whose id is a
hash by then. `DistributedIncomeHasPayouts`: the report of a rejected batch stays
marked, and is refused as "already distributed" (distribution.service.ts:78).

Two more things the model shows without a statement in the
repository to hold them against: a rejection that overtakes an approval leaves
on-chain payouts debited and under the root with no row to fetch a proof from,
and a confirmation that was read before the approval writes the gross amount
and no proof back over the approved row.

### Proofs: `DistributionProofs.tla`

| Theorem | Statement |
|---|---|
| `DistributionTypes` | `Spec => []TypeInv` |
| `AmountsAddUp` | `Spec => []AmountsAreRight` |
| `OneBatchPerIncome` | `Spec => []IncomeMakesOneBatch` |
| `ApprovalsPayOnceEach` | `Spec => []PaidOncePerApproval` |
| `PaymentsHappen` | `Spec => []PaymentsAreReal` |
| `SerialApprovalsPayOnce` | if two approvals are the same one (`Admins` has one element), `Spec => []PaidOnce` |
| `ProofsAreAccepted` | under the same condition, `Spec => []ReadyProofIsValid` |

`IncomeMakesOneBatch` is inductive. `PaidOncePerApproval` is not: its invariant
(`GrantInv`) counts the approvals that have read a payout as pending (`Readers`)
and may still grant it. Those that have granted it and those that may are never
more than there are approvals, since a payout is pending only as long as nobody
has granted it, and none that has been granted is pending again, though rows are
deleted, saved late and inserted again. It rests on nothing but that a server
runs finitely many approvals at once (`FewApprovals`). With one approval it says
that a payout is granted once; `MCDistribution_twice.cfg` shows that with two it
may be granted twice.

`PaymentsAreReal` needs no assumption about approvals or holders: `RowTells` says
of each row what it tells, `Marked` says so of all, and a late save may change a
row but not hide a credit, for it makes the row PAID or leaves it under the root.
`Leaves` says that whoever is under a root was allotted its payout.
`ReadyProofIsValid` adds `Recording`: a batch is approved once and everything that
waits in it at once, so the first record is of the root its rows were put under.

`AmountsAddUp` needs no assumption but that holders and batches are finite and
that a batch's id is no hash of one. Its invariant says that a pending payout is
still the one that was made (`PendingAsMade`). The rest is arithmetic of sums:
each payout but the last is within half a halala of its exact share, so their
sum, which the last one makes up for, is within half a halala per holder; and
the fee is what the debit leaves.

Everything temporal is only model-checked.

## 6. The secondary market: `SecondaryMarket.tla`

One asset; any set of investors, listings, trades and disputes; one server
process, whose mutexes serialise what they guard.

**State.** `listing`, `trade`, `escrow` and `dispute` are the columns of those
tables the code decides on (an escrow belongs to a trade, so it is named by
it); `available`, `locked` are the two wallet balances; `units` is
`Ownership.units`. `chain` is the marketplace contract: each listing's status
there, or the trade that got its tokens; `purchase` is the transaction by which
the buyer of a trade pays on the chain itself; `trade[t].hash` says what the
hash bound to a trade is of, that purchase (OWN), the server's release (RELEASE)
or any other transaction (OTHER). `desk`, `settler` and `resolver`
are the requests that hold `listingMutex`, `settlementMutex` and
`disputeMutex`; `opening` are the createDispute requests that have found no
dispute yet; `txn` is, per trade, the database transaction that is settling it,
with the two ownership rows it has read. `delivered`, `paid`, `refunded` and
`foreign` (the trades completed on a transaction that is not theirs) are
observations that no action reads.

| Code | Actions |
|---|---|
| prepareListing, confirmListing, cancelListing | `PrepareRead`, `PrepareCommit`; `ConfirmRead`, `ConfirmSave`; `CancelListing` |
| createTradeIntent, executeTrade (with createEscrow, lockFunds) | `CreateTradeIntent`, `ExecuteTrade` |
| submitOnChainTransaction, verifyOnChainTrade | `SubmitOnChainTransaction`; `VerifyOpen` (up to the row lock and the unlocked reads of the units), `VerifyCommit` |
| settleTrade | `SettleRead`, `SettleRelease` (the chain), `SettleOpen`, `SettleCommit`, `SettleFails` |
| createDispute | `DisputeRead`, `DisputeCommit`, `DisputeAbort` |
| resolveDispute | `ResolveForBuyer`, `ResolveFrozen`, `ResolveOther` (the database only); `ResolveRelease`, `ResolveOpen`, `ResolveCommit`, `ResolveFails` (for the seller: the chain first) |
| the contract and the investors' wallets (external) | `ListOnChain`, `CancelOnChain`, `SignPurchase`, `MinePurchase` |

**Abstractions and assumptions.**

* The contract sells an active listing once, to whoever comes first, and its
  two ways of selling (the buyer's purchase, the server's release) exclude each
  other. This is external, and everything below about one delivery rests on it.
* A buyer may submit the hash of any transaction. The code looks at neither its
  sender, its contract nor its listing, nor whether another trade has it, but
  only at the receipt's status (trade.service.ts:191-286); in the model a
  transaction that is not the trade's purchase may always have succeeded.
* `SettleFails` and `ResolveFails` stand for every error after the mutex is
  taken, the database's included: they are possible whenever no transaction is
  half way, and nothing takes back what the chain has done.
* Transactions that write the same wallet row wait for each other
  (`WalletsFree`); those that only move units do not, for the ownership rows
  are read without a lock.
* Prices and quantities are those of the listing; a listing is bought whole.
* Left out: createListing, createTrade, syncOnChainTrade and the marketplace
  handlers, which nobody calls or which always fail or change nothing (the
  components in `PROJECT.json` say why); the ten minutes after which a PENDING
  listing counts as abandoned (any time is possible); emails.

### Properties

* `DeliveredHasTokens`: units move only to the buyer that has the tokens on the
  chain, so of all the trades of a listing at most one is delivered, whoever
  settles, verifies and resolves; but for the trades that were verified on a
  transaction that is not theirs, the one path that does not look. A listing
  can have several trades, for confirmListing makes it ACTIVE again whatever
  its status.
* `DeliveredOnce`: a trade is delivered once, once more for each dispute about
  it at most, and once more if it was completed on such a transaction.
* `PaidMeansDelivered`: a seller's wallet is credited for units it gave up, as
  often as it did, and not for a trade paid on the chain.
* `BooksFollowTrades`. Available and locked money together are what the
  investor started with, with its sales and without its escrowed purchases,
  through any order of locks, refunds, freezes and releases:
  `MoneyFollowsTrades`, whatever hashes are submitted. The same of units, for
  the trades of one listing and until one of them is completed on a transaction
  that is not its own: `UnitsFollowDeliveries`.

### Runs

| Run | Shows | Bounds |
|---|---|---|
| `sm_market` | all of the above and `TypeInv` | a seller with 2 units and two buyers with 2 each, 1 listing of 1 unit, 2 trades, 1 dispute; buyers and trades are interchangeable; 2.21 M states, 85 seconds |

Two trades of one listing are the race there is: settlement, verification and
resolution act on one trade, and trades meet at the listing, the seller and
their buyers, who may be the same investor or the seller itself. Price 1 and
size 1 are enough as nothing is divided. A dispute is closed for good once it
is terminal and a trade has one at most that was found by a read, or two when
two requests race; that case is too long for a standing run, and the theorems
below cover it. `CHECK_DEADLOCK` is off as
the trades are bounded; no liveness is claimed, since everything here waits for
a user or an administrator.

### Findings

Eight properties are stated and do not hold, as the cfg files show:

* `UnitsHaveTokens` (`MCSecondaryMarket_unmet.cfg`, as the next four): one
  successful transaction of any kind completes any trade, or several, and their
  buyers get units the chain knows nothing of.
* `RefundedOrPaid`: a settled trade is disputed and refunded; the seller keeps
  the price and the buyer gets it back.
* `DeliveredAtMostOnce`: a dispute takes a COMPLETED trade back to DISPUTED, which
  verifyOnChainTrade completes again.
* `RefundedHasNoTokens`: resolving for the buyer does not look at the chain, where
  a settlement or a resolution that failed later has released the tokens.
* `PaidIsFunded`: settling a trade intent, which has no escrow, credits the seller
  and debits nobody.
* `UndisputedOnce` (`MCSecondaryMarket_settledtwice.cfg`): between settleTrade's
  call of the chain and its transaction a foreign hash completes the trade;
  settleTrade does not look at the status again (trade.service.ts:664) and
  delivers it a second time.
* `UnitsFollowDeliveries` with two listings
  (`MCSecondaryMarket_lostunits.cfg`): two verifications of one seller's trades
  read its units before either writes them.
* `ListedIsOwned` (`MCSecondaryMarket_oversold.cfg`): confirmListing asks the
  chain, and its save makes ACTIVE a listing that was sold meanwhile.

### Proofs: `SecondaryMarketProofs.tla`

| Theorem | Statement |
|---|---|
| `DeliveriesHaveTokens` | `Spec => []DeliveredHasTokens` |
| `PaymentsAreDeliveries` | `Spec => []PaidMeansDelivered` |
| `DeliveriesAreCounted` | `Spec => []DeliveredOnce` |
| `MarketTypes` | `Spec => []TypeInv` |
| `MarketMoney` | `Spec => []MoneyFollowsTrades` |
| `MarketBooks` | if there is one listing (`OneListing`), `Spec => []BooksFollowTrades` |

None is inductive: a settlement commits on the strength of a release it made
steps ago, and a dispute or a verification may have gone through in between. The
invariant is `Book /\ Held`. `Book` says that the tables are well formed and that
whoever refers to a trade or a dispute refers to one that exists. `Held` says
what whoever is past its chain step relies on: a settler or resolver has released
the listing's tokens to the trade (`Released`), a verification has a hash whose
transaction was mined (`Verified`), and who has been delivered has the tokens or
is in `foreign` (`Granted`). It is preserved because tokens that are sold stay
sold (`TokensStep`), a trade keeps its listing and buyer (`TradesStep`), and a
dispute its trade (`DisputesStep`). The proofs use the contract's exclusive sale
and no property of the mutexes beyond "one at a time".

`DeliveredOnce` adds `Once`. A release is paid for once, by whoever made it
(`PaidOnce`). A trade that only its own transactions complete is delivered as
often as it was open, that is once and once per dispute (`OpenedOnce`): the
status is read again under the row's lock. And however a trade is verified, it is
verified as often as it was open (`VerifiedOnce`), so that a hash of something
else adds the deliveries that are paid for, one.

`MarketMoney` counts, for each investor, what its trades have locked
(`Owners`): an escrow's money is in its buyer's locked balance exactly while the
escrow holds it, so every unlock, release or refund finds what it takes. The
sums change at one trade per step (`SumChange`). Units are another matter: the
ownership rows are read before they are written, with no lock, and only the
sale of one listing by one contract keeps two of these transactions apart.
`Reads` says that a transaction past its reads (`Settling`; but for the
verification of what is not the trade's) has the rows as they are. With two
listings it is false (`MCSecondaryMarket_lostunits.cfg`), and a trade completed
on another's transaction overtakes such reads too: hence `OneListing`, and units
only until `foreign` has an element.

## 7. Deposits and withdrawals: `Finance.tla`, `Account.tla`

The `wallets` table of any set of users, and every request that moves money on
it, down to row locks and the connections of the pool.

**State.** `wallet` are the committed rows (whether there is one, available and
pending balance); `withdrawal` are the committed withdrawals; `ledger` is, per
user, what the committed ledger entries add up to; `call` says at which query
each request is, with what it has read and the rows it has locked. Two
observations: `taken`, what top-ups of negative amounts have taken from each
user, and `unplaced`, the ledger's credits that found no row to update.

| Code | Actions |
|---|---|
| processDeposit, topUpDummy, transfer, getWallet | `Deposit`, `TopUp`, `Transfer`, `GetWallet` (the start of each) |
| WithdrawalService.request, approve, reject | `Request`, `Decide` (the start), `LockWithdrawal` |
| getOrCreateWallet, getAvailableBalance | `ReadWallet`, `MakeWallet` |
| debitAvailable, creditAvailable, requestPayout, finalizePayout | `DebitAvailable`, `CreditAvailable`, `FinalizePayout`; what they write: `Reserved`, `Paid`, `Returned` |
| buildAndSave of a notification | `Notify` |
| the commits, with their ledger entries | `CommitMoney`, `CommitRequest`, `CommitDecision` |
| PostgreSQL and its client (external) | `Begin`, `Free`, `Unlocked`, `BreakDeadlock`, `Fails` |

**Abstractions.** A transaction's writes become visible when it commits, and
its row locks keep others out until then; so its writes are one step, at the
commit, and its lock steps come before. A query outside the transaction
(`getAvailableBalance`, a notification) needs a second connection. The pool
hands out connections one at a time and has a size, which app.module.ts does not
set. `Fails` is an error of any query or the death of the server. The amounts
of deposits (deposit.service.ts:27), transfers and withdrawals are positive;
those of dummy top-ups are any integers (`TopUps`), as neither wallet.controller
nor wallet.service checks them. The cents of `numeric` columns are exact. Other
balances (`locked`, `earned`) are in `SecondaryMarket` and `Distribution`.

**Account** is the promise, in thirty lines and without calls, locks or
connections: money is received (a top-up may take), spent and transferred; a
withdrawal takes its amount aside at once, and is then decided once, which pays
it or gives it back.
`Finance` implements it under the mapping that reads the committed rows
(`ImplementsAccount`): every commit is a step of the account, everything else a
stutter.

**Properties.** `ImplementsAccount`. `TypeInv`: no debit takes a balance below
zero, however requests race: it is negative by no more than negative top-ups
took. `MoneyIsExplained`: what is pending is the
sum of the undecided withdrawals (`PendingIsUndecided`), and the balance plus
what was paid out is what the ledger says, less the credits that found no row,
of which there are none for whoever has had a row from the start
(`LedgerExplains`). `CallsEnd`: every request ends, or the
pool is exhausted for good.

**Run** `finance_money`: three users, one of them without a row, two
withdrawals, three requests, two connections, an error or crash anywhere;
187 k states. A top-up takes 30, more than anyone has. Three requests are a
decision racing another decision and a third party, on fewer connections than
there are requests; one amount is enough as the withdrawals' order does not
depend on it, and both a sufficient and an insufficient balance occur. Fairness:
a query that can run does, as PostgreSQL serves its lock queues and the pool its
waiters in order; no request has to come.

**What does not hold.** `CallsEnd` without its first disjunct: `request` asks for
the balance on a second connection ("Use transactional check",
withdrawal.service.ts:35) while its transaction keeps the first, so with all
connections in such transactions nobody goes on. The balance it gets is not
read under a lock, and is harmless only because debitAvailable looks again.
`LedgerExplains` without `unplaced`: creditAvailable updates no row if
the user has none (wallet.service.ts:127), and the ledger entries, and the debit
of a transfer, are committed all the same. `NeverNegative`: a dummy top-up of a
negative amount takes what is not there, without the check of debitAvailable
(wallet.controller.ts:34, wallet.service.ts:48; `MCFinance_negative.cfg`).

**Proofs** (`FinanceProofs.tla`). `FinanceImplementsAccount`: `Spec =>
ImplementsAccount`, for any users, amounts, requests and pool. The invariant
`IInv` says what a request in the middle of a transaction may rely on: whoever
is past its check of a balance holds the row's lock and the money is still
there (`Covered`); whoever is past its check of a withdrawal is the only one
deciding it, and it is still PENDING; two requests share no lock (`Apart`). One
lemma per action shows that it keeps `IInv` and maps to a step of the account
or to a stutter. `FinanceMoney`: `Spec => []MoneyIsExplained`. Its invariant
(`MInv`) states both sums for every user and status, and that a user without a
row has no withdrawal; each commit changes one withdrawal, so both sums change
by its amount (`SumChange`). `FinanceTypes`: `Spec => []TypeInv`, for top-ups of
any integers: a debit has seen, under the lock it keeps, that the money is there,
so only a top-up can add to what is missing; that no more transactions run than
the pool has connections is counted in it.
Only `CallsEnd` is model-checked alone.

## 8. Assets, prices and governance: `AssetGovernance.tla`

Any set of assets, the pods of contracts deployed for them (token, treasury,
governance), the requests about them, and the indexer's handlers of their
events.

**State.** `asset` are the committed rows (status, pod, price); `tokenized` are
the assets with an `asset_tokens` row; `proposal` are the governance_proposals
rows. `chain` are the contracts: whom each pod was deployed for, which
treasuries the registry knows, the price bands, the proposals made and executed,
the contracts paused. `call` says where each request is, with the row it has
read; `mutex` and `locks` who holds the services' mutexes and the rows;
`inbox` the events to come; `healing` the row the indexer has read and will
save. `homes` (the pods each row has ever named) and `missed` (the proposals
whose event was lost) are observations.

| Code | Actions |
|---|---|
| createAsset | `CreateAsset` |
| AssetService.approve, deployAssetContract | `Approve`, `DeployAssetContract` (up to the receipt), `LinkToken`, `SaveAsset`, `ChainFails` |
| freeze, reject, updateAssetStatus | `SetStatus`, `SaveAsset` |
| tokenizeAsset | `RequestTokenization`, `EnterTokenization` (its mutex), `DeployAssetContract`, `LinkToken`, `WhitelistVault`, `CommitToken`, `MarkPending` |
| updateAssetPrice | `RequestPrice`, `EnterPricing` (its mutex), `UpdatePrice` (the row's lock) |
| syncAssetPriceToOracle | `SyncAssetPriceToOracle` (the read), `EnterOracle`, `UpdatePriceBand`, `RecordSync` |
| proposeAction, executeProposal, triggerLiquidation | `Govern`; `CreateProposal`, `RecordProposal`; `ExecuteProposal`, `RecordExecution`; `TriggerLiquidation`, `RecordLiquidation`, `LiquidateAsset` |
| AssetHandler, GovernanceHandler | `FindPodAsset`, `HealPodAsset`; `HandleProposalCreated` |
| an error in either, which is swallowed (indexer.router.ts:320) | `HandlerFails` |
| others' proposals, restarts (external) | `ProposeElsewhere`, `Crash` |

**Abstractions and assumptions.** The three addresses a deployment returns are
one pod, and the titles by which a pod finds its row are distinct. Prices are
in cents. A `save` writes the columns that differ from the row read earlier,
which is why each request keeps that row. A request about an asset that does
not exist answers with an error and is left out, like errors of notifications
and the audit log, which are saved after what the model is about. A row of a
proposal carries who made it, for two rows of one proposal are two rows.
handleProposalExecuted is not modelled: no branch of the router calls it.

**Properties.** `VaultsWhitelisted`: a tokenized asset has had a pod of its own
whose treasury the registry knows. `BandIsThePrice`: an oracle band is around
the price of an asset that has had the token. `StatusFollowsChain`: no
proposal's row runs ahead of the contract. `ProposalsRecorded`: no proposal is
lost, unless no row matched its event, its handler failed or a restart skipped
it: these three, and no request that dies before it has saved. `CallsEnd`:
every request ends and every event is handled, unless a price update is stuck.

**Runs.**

| Run | Shows | Bounds |
|---|---|---|
| `assets` | all of these and `TypeInv`, under fairness | three assets, two approved, one with a pod; 2 pods, 1 proposal each, 2 requests, 1 restart; 333 k states |
| `price` | the finding | 2 assets, 1 request, no restart |

Two requests are every pair that can race, on the same asset or on two; the
third asset is created during the run, the second pod goes to whoever asks
first; one proposal is enough as they do not interact. Fairness: what can run
does, as the mutexes and row locks serve their queues in order; no handler has
to fail.

**Findings.** `PriceUpdatesEnd` is violated by every price update of an asset
with a token (`price`): the transaction has locked the row
(admin.service.ts:996) when it awaits a sync that records its outcome in the
same row on another connection (oracle.service.ts:68). From then on the asset's
row, the oracle and price updates are locked until a restart. `CallsEnd` allows
for that, and holds otherwise.

`FallbackTakesNoPod` (`MCAssetGovernance_fallback.cfg`): the comment at
asset.handler.ts:31 says "Pick the oldest APPROVED asset that doesn't have a
token address yet", but a `null` in a `where` is a condition the query builder
leaves out, so the handler may give an asset that has a pod the addresses of
another one.

What the model also shows, without a sentence in the repository against it:
two approvals of one asset that overlap deploy two pods, and the second save
replaces the first one's addresses; a save of an older row takes addresses back
or writes over LIQUIDATED; a sync sets APPROVED whatever the status was,
REJECTED, frozen or LIQUIDATED; a pod whose request ends before the save has no
row until its event finds one; when the request and the handler both store a
proposal it has two rows; and when a price update is stuck the handler that
waits for its row stops the indexer. `approve` passes the token supply to the
contracts as it is and `tokenizeAsset` multiplies it by 10^18; no property is
about amounts of tokens.

**Proofs** (`AssetGovernanceProofs.tla`).

| Theorem | Statement |
|---|---|
| `TypeCorrect` | `Spec => []TypeInv` |
| `TokenizedAreWhitelisted` | `Spec => []VaultsWhitelisted` |
| `BandsArePrices` | `Spec => []BandIsThePrice` |
| `StatusIsBacked` | `Spec => []StatusFollowsChain` |
| `ProposalsKept` | `Spec => []ProposalsRecorded` |

None is inductive: a request acts on a row it read and on what it did on the
chain many steps ago. `Base` says what it may still rely on. The row it read
has the price its asset still has and names a pod the asset has had (`Known`);
what it deployed is its asset's, what it whitelisted, executed or paused is so
on the chain (`CallOK`); mutexes and locks belong to requests that run
(`Owners`). `Kept` says what no step takes back (pods' owners, whitelistings,
executions, history), and with it what one request knows survives the steps of
the others (`CallKept`). One lemma per action shows `Base' /\ Kept`
(`BaseStep`); each theorem then follows from the few actions that write what it
is about (`Writers`, `Hears`). That the price of an existing asset is never
written (the updates that would are stuck) is part of what `BandsArePrices`
rests on. `CallsEnd` is liveness and model-checked.

## 9. Identity and wallet recovery: `Identity.tla`

One user: its row, its KYC, its wallets at Privy, the registry's entries of all
wallets it may have, its tokens, and any number of requests about them.

**State.** `user` is the users row (wallet, whether from Privy, verified,
active); `kyc` its profile's status; `recovery` its recovery requests;
`container` its wallets at Privy; `registry`, `balance` the contracts; `events`
the registry's events to be handled; `call` what each request and the indexer
are doing, with the entity they will save. `registered` (the wallets ever
registered), `received` (those a recovery has moved units to) and `calm` (no two
calls have overlapped so far, no event was lost, the user has not replaced its
wallet by itself) are observations.

| Code | Actions |
|---|---|
| approveKyc, rejectKyc | `Decide`, `DecideRegister`, `SaveSelect`, `SaveWrite` / `SaveFails` |
| handleKycAction | `Handle`, `HandleKyc`, `SaveSelect`, `HandleWrite`, `HandleRegister`, `HandleCommit` |
| reviewKyc, submitKyc | `Review`, `ReviewSave`; `SubmitKyc`, `SubmitKycSave` |
| toggleAccountFreeze, togglePartnerFreeze | `Freeze`, `FreezeToggle`, `SaveSelect`, `SaveWrite` / `SaveFails` |
| updatePartnerStatus | `UpdatePartnerStatus`, `PartnerRegister` |
| syncWalletAddress, syncPrivyWallet, provisionMobileWallet | `SyncWalletAddress`, `SyncPrivyWallet`; `ProvisionMobileWallet`, `ProvisionPick`, `PrivyFails`; the saves as above |
| saves of passwords, reset codes, device ids | `SaveProfile`, the saves as above |
| createRequest, submitVerification | `CreateRequest`; `SubmitVerification`, `VerificationSave` |
| approveAndExecute | `ApproveAndExecute`, `GenerateEmbeddedWallet`, `EnsureWalletWhitelisted`, `SweepRead`, `ExecuteWalletRecovery`, `SweepFails`, `Relink`, `RecoveryComplete`; its catch: `RecoveryFailed`, `RecoveryReject` |
| IdentityHandler | `HandleIdentityUpdated`, the saves as above |

`save` is two steps, as TypeORM does it: a SELECT that finds the columns in
which the entity differs, and an UPDATE of these. So a call that only changes a
password writes the user's old wallet back, if it was replaced after the call
had read the row and before its SELECT.

**Abstractions and assumptions.** A transaction that is sent is mined and
answered, mined and not answered, or not mined. The recovery manager moves
units only if they are there. A wallet is a text, and `Address` gives the text
in which the chain, Privy and `ethers.getAddress` write the same wallet; several
texts may be one wallet. Every call of the chain takes the address
(`NormalizeAddress`); the column keeps what each writer puts there, the text its
client sent in `syncWalletAddress` (user.service.ts:259), the address elsewhere;
the unique index and the handler of events compare texts. The user signs nothing
by itself, so tokens move by recovery only. Frozen wallets are in the registry;
the code keeps no such column, and the freeze event changes nothing. Guards only
read. KYC documents and messages are left out. Registration is the initial state,
of an account that holds tokens or one that has nothing yet.

**Properties.** `HoldersWereRegistered`: tokens are only ever in wallets that
have been registered. `NothingLeftBehind`: a recovery of all tokens is
COMPLETED only when the old wallet is empty, unless a recovery has moved units
into it (`received`).
`CalmAgrees`: as long as calls do not overlap, failures, retries and crashes
leave no token where the database does not look (`HoldingsAreKnown`), and row
and registry agree about the user's first wallet once the events are handled
(`RegistryAgrees`). That wallet was stored by the server, as the chain writes
it; of a wallet stored in another spelling `RegistryAgrees` says nothing, see
below.

**Run** `identity_user`: two requests about the user, two approvals of two
recoveries, two tokens of a unit each, six texts for five wallets (the first,
one of another account, one the user names in two spellings, two that Privy
makes), two events under way at most, failures and crashes anywhere; 2.0 M
states in two minutes, with interchangeable calls, requests, tokens and fresh
wallets (`Symmetry`). Two calls of each kind are
every race there is on one row; `CalmAgrees` is about one call after the other,
and needs no more. `NothingLeftBehind` quantifies over all the calls and
tokens, so it is symmetric too.

**What does not hold.** Each of the first three is stated in `Identity.tla` and
has an instance that shows a behaviour in which it fails.

- `SavesKeepOthers` (`MCIdentity_unmet.cfg`): a save of a row read earlier
  overwrites the wallet, the verification or the activity that another call has
  just written, though all it meant to save is a freeze or a new password
  (admin.service.ts:213). No property that is checked excludes this; `CalmAgrees`
  is about calls that do not overlap.
- `EventsFindTheirUser` (`MCIdentity_unmet.cfg`): the handler looks for the
  row by the address of the event (identity.handler.ts:23) and does not find a
  user whose wallet was linked in another spelling. The event is dropped, and
  the row keeps a verification the registry has taken back, or lacks one it gave.
- `WalletHasOneAccount` (`MCIdentity_linkedtwice.cfg`): syncWalletAddress refuses
  a wallet linked to another account (user.service.ts:253) and so does the unique
  index, but both compare texts: in another spelling one wallet is linked to two
  accounts.

The rest was seen with `calm` dropped from `CalmAgrees`: two approvals of one
recovery without a wallet each have Privy generate one; provisionMobileWallet
gives a user that was recovered to a wallet outside Privy the first wallet of
Privy back, which it has left; a recovery registers the new wallet of a user that
was rejected; a submission that was checked before an approval makes the APPROVED
profile PENDING again (kyc.service.ts:65, "Approved KYC cannot be modified").

**Proofs** (`IdentityProofs.tla`), for any finite set of wallets, any `Address`
(what Privy makes has one spelling, what users name any number), and any tokens,
requests and recoveries.

| Theorem | Statement |
|---|---|
| `TokensStayRegistered` | `Spec => []HoldersWereRegistered` |
| `IdentityTypes` | `Spec => []TypeInv` |
| `NothingStaysBehind` | `Spec => NothingLeftBehind` |
| `CalmCallsAgree` | `Spec => []CalmAgrees` |

For the first the invariant adds the shape of the calls and that a recovery past
`EnsureWalletWhitelisted` moves tokens to a registered wallet (`Cleared`), which
stays true because `registered` only grows and a request's wallet is kept by
the call that moves the tokens. `TypeInv` says, besides shapes, that no unit is
made or lost (`UnitsKept`, a sum per token in which two wallets change, by
`SumMoved`), that no wallet of another account becomes the user's, and that a
request under execution has a wallet to move to (`TargetsKnown`); `CallsSay`
adds what each call's entity and place say about each other.

`NothingLeftBehind` is an action property. Its invariant (`SweepOk`) is what a
sweep knows at each of its steps: a token it has read and is not about to move
is gone from the old wallet, and the one at hand has no more there than it
read. This survives the other calls because a wallet that never received units
only loses them (`TokensFall`): two sweeps of one wallet take from each other
and never add.

`CalmAgrees` says nothing about how the moments it is about are reached, and
calls read rows long before they write them. Its invariant is `CalmInv`
(`Identity.tla`, checked on the instance of `identity_user` before it was
proved), five parts that need each other:

- `OneTruthfulCall`: in a calm moment at most one call runs, and what it read it
  would read again (`Truthful`: its row, the wallet of a link, the request, the
  event of the wallet it handles);
- `NewsIsTrue`: the newest unhandled event of the first wallet says what the
  registry does, calm or not;
- `TokensFromHome`: only a user that had its first wallet has tokens, and no
  wallet made later is that one;
- `HoldingsAsked`: tokens are in the first wallet or in the new wallet of a
  request, and some request names the first wallet as the old one;
- `HomeKept`: until a request is taken up (`Settled`) the user keeps its first
  wallet, and the row agrees with the registry unless an event is pending.

The proof follows the calls: one lemma for each kind (`ClerkSteps`,
`SaveGoesOn`, `OperatorGoesOn`, `IndexerGoesOn`) shows that the call stays
truthful, together `OneCallStep`; `HoldingsStep`, `HomeStep`, `NewsStep` and
`TokensStay` keep the other parts, and `CalmStep` puts them together.

## 10. The polling loop: `Indexer.tla`

What the handlers of the other modules are given, and when.

**State.** `height` and `emitter` are the chain: its latest block and who
emitted each log, named by block and index; `tracked` are the contracts the
loop knows, from its configuration or an assets row; `recorded` are the
`chain_event_logs` rows, which are also the cursor; `poll` is the poll's place
and the logs it has still to look at. `routed`, `unseen`, `cut` and `failures`
are observations.

| Code | Actions |
|---|---|
| startListening | `StartPoll`, `PollEnds` (its catch, and restarts) |
| pollNewBlocks | `StartPoll` (cursor, window, addresses, logs), `SkipLog` (already processed), `RecordLog` |
| routeEvent, whose errors are caught | `RouteEvent` |
| chain and assets (external) | `Mine`, `NameContract` |

The cursor is modelled as it is: `blockNumber` is a varchar, so the last row is
that of the greatest block as text (`TextLess`), and 9 comes after 12. A poll
that finds no log changes nothing and is left out; one that asks for no block
ends at once. The chain does not reorganise: the code has no handling of it.

**Properties.** `HandledOnceButForFailures`: no row without its handler's run,
and no second run but after an error or a restart, although the cursor goes
back. `NothingSkippedSilently`: the loop is past a log without a row only if
the contract was not tracked when its range was asked for, or a poll ended
within the block. `RecordedInTime`: a log of a tracked contract within the next
window is recorded in the end, with the same exceptions.

**Run** `polls`: blocks 7 to 12 (so that the number of digits changes), two
contracts of which one is tracked later, three logs, two to a block, windows of
two blocks, one error or restart. Three logs are one before, one in and one
after what a failure cuts. Fairness: the loop goes on, as it is a timer that is
set again.

**What does not hold.** `CatchesUp` (`MCIndexer_catchup.cfg`): "If there are
still blocks left to catch up, log progress or loop immediately"
(indexer.service.ts:165), but the cursor moves with recorded logs only. A window
(of 2000 blocks) without a log is asked for again for ever, and nothing after
it is seen. And once the number of digits of the block number grows, the same
range before it is scanned for ever, because its last block is the greatest as
text. Logs that a contract emitted before an assets row named it are not asked
for, and the rest of a block whose first log was recorded is lost to a restart.

**Proofs** (`IndexerProofs.tla`), for any chain of less than 10^9 blocks (nine
digits), any window and any number of failures.

| Theorem | Statement |
|---|---|
| `HandledOnce` | `Spec => []HandledOnceButForFailures` |
| `IndexerTypes` | `Spec => []TypeInv` |
| `NothingIsSkipped` | if there is a start block (`StartBlock # 0`), `Spec => []NothingSkippedSilently` |

For the first the
invariant counts: a log without a row was routed at most once per failure, one
with a row (or about to get it) once more at most, and at least once.

For the types the order of the logs is proved to be one, so that every finite
set of logs has a list in that order (`OrderExists`) and `InOrder` chooses one.
For `NothingIsSkipped` the order of block numbers as text is proved to be
total, so that the query for the last row finds one (`TextOrder`, `LastRow`).
The proof needs no more of it, so the property does not depend on which row is
taken for the last: `RowsBehind` says that up to the block of *any* row each log
was recorded, is a known miss, or waits in the poll, in the very block of that
row; `QueueBehind`, that the poll at work has no gaps up to any log it holds.
A wrong order makes the loop go back, never ahead. Without START_BLOCK the
first poll begins a few blocks ago, and what is older is not asked for, hence
the condition. `RecordedInTime` is liveness and model-checked.

## 11. Not modelled

* The matching engine: a loop over arrays in memory that no service calls.
* The cron module: no module imports it.
* createListing, createTrade, syncOnChainTrade, debitLocked, refund,
  handleProposalExecuted and the marketplace event handlers: nothing calls
  them, or they always fail, or they change nothing; `PROJECT.json` says which.
* Registration, login, tokens and profile edits: inserts and one-row updates.
* Notifications (but for their second connection), broadcasts, analytics,
  dashboards and reports: messages and reads.
* Documents, storage and the audit log: files, and rows that are only appended.
* The contracts, the RPC node, Privy, Bull, PostgreSQL and TypeORM: external,
  and modelled from how the code uses them, each where it matters.
