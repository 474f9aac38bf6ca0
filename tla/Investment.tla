------------------------------ MODULE Investment ------------------------------
(***************************************************************************)
(* The primary market: an investor buys shares of one tokenised asset.     *)
(*                                                                         *)
(* The rows of the "investments" table are created by two API calls (the   *)
(* off-chain createInvestment, the on-chain createInvestmentIntent), bound *)
(* to a blockchain transaction by submitOnChainTransaction, settled by the *)
(* jobs of the Bull queue "investment-queue" or by the HTTP call itself,   *)
(* and confirmed a third way by the indexer when it sees TokensReleased.   *)
(* All of these run concurrently.  A step of the model is a PostgreSQL     *)
(* transaction, or the piece of a handler between two awaits after which   *)
(* it acts on what it has read.                                            *)
(***************************************************************************)
EXTENDS Integers, FiniteSets, Functions

CONSTANTS
  Investments,      \* the ids the investments table may hand out
  NoInvestment,     \* the null of a job or a transaction without investment
  Investors,        \* investor profiles, each with its user and wallet
  Keys,             \* dto.transactionId values: the Bull job ids of creations
  AdminJobs,        \* Bull job ids drawn by the admin's confirm calls
  Owner,            \* Owner[i]: the investor who creates i
  Amount,           \* Amount[i]: dto.amount
  Units,            \* Units[i]: round(amount / sharePrice, 4 decimals)
  Key,              \* Key[i]: dto.transactionId sent with the creation of i
  Modes,            \* the settlement modes clients use
  SharePrice,       \* AssetToken.sharePrice
  TotalShares,      \* AssetToken.availableShares before the first investment
  Funds,            \* Funds[v]: the available balance v starts with
  PartnerHasWallet, \* whether the asset partner has a wallets row
  Scale,            \* 10 ^ AssetToken.decimals
  FundedMax,        \* largest value of the numeric(15, 2) column Asset.funded
  Confirmations,    \* BLOCKCHAIN_CONFIRMATIONS
  JobAttempts,      \* attempts of a process-investment job (3)
  VerifyAttempts,   \* attempts of a verify-onchain-investment job (30)
  StallLimit,       \* Bull's maxStalledCount (1)
  WorkerSlots,      \* jobs the queue runs at once (one per @Process: 2)
  TxLimit,          \* bound: blockchain transactions in a behaviour
  FaultLimit        \* bound: crashes and database errors in a behaviour

Hashes == 1 .. TxLimit
NoHash == 0
JobIds == Keys \cup AdminJobs
Verifiers == Investments \X {"http", "queue"}

ASSUME InvestmentAssumption ==
  /\ IsFiniteSet(Investments) /\ IsFiniteSet(Investors)
  /\ NoInvestment \notin Investments
  /\ Owner \in [Investments -> Investors]
  /\ Amount \in [Investments -> Nat \ {0}]
  /\ Units \in [Investments -> Nat \ {0}]
  /\ Key \in [Investments -> Keys]
  /\ Modes \subseteq {"OFF_CHAIN", "ON_CHAIN"}
  /\ {SharePrice, Scale, Confirmations, JobAttempts, VerifyAttempts} \subseteq Nat \ {0}
  /\ {TotalShares, FundedMax, StallLimit, WorkerSlots, TxLimit, FaultLimit} \subseteq Nat
  /\ Funds \in [Investors -> Nat]
  /\ PartnerHasWallet \in BOOLEAN

VARIABLES
  \* The database.
  status,        \* Investment.status; "NONE" before the row exists
  mode,          \* Investment.settlementMode, with its expected* snapshot
  txHash,        \* Investment.txHash, unique among the rows that have one
  open,          \* the creation holding an uncommitted row and the token lock
  avail,         \* AssetToken.availableShares
  owned,         \* Ownership.shares of each investor; a row exists iff > 0
  funded,        \* Asset.funded
  investorCount, \* Asset.investors
  balance,       \* Wallet.availableBalance of each investor
  partnerFunds,  \* Wallet.availableBalance of the partner's wallet
  healed,        \* the releases for which the indexer made a row of its own
  checkpoint,    \* the releases that chain_event_logs puts behind the indexer
  \* The queue, the HTTP handlers, the indexer and the chain.
  job,           \* the process-investment jobs
  verifier,      \* where each verifyOnChainInvestment call stands
  tries,         \* attempts made by the verify-onchain-investment job of i
  idx,           \* the event the indexer is handling
  chain,         \* the transactions on the blockchain
  txCount,       \* how many there are
  faults,        \* crashes and database errors so far
  \* Observations, read by no action.
  returned,      \* times the reservation of i was given back
  paid,          \* times the investor of i was debited
  creditUnits,   \* units credited to the owner when i became CONFIRMED
  taken          \* shares the indexer took out of availableShares

rowVars == <<status, mode, txHash>>
assetVars == <<avail, owned, funded, investorCount>>
moneyVars == <<balance, partnerFunds>>
chainVars == <<chain, txCount>>
indexVars == <<idx, healed, checkpoint>>
verifyVars == <<verifier, tries>>
ghostVars == <<returned, paid, creditUnits, taken>>
vars == <<rowVars, open, assetVars, moneyVars, chainVars, indexVars, job,
          verifyVars, faults, ghostVars>>

-----------------------------------------------------------------------------
(* Types *)

Status == {"NONE", "PENDING", "PROCESSING", "CONFIRMED", "FAILED"}
Snapshot == [funded: Nat, investors: Nat]
NoSnapshot == [funded |-> 0, investors |-> 0]

Tx == [kind: {"none", "deposit", "release"},
       inv: Investments \cup {NoInvestment},
       result: {"unmined", "ok", "reverted", "mismatch"},
       conf: 0 .. Confirmations]
NoTx == [kind |-> "none", inv |-> NoInvestment, result |-> "unmined", conf |-> 0]

\* waiting -> checked -> sent -> locked is the processor's happy path,
\* failing its catch block.
Running == {"checked", "sent", "locked", "failing"}
Job == [st: {"none", "waiting"} \cup Running,
        inv: Investments \cup {NoInvestment},
        tries: 0 .. JobAttempts - 1,
        stalls: 0 .. StallLimit,
        hash: Hashes \cup {NoHash},
        snap: Snapshot]
NoJob == [st |-> "none", inv |-> NoInvestment, tries |-> 0, stalls |-> 0,
          hash |-> NoHash, snap |-> NoSnapshot]

Idx == [pc: {"idle", "mutating", "handled"},
        hash: Hashes \cup {NoHash},
        snap: Snapshot]
IdxIdle == [pc |-> "idle", hash |-> NoHash, snap |-> NoSnapshot]

RowsTyped ==
  /\ status \in [Investments -> Status]
  /\ mode \in [Investments -> {"OFF_CHAIN", "ON_CHAIN"}]
  /\ txHash \in [Investments -> Hashes \cup {NoHash}]
  /\ open \subseteq Investments

AssetTyped ==
  /\ avail \in Nat
  /\ owned \in [Investors -> Nat]
  /\ funded \in Nat
  /\ investorCount \in Nat
  /\ balance \in [Investors -> Nat]
  /\ partnerFunds \in Nat

JobsTyped(jobs) ==
  /\ jobs \in [JobIds -> Job]
  /\ \A k \in JobIds : jobs[k].st # "none" => jobs[k].inv \in Investments

VerifiersTyped ==
  /\ verifier \in [Verifiers -> {"idle", "bound", "read", "fail", "finalize", "dead"}]
  /\ tries \in [Investments -> 0 .. VerifyAttempts]

IndexTyped ==
  /\ healed \subseteq Hashes
  /\ checkpoint \subseteq Hashes
  /\ idx \in Idx

ChainTyped ==
  /\ chain \in [Hashes -> Tx]
  /\ txCount \in 0 .. TxLimit
  /\ faults \in 0 .. FaultLimit
  /\ \A h \in Hashes : chain[h].kind # "none" => h <= txCount /\ chain[h].inv \in Investments

GhostsTyped ==
  /\ returned \in [Investments -> Nat]
  /\ paid \in [Investments -> Nat]
  /\ creditUnits \in [Investments -> Nat]
  /\ taken \in Nat

TypeOK == RowsTyped /\ AssetTyped /\ JobsTyped(job) /\ VerifiersTyped /\ IndexTyped
          /\ ChainTyped /\ GhostsTyped

-----------------------------------------------------------------------------
(* Locks, constraints and shared effects *)

\* SELECT ... FOR UPDATE on the investments row: only finalizeTokenization
\* keeps it across an await that others can overtake.
RowFree(i) == \A k \in JobIds : job[k].st = "locked" => job[k].inv # i

\* SELECT ... FOR UPDATE on the asset_tokens row.
TokenFree == open = {}

\* The partial unique index on investments.txHash refuses h for row i.
HashTaken(i, h) ==
  \/ h \in healed
  \/ \E j \in Investments \ {i} : txHash[j] = h

Settled(i) == status[i] \in {"CONFIRMED", "FAILED"}

\* Asset.funded is numeric(15, 2): PostgreSQL refuses a wider value.
Storable(amount) == amount <= FundedMax

Fault == faults < FaultLimit /\ faults' = faults + 1

\* Mistake: a failed row is failed once more.
ReturnableTwice(i) == status[i] \notin {"NONE", "CONFIRMED"}
\* Mistake: a confirmed row is failed by a late error.
ReturnableConfirmed(i) == status[i] \notin {"NONE", "FAILED"}
\* Mistake: a row that was submitted (PROCESSING) is left alone.
ReturnablePending(i) == status[i] = "PENDING"

\* handleInvestmentFailure gives the reservation back unless the row is
\* missing or settled.
Returnable(i) == status[i] \in {"PENDING", "PROCESSING"}

HandleInvestmentFailure(i) ==
  /\ RowFree(i)
  /\ Returnable(i) => TokenFree
  /\ status' = [status EXCEPT ![i] = IF Returnable(i) THEN "FAILED" ELSE @]
  /\ avail' = avail + IF Returnable(i) THEN Units[i] ELSE 0
  /\ returned' = [returned EXCEPT ![i] = @ + IF Returnable(i) THEN 1 ELSE 0]
  /\ UNCHANGED <<mode, txHash, owned, funded, investorCount, paid, creditUnits, taken>>

\* Ownership.addShares under the asset's row lock, and the ghost of it.
AddShares(i, n) ==
  /\ owned' = [owned EXCEPT ![Owner[i]] = @ + n]
  /\ creditUnits' = [creditUnits EXCEPT ![i] = n]

NewInvestors(v) == IF owned[v] = 0 THEN 1 ELSE 0

-----------------------------------------------------------------------------
(* The queue of process-investment jobs *)

\* Bull drops an add whose jobId it still holds, waiting or running.
QueueAdd(k, i) ==
  IF job[k].st = "none"
  THEN [job EXCEPT ![k] = [NoJob EXCEPT !.st = "waiting", !.inv = i]]
  ELSE job

\* removeOnComplete
JobDone(k) == [job EXCEPT ![k] = NoJob]

\* A failed job waits for its next attempt, or is gone: removeOnFail.
JobFailed(k) ==
  [job EXCEPT ![k] =
    IF job[k].tries + 1 < JobAttempts
    THEN [NoJob EXCEPT !.st = "waiting", !.inv = job[k].inv,
                       !.tries = job[k].tries + 1, !.stalls = job[k].stalls]
    ELSE NoJob]

\* A stalled job is moved back to wait until it has stalled too often.
JobStalled(k) ==
  [job EXCEPT ![k] =
    IF job[k].stalls < StallLimit
    THEN [NoJob EXCEPT !.st = "waiting", !.inv = job[k].inv,
                       !.tries = job[k].tries, !.stalls = job[k].stalls + 1]
    ELSE NoJob]

FreeSlot == Cardinality({k \in JobIds : job[k].st \in Running}) < WorkerSlots

-----------------------------------------------------------------------------
(* Creating investments *)

\* gen_random_uuid(): the id of a creation that was rolled back is not handed
\* out again, though a job may still carry it.
Fresh(i) == status[i] = "NONE" /\ \A k \in JobIds : job[k].inv # i

\* createInvestment up to investmentQueue.add: the shares are reserved in a
\* transaction that is still open when the job becomes visible to workers.
\* The balance is only read; nothing is set aside.
CreateInvestmentOpen(i) ==
  /\ "OFF_CHAIN" \in Modes
  /\ Fresh(i)
  /\ balance[Owner[i]] >= Amount[i]
  /\ TokenFree
  /\ Units[i] <= avail
  /\ open' = {i}
  /\ job' = QueueAdd(Key[i], i)
  /\ UNCHANGED <<rowVars, assetVars, moneyVars, chainVars, indexVars,
                 verifyVars, faults, ghostVars>>

CreateInvestmentCommit(i) ==
  /\ i \in open
  /\ open' = {}
  /\ status' = [status EXCEPT ![i] = "PENDING"]
  /\ mode' = [mode EXCEPT ![i] = "OFF_CHAIN"]
  /\ avail' = avail - Units[i]
  /\ UNCHANGED <<txHash, owned, funded, investorCount, moneyVars, chainVars,
                 indexVars, job, verifyVars, faults, ghostVars>>

\* The transaction fails after the job was added, or the server dies.
CreateInvestmentRollback(i) ==
  /\ i \in open
  /\ Fault
  /\ open' = {}
  /\ UNCHANGED <<rowVars, assetVars, moneyVars, chainVars, indexVars, job,
                 verifyVars, ghostVars>>

CreateInvestmentIntent(i) ==
  /\ "ON_CHAIN" \in Modes
  /\ Fresh(i)
  /\ TokenFree
  /\ Units[i] <= avail
  /\ status' = [status EXCEPT ![i] = "PENDING"]
  /\ mode' = [mode EXCEPT ![i] = "ON_CHAIN"]
  /\ avail' = avail - Units[i]
  /\ UNCHANGED <<txHash, open, owned, funded, investorCount, moneyVars, chainVars,
                 indexVars, job, verifyVars, faults, ghostVars>>

\* The admin's "confirm" re-queues any off-chain row that is not CONFIRMED,
\* under a job id of its own.
ConfirmInvestment(k, i) ==
  /\ job[k].st = "none"
  /\ status[i] \notin {"NONE", "CONFIRMED"}
  /\ mode[i] = "OFF_CHAIN"
  /\ job' = QueueAdd(k, i)
  /\ UNCHANGED <<rowVars, open, assetVars, moneyVars, chainVars, indexVars,
                 verifyVars, faults, ghostVars>>

-----------------------------------------------------------------------------
(* The process-investment worker *)

\* handleInvestment up to its idempotency check, an unlocked read.
JobStart(k) ==
  LET i == job[k].inv IN
  /\ job[k].st = "waiting"
  /\ FreeSlot
  /\ job' = IF Settled(i) THEN JobDone(k)
            ELSE [job EXCEPT ![k].st = IF status[i] = "NONE" THEN "failing" ELSE "checked"]
  /\ UNCHANGED <<rowVars, open, assetVars, moneyVars, chainVars, indexVars,
                 verifyVars, faults, ghostVars>>

\* TreasuryVault.releaseTokens is mined: irreversible from here on.
Release(i) ==
  /\ txCount < TxLimit
  /\ txCount' = txCount + 1
  /\ chain' = [chain EXCEPT ![txCount + 1] =
                 [kind |-> "release", inv |-> i, result |-> "ok", conf |-> Confirmations]]

ExecuteBlockchainTransfer(k) ==
  /\ job[k].st = "checked"
  /\ Release(job[k].inv)
  /\ job' = [job EXCEPT ![k].st = "sent", ![k].hash = txCount + 1]
  /\ UNCHANGED <<rowVars, open, assetVars, moneyVars, indexVars, verifyVars,
                 faults, ghostVars>>

\* The release is mined but tx.wait() fails.
TransferReplyLost(k) ==
  /\ job[k].st = "checked"
  /\ Release(job[k].inv)
  /\ Fault
  /\ job' = [job EXCEPT ![k].st = "failing"]
  /\ UNCHANGED <<rowVars, open, assetVars, moneyVars, indexVars, verifyVars, ghostVars>>

\* No wallet, a paused token, an empty vault or a reverted release.
TransferRefused(k) ==
  /\ job[k].st = "checked"
  /\ job' = [job EXCEPT ![k].st = "failing"]
  /\ UNCHANGED <<rowVars, open, assetVars, moneyVars, chainVars, indexVars,
                 verifyVars, faults, ghostVars>>

\* Mistake: a retried job finalizes a confirmed row again.
AlreadyFinalNever(i) == status[i] = "NONE"

\* finalizeTokenization locks the row and reads the asset, without a lock,
\* before it waits for the investor's wallet row.  FAILED is not refused.
AlreadyFinal(i) == status[i] \in {"NONE", "CONFIRMED"}

FinalizeTokenizationLock(k) ==
  LET i == job[k].inv IN
  /\ job[k].st = "sent"
  /\ RowFree(i)
  /\ job' = IF AlreadyFinal(i) THEN JobDone(k)
            ELSE [job EXCEPT ![k].st = "locked",
                             ![k].snap = [funded |-> funded, investors |-> investorCount]]
  /\ UNCHANGED <<rowVars, open, assetVars, moneyVars, chainVars, indexVars,
                 verifyVars, faults, ghostVars>>

\* Mistake: the debit trusts the balance read when the investment was created.
TransferUnchecked(i) ==
  /\ balance' = [balance EXCEPT ![Owner[i]] = @ - Amount[i]]
  /\ partnerFunds' = partnerFunds + IF PartnerHasWallet THEN Amount[i] ELSE 0
  /\ paid' = [paid EXCEPT ![i] = @ + 1]

\* walletService.transfer: the debit is checked under the wallet's lock, the
\* credit is a bare UPDATE that matches nothing when there is no wallet.
Transfer(i) ==
  /\ balance[Owner[i]] >= Amount[i]
  /\ balance' = [balance EXCEPT ![Owner[i]] = @ - Amount[i]]
  /\ partnerFunds' = partnerFunds + IF PartnerHasWallet THEN Amount[i] ELSE 0
  /\ paid' = [paid EXCEPT ![i] = @ + 1]

\* The rest of finalizeTokenization.  The asset is written back from the
\* snapshot.  The notifications after the commit may throw into the catch
\* block of the processor.
FinalizeTokenizationCommit(k) ==
  LET i == job[k].inv IN
  /\ job[k].st = "locked"
  /\ ~HashTaken(i, job[k].hash) /\ Storable(job[k].snap.funded + Amount[i])
  /\ Transfer(i)
  /\ funded' = job[k].snap.funded + Amount[i]
  /\ investorCount' = job[k].snap.investors + NewInvestors(Owner[i])
  /\ AddShares(i, Units[i])
  /\ status' = [status EXCEPT ![i] = "CONFIRMED"]
  /\ txHash' = [txHash EXCEPT ![i] = job[k].hash]
  /\ \/ job' = JobDone(k)
     \/ job' = [job EXCEPT ![k].st = "failing"]
  /\ UNCHANGED <<mode, open, avail, chainVars, indexVars, verifyVars, faults,
                 returned, taken>>

\* The wallet, the unique index or the width of Asset.funded refuses: the
\* transaction rolls back.
FinalizeTokenizationRollback(k) ==
  LET i == job[k].inv IN
  /\ job[k].st = "locked"
  /\ \/ balance[Owner[i]] < Amount[i]
     \/ HashTaken(i, job[k].hash)
     \/ ~Storable(job[k].snap.funded + Amount[i])
  /\ job' = [job EXCEPT ![k].st = "failing"]
  /\ UNCHANGED <<rowVars, open, assetVars, moneyVars, chainVars, indexVars,
                 verifyVars, faults, ghostVars>>

\* Mistake: the catch block leaves the row to the retry.
HandleFailureSkipped(k) ==
  /\ job[k].st = "failing"
  /\ job' = JobFailed(k)
  /\ UNCHANGED <<rowVars, open, assetVars, moneyVars, chainVars, indexVars,
                 verifyVars, faults, ghostVars>>

\* The catch block of handleInvestment, then Bull's retry.
HandleFailure(k) ==
  /\ job[k].st = "failing"
  /\ HandleInvestmentFailure(job[k].inv)
  /\ job' = JobFailed(k)
  /\ UNCHANGED <<open, moneyVars, chainVars, indexVars, verifyVars, faults>>

\* handleInvestmentFailure itself throws; the processor logs it.
HandleFailureThrows(k) ==
  /\ job[k].st = "failing"
  /\ Fault
  /\ job' = JobFailed(k)
  /\ UNCHANGED <<rowVars, open, assetVars, moneyVars, chainVars, indexVars,
                 verifyVars, ghostVars>>

\* The worker dies; PostgreSQL drops its locks, Bull finds the job stalled.
WorkerCrash(k) ==
  /\ job[k].st \in Running
  /\ Fault
  /\ job' = JobStalled(k)
  /\ UNCHANGED <<rowVars, open, assetVars, moneyVars, chainVars, indexVars,
                 verifyVars, ghostVars>>

-----------------------------------------------------------------------------
(* The blockchain, as the code observes it *)

\* The investor's wallet signs and broadcasts the payload of the intent.
SignDeposit(i) ==
  /\ status[i] # "NONE"
  /\ mode[i] = "ON_CHAIN"
  /\ txCount < TxLimit
  /\ txCount' = txCount + 1
  /\ chain' = [chain EXCEPT ![txCount + 1] =
                 [kind |-> "deposit", inv |-> i, result |-> "unmined", conf |-> 0]]
  /\ UNCHANGED <<rowVars, open, assetVars, moneyVars, indexVars, job,
                 verifyVars, faults, ghostVars>>

\* "mismatch": mined, but its logs are not the transfers of the intent.
Mine(h, result) ==
  /\ chain[h].kind = "deposit"
  /\ chain[h].conf = 0
  /\ chain' = [chain EXCEPT ![h].result = result, ![h].conf = 1]
  /\ UNCHANGED <<rowVars, open, assetVars, moneyVars, txCount, indexVars, job,
                 verifyVars, faults, ghostVars>>

NewBlock(h) ==
  /\ chain[h].kind = "deposit"
  /\ chain[h].conf \in 1 .. Confirmations - 1
  /\ chain' = [chain EXCEPT ![h].conf = @ + 1]
  /\ UNCHANGED <<rowVars, open, assetVars, moneyVars, txCount, indexVars, job,
                 verifyVars, faults, ghostVars>>

-----------------------------------------------------------------------------
(* Submitting and verifying an on-chain transaction *)

\* Mistake: the calldata is not compared, only the sender.
SameSender(i, h) ==
  /\ chain[h].kind = "deposit"
  /\ Owner[chain[h].inv] = Owner[i]

\* Sender, destination, calldata and value are those of the intent.  Two
\* intents of one investor for one amount have the same calldata.
SameIntent(i, h) ==
  /\ chain[h].kind = "deposit"
  /\ Owner[chain[h].inv] = Owner[i]
  /\ Amount[chain[h].inv] = Amount[i]

Confirmed(h) == chain[h].conf >= Confirmations

\* Mistake: a settled row takes another submission.
BindableAlways(i, h) ==
  /\ status[i] # "NONE"
  /\ txHash[i] \in {NoHash, h}
  /\ ~HashTaken(i, h)

\* submitOnChainTransaction up to its commit.  The settlement mode is not
\* looked at.  A client submits a deposit its own wallet has signed.
Bindable(i, h) ==
  /\ status[i] # "NONE"
  /\ ~Settled(i)
  /\ txHash[i] \in {NoHash, h}
  /\ ~HashTaken(i, h)

SubmitOnChainTransaction(i, h) ==
  /\ verifier[<<i, "http">>] = "idle"
  /\ chain[h].kind = "deposit"
  /\ Owner[chain[h].inv] = Owner[i]
  /\ Bindable(i, h)
  /\ RowFree(i)
  /\ txHash' = [txHash EXCEPT ![i] = h]
  /\ status' = [status EXCEPT ![i] = "PROCESSING"]
  /\ verifier' = [verifier EXCEPT ![<<i, "http">>] = "bound"]
  /\ UNCHANGED <<mode, open, assetVars, moneyVars, chainVars, indexVars, job,
                 tries, faults, ghostVars>>

\* The verification job is queued under the id of i and its hash, unless the
\* queue holds it; the controller goes on to verify by itself.
SubmitEnqueue(i) ==
  /\ verifier[<<i, "http">>] = "bound"
  /\ verifier' = [verifier EXCEPT
       ![<<i, "http">>] = "read",
       ![<<i, "queue">>] = IF @ = "idle" THEN "read" ELSE @]
  /\ UNCHANGED <<rowVars, open, assetVars, moneyVars, chainVars, indexVars, job,
                 tries, faults, ghostVars>>

\* A verification that returns completes its job, whatever it returned.
VerifyReturns(w) ==
  /\ verifier' = [verifier EXCEPT ![w] = "idle"]
  /\ tries' = IF w[2] = "http" THEN tries ELSE [tries EXCEPT ![w[1]] = 0]

\* One that throws is retried by the queue after five seconds.
VerifyThrows(w) ==
  IF w[2] = "http" THEN VerifyReturns(w)
  ELSE /\ tries' = [tries EXCEPT ![w[1]] = @ + 1]
       /\ verifier' = [verifier EXCEPT
            ![w] = IF tries[w[1]] + 1 < VerifyAttempts THEN "read" ELSE "dead"]

\* The receipt: not mined, reverted, too recent, wrong logs, or good.
ReceiptOutcome(h) ==
  CASE chain[h].result = "unmined" -> "throw"
    [] chain[h].result = "reverted" -> "fail"
    [] chain[h].result \in {"ok", "mismatch"} /\ ~Confirmed(h) -> "return"
    [] chain[h].result = "mismatch" /\ Confirmed(h) -> "fail"
    [] chain[h].result = "ok" /\ Confirmed(h) -> "finalize"

\* Mistake: the settlement mode of the row is not looked at.
VerifyOutcomeAnyMode(i, propagated) ==
  LET h == txHash[i] IN
  IF Settled(i) THEN "return"
  ELSE IF ~propagated THEN "throw"
  ELSE IF ~SameIntent(i, h) THEN "fail"
  ELSE ReceiptOutcome(h)

\* verifyOnChainInvestment up to the transaction that settles the row: one
\* unlocked read of the row, then the RPC node.  An off-chain row has no
\* snapshot of the intent.
VerifyOutcome(i, propagated) ==
  LET h == txHash[i] IN
  IF Settled(i) THEN "return"
  ELSE IF mode[i] = "OFF_CHAIN" THEN "fail"
  ELSE IF ~propagated THEN "throw"
  ELSE IF ~SameIntent(i, h) THEN "fail"
  ELSE ReceiptOutcome(h)

VerifyRead(w, propagated) ==
  LET outcome == VerifyOutcome(w[1], propagated) IN
  /\ verifier[w] = "read"
  /\ propagated \/ chain[txHash[w[1]]].conf = 0
  /\ \/ outcome = "return" /\ VerifyReturns(w)
     \/ outcome = "throw" /\ VerifyThrows(w)
     \/ outcome \in {"fail", "finalize"} /\ verifier' = [verifier EXCEPT ![w] = outcome]
                                         /\ UNCHANGED tries
  /\ UNCHANGED <<rowVars, open, assetVars, moneyVars, chainVars, indexVars, job,
                 faults, ghostVars>>

FailVerification(w) ==
  /\ verifier[w] = "fail"
  /\ HandleInvestmentFailure(w[1])
  /\ VerifyReturns(w)
  /\ UNCHANGED <<open, moneyVars, chainVars, indexVars, job, faults>>

\* Mistake: the row is not checked again under its lock.
FinalizeVerifiedStale(w) ==
  LET i == w[1] IN
  /\ verifier[w] = "finalize"
  /\ RowFree(i)
  /\ funded' = funded + Amount[i]
  /\ investorCount' = investorCount + NewInvestors(Owner[i])
  /\ AddShares(i, Units[i])
  /\ status' = [status EXCEPT ![i] = "CONFIRMED"]
  /\ VerifyReturns(w)
  /\ UNCHANGED <<mode, txHash, open, avail, moneyVars, chainVars, indexVars, job,
                 faults, returned, paid, taken>>

\* finalizeVerifiedInvestment, which locks the asset before it reads it, then
\* the notifications, which may throw.
FinalizeVerified(w) ==
  LET i == w[1] IN
  /\ verifier[w] = "finalize"
  /\ RowFree(i)
  /\ ~Settled(i) /\ Storable(funded + Amount[i])
  /\ funded' = funded + Amount[i]
  /\ investorCount' = investorCount + NewInvestors(Owner[i])
  /\ AddShares(i, Units[i])
  /\ status' = [status EXCEPT ![i] = "CONFIRMED"]
  /\ VerifyReturns(w) \/ VerifyThrows(w)
  /\ UNCHANGED <<mode, txHash, open, avail, moneyVars, chainVars, indexVars, job,
                 faults, returned, paid, taken>>

FinalizeVerifiedRefused(w) ==
  LET i == w[1] IN
  /\ verifier[w] = "finalize"
  /\ RowFree(i)
  /\ \/ status[i] = "CONFIRMED" /\ VerifyReturns(w)
     \/ status[i] = "FAILED" /\ VerifyThrows(w)
     \/ ~Settled(i) /\ ~Storable(funded + Amount[i]) /\ VerifyThrows(w)
  /\ UNCHANGED <<rowVars, open, assetVars, moneyVars, chainVars, indexVars, job,
                 faults, ghostVars>>

\* The HTTP server or the worker dies, or the RPC node is unreachable.
VerifierCrash(w) ==
  /\ verifier[w] \in {"bound", "read", "fail", "finalize"}
  /\ Fault
  /\ \/ VerifyThrows(w)
     \/ /\ w[2] = "queue"
        /\ verifier' = [verifier EXCEPT ![w] = "read"]
        /\ UNCHANGED tries
  /\ UNCHANGED <<rowVars, open, assetVars, moneyVars, chainVars, indexVars, job,
                 ghostVars>>

-----------------------------------------------------------------------------
(* The indexer: InvestmentHandler.handleEvent for TokensReleased *)

RawUnits(h) == Units[chain[h].inv] * Scale
Recipient(h) == Owner[chain[h].inv]
Cost(h) == RawUnits(h) * SharePrice

HasRow(h) == h \in healed \/ \E i \in Investments : txHash[i] = h

IsRelease(h) == h \in Hashes /\ chain[h].kind = "release"

\* Releases are taken in chain order.
NextRelease(h) ==
  /\ IsRelease(h) /\ h \notin checkpoint
  /\ \A g \in 1 .. h - 1 : IsRelease(g) => g \in checkpoint

\* A row that has the hash already is set to CONFIRMED and nothing else is
\* touched.
IndexKnown(h) ==
  /\ idx.pc = "idle"
  /\ NextRelease(h)
  /\ HasRow(h)
  /\ \A i \in Investments : txHash[i] = h => RowFree(i)
  /\ status' = [i \in Investments |-> IF txHash[i] = h THEN "CONFIRMED" ELSE status[i]]
  /\ idx' = [IdxIdle EXCEPT !.pc = "handled", !.hash = h]
  /\ UNCHANGED <<mode, txHash, open, assetVars, moneyVars, chainVars, healed,
                 checkpoint, job, verifyVars, faults, ghostVars>>

\* Otherwise the asset is read, without a lock.
IndexRead(h) ==
  /\ idx.pc = "idle"
  /\ NextRelease(h)
  /\ ~HasRow(h)
  /\ idx' = [pc |-> "mutating", hash |-> h,
             snap |-> [funded |-> funded, investors |-> investorCount]]
  /\ UNCHANGED <<rowVars, open, assetVars, moneyVars, chainVars, healed,
                 checkpoint, job, verifyVars, faults, ghostVars>>

\* The recipient's PENDING intent on this vault.
PendingIntents(h) ==
  {i \in Investments : /\ Owner[i] = Recipient(h)
                       /\ mode[i] = "ON_CHAIN"
                       /\ status[i] = "PENDING"}

\* The raw uint256 amount is taken for a number of shares.
ProcessAssetMutation(h) ==
  LET left == IF avail > RawUnits(h) THEN avail - RawUnits(h) ELSE 0 IN
  /\ TokenFree
  /\ avail' = left
  /\ taken' = taken + (avail - left)
  /\ funded' = idx.snap.funded + Cost(h)
  /\ investorCount' = idx.snap.investors + NewInvestors(Recipient(h))
  /\ owned' = [owned EXCEPT ![Recipient(h)] = @ + RawUnits(h)]

IndexConfirmIntent(i) ==
  LET h == idx.hash IN
  /\ idx.pc = "mutating"
  /\ i \in PendingIntents(h)
  /\ RowFree(i)
  /\ ~HasRow(h) /\ Storable(idx.snap.funded + Cost(h))
  /\ txHash' = [txHash EXCEPT ![i] = h]
  /\ status' = [status EXCEPT ![i] = "CONFIRMED"]
  /\ ProcessAssetMutation(h)
  /\ creditUnits' = [creditUnits EXCEPT ![i] = RawUnits(h)]
  /\ idx' = [idx EXCEPT !.pc = "handled"]
  /\ UNCHANGED <<mode, open, moneyVars, chainVars, healed, checkpoint, job,
                 verifyVars, faults, returned, paid>>

IndexSelfHeal ==
  LET h == idx.hash IN
  /\ idx.pc = "mutating"
  /\ PendingIntents(h) = {}
  /\ ~HasRow(h) /\ Storable(idx.snap.funded + Cost(h))
  /\ ProcessAssetMutation(h)
  /\ healed' = healed \cup {h}
  /\ idx' = [idx EXCEPT !.pc = "handled"]
  /\ UNCHANGED <<rowVars, open, moneyVars, chainVars, checkpoint, job,
                 verifyVars, faults, returned, paid, creditUnits>>

\* The unique index or the width of Asset.funded refuses, or the database
\* does: the transaction rolls back and routeEvent swallows the error.
IndexSwallow ==
  LET h == idx.hash IN
  /\ idx.pc = "mutating"
  /\ \/ (HasRow(h) \/ ~Storable(idx.snap.funded + Cost(h))) /\ UNCHANGED faults
     \/ Fault
  /\ idx' = [idx EXCEPT !.pc = "handled"]
  /\ UNCHANGED <<rowVars, open, assetVars, moneyVars, chainVars, healed,
                 checkpoint, job, verifyVars, ghostVars>>

IndexCheckpoint ==
  /\ idx.pc = "handled"
  /\ checkpoint' = checkpoint \cup {idx.hash}
  /\ idx' = IdxIdle
  /\ UNCHANGED <<rowVars, open, assetVars, moneyVars, chainVars, healed, job,
                 verifyVars, faults, ghostVars>>

\* The server dies.  Polling resumes in the block after the last recorded log:
\* the next release is lost when another log of its block was recorded.
IndexCrash ==
  /\ Fault
  /\ \/ idx.pc # "idle" /\ UNCHANGED checkpoint
     \/ \E h \in Hashes : NextRelease(h) /\ checkpoint' = checkpoint \cup {h}
  /\ idx' = IdxIdle
  /\ UNCHANGED <<rowVars, open, assetVars, moneyVars, chainVars, healed, job,
                 verifyVars, ghostVars>>

-----------------------------------------------------------------------------
(* Specification *)

Init ==
  /\ status = [i \in Investments |-> "NONE"]
  /\ mode = [i \in Investments |-> "OFF_CHAIN"]
  /\ txHash = [i \in Investments |-> NoHash]
  /\ open = {}
  /\ avail = TotalShares
  /\ owned = [v \in Investors |-> 0]
  /\ funded = 0
  /\ investorCount = 0
  /\ balance = Funds
  /\ partnerFunds = 0
  /\ healed = {}
  /\ checkpoint = {}
  /\ job = [k \in JobIds |-> NoJob]
  /\ verifier = [w \in Verifiers |-> "idle"]
  /\ tries = [i \in Investments |-> 0]
  /\ idx = IdxIdle
  /\ chain = [h \in Hashes |-> NoTx]
  /\ txCount = 0
  /\ faults = 0
  /\ returned = [i \in Investments |-> 0]
  /\ paid = [i \in Investments |-> 0]
  /\ creditUnits = [i \in Investments |-> 0]
  /\ taken = 0

CreationEnds(i) == CreateInvestmentCommit(i) \/ CreateInvestmentRollback(i)

ClientStep(i) ==
  \/ CreateInvestmentOpen(i)
  \/ CreateInvestmentIntent(i)
  \/ SignDeposit(i)
  \/ \E h \in Hashes : SubmitOnChainTransaction(i, h)
  \/ \E k \in AdminJobs : ConfirmInvestment(k, i)

WorkerStep(k) ==
  \/ JobStart(k)
  \/ ExecuteBlockchainTransfer(k)
  \/ TransferRefused(k)
  \/ FinalizeTokenizationLock(k)
  \/ FinalizeTokenizationCommit(k)
  \/ FinalizeTokenizationRollback(k)
  \/ HandleFailure(k)

WorkerFault(k) == TransferReplyLost(k) \/ HandleFailureThrows(k) \/ WorkerCrash(k)

VerifierStep(w) ==
  \/ w[2] = "http" /\ SubmitEnqueue(w[1])
  \/ \E propagated \in BOOLEAN : VerifyRead(w, propagated)
  \/ FailVerification(w)
  \/ FinalizeVerified(w)
  \/ FinalizeVerifiedRefused(w)

IndexerStep ==
  \/ \E h \in Hashes : IndexKnown(h) \/ IndexRead(h)
  \/ \E i \in Investments : IndexConfirmIntent(i)
  \/ IndexSelfHeal
  \/ IndexSwallow
  \/ IndexCheckpoint

ChainStep ==
  \E h \in Hashes :
    \/ \E result \in {"ok", "reverted", "mismatch"} : Mine(h, result)
    \/ NewBlock(h)

Next ==
  \/ \E i \in Investments : ClientStep(i) \/ CreationEnds(i)
  \/ \E k \in JobIds : WorkerStep(k) \/ WorkerFault(k)
  \/ \E w \in Verifiers : VerifierStep(w) \/ VerifierCrash(w)
  \/ IndexerStep
  \/ IndexCrash
  \/ ChainStep

Spec == Init /\ [][Next]_vars

\* Bull's wait list and PostgreSQL's lock queues are first come, first served:
\* strong fairness for the workers and the verifiers.  A transaction that was
\* opened ends, the indexer polls, and a broadcast deposit is mined, well, and
\* buried.  Clients and admins owe nothing.
ChainProgress ==
  \E h \in Hashes : Mine(h, "ok") \/ NewBlock(h)

Fairness ==
  /\ \A i \in Investments : WF_vars(CreationEnds(i))
  /\ \A k \in JobIds : SF_vars(WorkerStep(k))
  /\ \A w \in Verifiers : SF_vars(VerifierStep(w))
  /\ WF_vars(IndexerStep)
  /\ WF_vars(ChainProgress)

FairSpec == Spec /\ Fairness

-----------------------------------------------------------------------------
(* Properties *)

\* A confirmed investment is never failed, re-opened or re-bound, although
\* workers, verifiers and failure handlers act on stale reads of it
\* (submitOnChainTransaction, handleInvestmentFailure, finalizeTokenization).
ConfirmedIsFinal ==
  [][\A i \in Investments :
       status[i] = "CONFIRMED" => status'[i] = "CONFIRMED" /\ txHash'[i] = txHash[i]]_vars

\* "It should release reserved shares/funds exactly once": however many jobs
\* and verifications of one investment fail, its reservation comes back once,
\* and a failed investment's reservation has come back (handleInvestmentFailure).
ReturnedAtMostOnce ==
  \A i \in Investments :
    /\ returned[i] <= 1
    /\ status[i] = "FAILED" => returned[i] = 1

\* An off-chain investor is debited once if the investment is confirmed and
\* not at all otherwise; an on-chain one is never debited (finalizeTokenization
\* under retries, re-queued confirmations and notifications that throw).
PaidIffConfirmed ==
  \A i \in Investments :
    paid[i] = IF mode[i] = "OFF_CHAIN" /\ status[i] = "CONFIRMED" THEN 1 ELSE 0

\* What v paid for the off-chain investments that were confirmed.
SettledOffChain(i) == mode[i] = "OFF_CHAIN" /\ status[i] = "CONFIRMED"
Spent(v) ==
  SumFunction([i \in Investments |-> IF Owner[i] = v /\ SettledOffChain(i) THEN Amount[i] ELSE 0])

\* The wallets tell the same story: an investor is poorer, and the partner
\* richer, by the confirmed off-chain investments and nothing else, provided
\* the partner has a wallet to be credited (walletService.transfer).
MoneyMatchesConfirmations ==
  /\ \A v \in Investors : balance[v] + Spent(v) = Funds[v]
  /\ PartnerHasWallet => partnerFunds = SumFunction([v \in Investors |-> Spent(v)])

\* The three ways to CONFIRMED (worker, verifier, indexer) each allocate
\* shares, and no allocation survives without the confirmation.
CreditedIffConfirmed ==
  \A i \in Investments : creditUnits[i] > 0 <=> status[i] = "CONFIRMED"

\* The shares v was allocated for its own rows, and for those the indexer made.
CreditedTo(v) ==
  SumFunction([i \in Investments |-> IF Owner[i] = v THEN creditUnits[i] ELSE 0])
HealedTo(v) ==
  SumFunction([h \in Hashes |-> IF h \in healed /\ Recipient(h) = v THEN RawUnits(h) ELSE 0])

\* Ownership holds what was credited for each confirmed investment and each
\* row made by the indexer, once: redelivered events, double jobs and racing
\* verifications allocate nothing twice.
OwnershipMatchesCredits == \A v \in Investors : owned[v] = CreditedTo(v) + HealedTo(v)

\* The shares set aside for i.
Reserved(i) == IF status[i] # "NONE" /\ returned[i] = 0 THEN Units[i] ELSE 0

\* No share leaves availableShares or comes back to it unaccounted: the rest
\* is reserved by investments not given back, or was taken by the indexer.
SharesAccounted ==
  avail + taken + SumFunction([i \in Investments |-> Reserved(i)]) = TotalShares

\* An on-chain investment is confirmed by a successful deposit of its owner
\* for its amount, buried deep enough, or by a release to its owner that the
\* indexer saw (verifyOnChainInvestment, InvestmentHandler).
OnChainConfirmationHasEvidence ==
  \A i \in Investments : mode[i] = "ON_CHAIN" /\ status[i] = "CONFIRMED" =>
    LET tx == chain[txHash[i]] IN
    /\ txHash[i] # NoHash
    /\ tx.inv \in Investments
    /\ Owner[tx.inv] = Owner[i]
    /\ \/ tx.kind = "release"
       \/ /\ tx.kind = "deposit"
          /\ Amount[tx.inv] = Amount[i]
          /\ tx.result = "ok"
          /\ tx.conf >= Confirmations

\* An off-chain investment is confirmed only with the hash of a release of
\* tokens made for it (executeBlockchainTransfer before finalizeTokenization).
OffChainConfirmationHasRelease ==
  \A i \in Investments : mode[i] = "OFF_CHAIN" /\ status[i] = "CONFIRMED" =>
    /\ txHash[i] \in Hashes
    /\ chain[txHash[i]].kind = "release"
    /\ chain[txHash[i]].inv = i

\* What each confirmed row, and each row the indexer made, brought in; and who
\* holds shares.
Price(i) ==
  IF mode[i] = "ON_CHAIN" /\ IsRelease(txHash[i]) THEN Cost(txHash[i]) ELSE Amount[i]
Brought(i) == IF status[i] = "CONFIRMED" THEN Price(i) ELSE 0
Charged(h) == IF h \in healed THEN Cost(h) ELSE 0
Earned ==
  SumFunction([i \in Investments |-> Brought(i)]) + SumFunction([h \in Hashes |-> Charged(h)])
Holders == {v \in Investors : owned[v] > 0}

\* Write-backs of stale asset rows may lose funding and investors but never
\* invent them (finalizeTokenization, handleEvent).
FundingNeverOverstated == funded <= Earned /\ investorCount <= Cardinality(Holders)

\* An investment ends once: what it reserved comes back if it fails, what it
\* costs is taken and its shares are allocated if it is confirmed, whichever
\* of worker, verifier, indexer and failure handler gets to the row first.
OneOutcome == ReturnedAtMostOnce /\ PaidIffConfirmed /\ CreditedIffConfirmed

\* No investment is confirmed on the strength of another one's transaction,
\* of one that failed, or of none (verifyOnChainInvestment, process).
ConfirmationIsBacked == OnChainConfirmationHasEvidence /\ OffChainConfirmationHasRelease

\* The totals kept beside the investments, of an investor and of the asset,
\* are what the investments add up to (addShares, finalizeTokenization,
\* handleInvestmentFailure, InvestmentHandler).
TotalsAgree == OwnershipMatchesCredits /\ SharesAccounted /\ FundingNeverOverstated

\* Once tokens were released for a job's investment, the job settles it.
ReleasedIsSettled ==
  \A k \in JobIds : \A i \in Investments :
    (job[k].st = "sent" /\ job[k].inv = i) ~> Settled(i)

\* Every release on the chain is recorded by the indexer, errors included.
ReleasesAreRecorded ==
  \A h \in Hashes : IsRelease(h) ~> h \in checkpoint

\* A verifier's verdict on a deposit is carried out, whoever holds the locks:
\* the investment it was reached for settles.
VerdictIsCarriedOut ==
  \A w \in Verifiers : verifier[w] \in {"fail", "finalize"} ~> Settled(w[1])

-----------------------------------------------------------------------------
(* Why they hold: what the locks, jobs and verdicts of a moment promise *)

\* The token lock has one holder, and nobody takes its shares meanwhile.
CreationInv ==
  /\ \A i, j \in open : i = j
  /\ \A i \in open : Units[i] <= avail

\* A verification the queue still runs has attempts left.
TriesLive ==
  \A i \in Investments : verifier[<<i, "queue">>] # "dead" => tries[i] < VerifyAttempts

\* Shares, balances, hashes and attempts stay in range whatever interleaves:
\* in particular neither a reservation (createInvestment) nor a debit
\* (walletService.transfer) takes more than there is.
TypeInv == TypeOK /\ CreationInv /\ TriesLive

\* What an open creation inserts is not visible.
OpenInv == \A i \in open : status[i] = "NONE"

\* Jobs are for off-chain rows; one of them at a time holds the lock of a row
\* that is still to be settled, with a release made for it.
JobInv ==
  /\ \A k \in JobIds :
       /\ job[k].st # "none" => status[job[k].inv] = "NONE" \/ mode[job[k].inv] = "OFF_CHAIN"
       /\ job[k].st \in {"checked", "sent", "locked"} => status[job[k].inv] # "NONE"
       /\ job[k].st = "locked" => status[job[k].inv] # "CONFIRMED"
       /\ job[k].st \in {"sent", "locked"} =>
            /\ job[k].hash \in Hashes
            /\ chain[job[k].hash].kind = "release"
            /\ chain[job[k].hash].inv = job[k].inv
  /\ \A k, l \in JobIds :
       job[k].st = "locked" /\ job[l].st = "locked" /\ job[k].inv = job[l].inv => k = l

\* A row without a transaction has none; one that is not confirmed is bound
\* to a deposit at most; an intent is bound when it leaves PENDING.
HashInv ==
  \A i \in Investments :
    /\ txHash[i] # NoHash => chain[txHash[i]].kind # "none"
    /\ txHash[i] # NoHash /\ status[i] # "CONFIRMED" => chain[txHash[i]].kind = "deposit"
    /\ status[i] = "NONE" \/ (mode[i] = "ON_CHAIN" /\ status[i] = "PENDING")
         => txHash[i] = NoHash

\* A positive verdict is about the deposit the on-chain row is bound to.
VerdictInv ==
  \A w \in Verifiers :
    /\ verifier[w] \in {"bound", "read", "fail", "finalize"} => txHash[w[1]] # NoHash
    /\ verifier[w] = "finalize" =>
         /\ mode[w[1]] = "ON_CHAIN"
         /\ SameIntent(w[1], txHash[w[1]])
         /\ chain[txHash[w[1]]].result = "ok"
         /\ Confirmed(txHash[w[1]])

\* The indexer works on a release.
IndexInv == idx.pc # "idle" => IsRelease(idx.hash)

\* What workers, verifiers and the indexer rely on between their steps: with
\* TypeInv it is inductive.
SettlementInv == OpenInv /\ JobInv /\ HashInv /\ VerdictInv /\ IndexInv

\* A reservation comes back when the row fails and never before.
ReservationInv ==
  \A i \in Investments :
    /\ returned[i] <= 1
    /\ status[i] = "FAILED" => returned[i] = 1
    /\ status[i] \in {"NONE", "PENDING", "PROCESSING"} => returned[i] = 0

\* The asset's totals, and the copies of them that a worker or the indexer will
\* write back, were true when they were read, and what they are bounded by only
\* grows.
Modest(total) == total.funded <= Earned /\ total.investors <= Cardinality(Holders)

FundingInv ==
  /\ Modest([funded |-> funded, investors |-> investorCount])
  /\ \A k \in JobIds : job[k].st = "locked" => Modest(job[k].snap)
  /\ idx.pc = "mutating" => Modest(idx.snap)

\* The indexer makes rows for releases only.
HealedReleases == \A h \in healed : chain[h].kind = "release"

-----------------------------------------------------------------------------
(* What comments and messages of the code claim, and the code does not keep *)

\* create-investment.dto.ts: transactionId "is an application-level
\* idempotency/reference ID"; two requests with one id make one investment.
CreationIsIdempotent ==
  \A i, j \in Investments :
    i # j /\ Key[i] = Key[j] => status[i] = "NONE" \/ status[j] = "NONE"

\* investment.service.ts: "Cannot finalize a failed investment."
FailedIsFinal ==
  [][\A i \in Investments : status[i] = "FAILED" => status'[i] = "FAILED"]_vars

\* investment.processor.ts: "Never execute an already completed investment
\* again."
CompletedIsNotExecutedAgain ==
  [][\A k \in JobIds :
       ExecuteBlockchainTransfer(k) => status[job[k].inv] # "CONFIRMED"]_vars

\* finalizeVerifiedInvestment's lock "serializes: funded, investor count,
\* ownership creation", so with off-chain settlements too the asset counts
\* every confirmed investment.
FundingCountsEveryInvestment ==
  funded >= SumFunction([i \in Investments |-> IF status[i] = "CONFIRMED" THEN Amount[i] ELSE 0])

\* createInvestment's message: the request "is queued for processing".
QueuedIsProcessed ==
  \A i \in Investments : (status[i] = "PENDING" /\ mode[i] = "OFF_CHAIN") ~> Settled(i)

\* verifyOnChainInvestment's message: "Transaction mined but waiting for
\* required blockchain confirmations."
MinedDepositIsSettled ==
  \A i \in Investments :
    (status[i] = "PROCESSING" /\ chain[txHash[i]].result = "ok") ~> Settled(i)

\* investment.handler.ts: "Self-Healing Path: No API intent found, execute
\* mutations": a release without a row gets one.
ReleaseGetsARow ==
  \A h \in Hashes : IsRelease(h) ~> HasRow(h)
=============================================================================
