--------------------------- MODULE InvestmentProofs ---------------------------
(***************************************************************************)
(* What TLAPS proves of Investment for every value of its constants.       *)
(***************************************************************************)
EXTENDS Investment, SumTheorems, TLAPS

LEMMA ConstantTypes ==
  /\ IsFiniteSet(Investments) /\ IsFiniteSet(Investors)
  /\ NoInvestment \notin Investments
  /\ \A i \in Investments :
       /\ Owner[i] \in Investors
       /\ Amount[i] \in Nat /\ Amount[i] > 0
       /\ Units[i] \in Nat /\ Units[i] > 0
       /\ Key[i] \in JobIds
  /\ SharePrice \in Nat /\ SharePrice > 0
  /\ Scale \in Nat /\ Scale > 0
  /\ Confirmations \in Nat /\ Confirmations > 0
  /\ JobAttempts \in Nat /\ JobAttempts > 0
  /\ VerifyAttempts \in Nat /\ VerifyAttempts > 0
  /\ TotalShares \in Nat /\ StallLimit \in Nat /\ TxLimit \in Nat /\ FaultLimit \in Nat
  /\ Funds \in [Investors -> Nat]
BY InvestmentAssumption DEF JobIds

-----------------------------------------------------------------------------
(* The queue's bookkeeping *)

LEMMA NoJobType == NoJob \in Job
BY ConstantTypes DEF NoJob, Job, NoSnapshot, Snapshot, NoHash, Hashes, Running

LEMMA JobFields ==
  ASSUME NEW j \in Job
  PROVE  /\ j = [st |-> j.st, inv |-> j.inv, tries |-> j.tries, stalls |-> j.stalls,
                 hash |-> j.hash, snap |-> j.snap]
         /\ j.st \in {"none", "waiting"} \cup Running
         /\ j.inv \in Investments \cup {NoInvestment}
         /\ j.tries \in 0 .. JobAttempts - 1
         /\ j.stalls \in 0 .. StallLimit
         /\ j.hash \in Hashes \cup {NoHash}
         /\ j.snap \in Snapshot
BY DEF Job

LEMMA QueueAddType ==
  ASSUME JobsTyped(job), NEW k \in JobIds, NEW i \in Investments
  PROVE  JobsTyped(QueueAdd(k, i))
<1> DEFINE j == [NoJob EXCEPT !.st = "waiting", !.inv = i]
<1>1. j \in Job /\ j.inv \in Investments /\ j.tries = 0
  BY NoJobType DEF Job, NoJob
<1>2. QueueAdd(k, i) = job \/ QueueAdd(k, i) = [job EXCEPT ![k] = j]
  BY DEF QueueAdd
<1> HIDE DEF j
<1> QED BY <1>1, <1>2, ConstantTypes DEF JobsTyped

LEMMA JobDoneType ==
  ASSUME JobsTyped(job), NEW k \in JobIds
  PROVE  JobsTyped(JobDone(k))
<1>1. NoJob \in Job /\ NoJob.st = "none"
  BY NoJobType DEF NoJob
<1> QED BY <1>1, ConstantTypes DEF JobDone, JobsTyped

LEMMA JobFailedType ==
  ASSUME JobsTyped(job), NEW k \in JobIds, job[k].st # "none"
  PROVE  JobsTyped(JobFailed(k))
<1>1. /\ job[k] \in Job /\ job[k].inv \in Investments
      /\ job[k].tries \in 0 .. JobAttempts - 1
      /\ job[k].stalls \in 0 .. StallLimit
  BY JobFields DEF JobsTyped
<1>2. CASE job[k].tries + 1 < JobAttempts
  <2> DEFINE j == [NoJob EXCEPT !.st = "waiting", !.inv = job[k].inv,
                                !.tries = job[k].tries + 1, !.stalls = job[k].stalls]
  <2>1. job[k].tries + 1 \in 0 .. JobAttempts - 1
    BY <1>1, <1>2, ConstantTypes
  <2>2. j \in Job /\ j.inv \in Investments
    BY <1>1, <2>1, NoJobType DEF Job, NoJob
  <2>3. JobFailed(k) = [job EXCEPT ![k] = j]
    BY <1>2 DEF JobFailed
  <2> HIDE DEF j
  <2> QED BY <2>2, <2>3 DEF JobsTyped
<1>3. CASE ~(job[k].tries + 1 < JobAttempts)
  BY <1>3, JobDoneType DEF JobFailed, JobDone
<1> QED BY <1>2, <1>3

LEMMA JobStalledType ==
  ASSUME JobsTyped(job), NEW k \in JobIds, job[k].st # "none"
  PROVE  JobsTyped(JobStalled(k))
<1>1. /\ job[k] \in Job /\ job[k].inv \in Investments
      /\ job[k].tries \in 0 .. JobAttempts - 1
      /\ job[k].stalls \in 0 .. StallLimit
  BY JobFields DEF JobsTyped
<1>2. CASE job[k].stalls < StallLimit
  <2> DEFINE j == [NoJob EXCEPT !.st = "waiting", !.inv = job[k].inv,
                                !.tries = job[k].tries, !.stalls = job[k].stalls + 1]
  <2>1. job[k].stalls + 1 \in 0 .. StallLimit
    BY <1>1, <1>2, ConstantTypes
  <2>2. j \in Job /\ j.inv \in Investments
    BY <1>1, <2>1, NoJobType DEF Job, NoJob
  <2>3. JobStalled(k) = [job EXCEPT ![k] = j]
    BY <1>2 DEF JobStalled
  <2> HIDE DEF j
  <2> QED BY <2>2, <2>3 DEF JobsTyped
<1>3. CASE ~(job[k].stalls < StallLimit)
  BY <1>3, JobDoneType DEF JobStalled, JobDone
<1> QED BY <1>2, <1>3

\* A job moves on with its investment.
LEMMA JobMovedType ==
  ASSUME JobsTyped(job), NEW k \in JobIds, job[k].st # "none",
         NEW j \in Job, j.inv = job[k].inv
  PROVE  JobsTyped([job EXCEPT ![k] = j])
<1>1. job[k].inv \in Investments
  BY DEF JobsTyped
<1> QED BY <1>1 DEF JobsTyped

-----------------------------------------------------------------------------
(* The verifiers' bookkeeping *)

LEMMA VerifyReturnsType ==
  ASSUME VerifiersTyped, TriesLive, NEW w \in Verifiers, VerifyReturns(w)
  PROVE  VerifiersTyped' /\ TriesLive'
<1>1. w[1] \in Investments /\ 0 \in 0 .. VerifyAttempts /\ 0 < VerifyAttempts
  BY ConstantTypes DEF Verifiers
<1>2. VerifiersTyped'
  BY <1>1 DEF VerifiersTyped, VerifyReturns
<1>3. TriesLive'
  BY <1>1 DEF VerifiersTyped, TriesLive, VerifyReturns, Verifiers
<1> QED BY <1>2, <1>3

LEMMA VerifyThrowsType ==
  ASSUME VerifiersTyped, TriesLive, NEW w \in Verifiers, VerifyThrows(w), verifier[w] # "dead"
  PROVE  VerifiersTyped' /\ TriesLive'
<1>1. CASE w[2] = "http"
  BY <1>1, VerifyReturnsType DEF VerifyThrows
<1>2. CASE w[2] # "http"
  <2>1. w[1] \in Investments /\ w = <<w[1], "queue">>
    BY <1>2 DEF Verifiers
  <2>2. tries[w[1]] \in 0 .. VerifyAttempts /\ tries[w[1]] < VerifyAttempts
    BY <2>1 DEF VerifiersTyped, TriesLive
  <2>3. tries[w[1]] + 1 \in 0 .. VerifyAttempts
    BY <2>2, ConstantTypes
  <2>4. /\ tries' = [tries EXCEPT ![w[1]] = @ + 1]
        /\ verifier' = [verifier EXCEPT
             ![w] = IF tries[w[1]] + 1 < VerifyAttempts THEN "read" ELSE "dead"]
    BY <1>2 DEF VerifyThrows
  <2>5. VerifiersTyped'
    BY <2>1, <2>3, <2>4 DEF VerifiersTyped
  <2>6. TriesLive'
    BY <2>1, <2>2, <2>4 DEF VerifiersTyped, TriesLive, Verifiers
  <2> QED BY <2>5, <2>6
<1> QED BY <1>1, <1>2

-----------------------------------------------------------------------------
(* The chain's bookkeeping *)

\* A new transaction, or a new fate of an old one.
LEMMA ChainUpdateType ==
  ASSUME ChainTyped, NEW h \in Hashes, NEW tx \in Tx,
         tx.inv \in Investments, chain' = [chain EXCEPT ![h] = tx],
         txCount' \in 0 .. TxLimit, txCount <= txCount', h <= txCount', faults' \in 0 .. FaultLimit
  PROVE  ChainTyped'
<1>1. \A g \in Hashes : g \in Nat
  BY DEF Hashes
<1> QED BY <1>1, ConstantTypes DEF ChainTyped

LEMMA ReleaseType ==
  ASSUME ChainTyped, NEW i \in Investments, Release(i), faults' \in 0 .. FaultLimit
  PROVE  ChainTyped' /\ txCount + 1 \in Hashes
<1> DEFINE tx == [kind |-> "release", inv |-> i, result |-> "ok", conf |-> Confirmations]
<1>1. txCount + 1 \in Hashes /\ txCount' = txCount + 1 /\ txCount' \in 0 .. TxLimit
  BY ConstantTypes DEF ChainTyped, Release, Hashes
<1>2. tx \in Tx /\ tx.inv \in Investments
  BY ConstantTypes DEF Tx
<1>3. chain' = [chain EXCEPT ![txCount + 1] = tx]
  BY DEF Release
<1> HIDE DEF tx
<1>4. txCount <= txCount' /\ txCount + 1 <= txCount'
  BY <1>1, ConstantTypes DEF ChainTyped
<1> QED BY <1>1, <1>2, <1>3, <1>4, ChainUpdateType

LEMMA MinedType ==
  ASSUME ChainTyped, NEW h \in Hashes, chain[h].kind # "none", NEW tx \in Tx,
         tx.inv = chain[h].inv, chain' = [chain EXCEPT ![h] = tx],
         UNCHANGED <<txCount, faults>>
  PROVE  ChainTyped'
<1>1. h \in Nat /\ h <= txCount /\ chain[h].inv \in Investments
  BY ConstantTypes DEF ChainTyped, Hashes
<1> QED BY <1>1, ChainUpdateType, ConstantTypes DEF ChainTyped

\* A release the indexer charges to the asset has a natural cost.
LEMMA CostType ==
  ASSUME ChainTyped, NEW h \in Hashes, chain[h].kind # "none"
  PROVE  /\ Recipient(h) \in Investors
         /\ RawUnits(h) \in Nat /\ RawUnits(h) > 0
         /\ Cost(h) \in Nat
<1>1. chain[h].inv \in Investments
  BY DEF ChainTyped
<1>2. \A m, n \in Nat : m * n \in Nat
  OBVIOUS
<1>3. \A m, n \in Nat : m > 0 /\ n > 0 => m * n > 0
  OBVIOUS
<1>4. RawUnits(h) \in Nat /\ RawUnits(h) > 0
  BY <1>1, <1>2, <1>3, ConstantTypes DEF RawUnits
<1> QED BY <1>1, <1>2, <1>4, ConstantTypes DEF Recipient, Cost

-----------------------------------------------------------------------------
(* Type correctness *)

LEMMA InitTypeInv == Init => TypeInv
<1> SUFFICES ASSUME Init PROVE TypeInv
  OBVIOUS
<1>1. RowsTyped /\ AssetTyped /\ VerifiersTyped /\ GhostsTyped
  BY ConstantTypes DEF Init, RowsTyped, AssetTyped, VerifiersTyped, GhostsTyped, Status,
     Hashes, NoHash
<1>2. JobsTyped(job)
  BY NoJobType DEF Init, JobsTyped, NoJob
<1>3. IndexTyped /\ ChainTyped
  BY ConstantTypes DEF Init, IndexTyped, ChainTyped, Idx, IdxIdle, NoSnapshot, Snapshot,
     Tx, NoTx,
     Hashes, NoHash
<1>4. CreationInv /\ TriesLive
  BY ConstantTypes DEF Init, CreationInv, TriesLive, Verifiers
<1> QED BY <1>1, <1>2, <1>3, <1>4 DEF TypeInv, TypeOK

LEMMA CreateInvestmentOpenTyped ==
  ASSUME TypeInv, NEW i \in Investments, CreateInvestmentOpen(i)
  PROVE  TypeInv'
<1> USE DEF TypeInv, TypeOK
<1>1. AssetTyped' /\ VerifiersTyped' /\ TriesLive' /\ IndexTyped' /\ ChainTyped' /\ GhostsTyped'
  BY DEF AssetTyped, VerifiersTyped, TriesLive, IndexTyped, ChainTyped, GhostsTyped,
     CreateInvestmentOpen, assetVars, moneyVars, verifyVars, indexVars, chainVars, ghostVars
<1>2. RowsTyped'
  BY DEF CreateInvestmentOpen, rowVars, RowsTyped
<1>3. JobsTyped(job)'
  BY QueueAddType, ConstantTypes DEF CreateInvestmentOpen
<1>4. CreationInv'
  BY DEF CreateInvestmentOpen, assetVars, CreationInv
<1> QED BY <1>1, <1>2, <1>3, <1>4

LEMMA CreateInvestmentCommitTyped ==
  ASSUME TypeInv, NEW i \in Investments, CreateInvestmentCommit(i)
  PROVE  TypeInv'
<1> USE DEF TypeInv, TypeOK
<1>1. JobsTyped(job)' /\ VerifiersTyped' /\ TriesLive' /\ IndexTyped' /\ ChainTyped' /\ GhostsTyped'
  BY DEF JobsTyped, VerifiersTyped, TriesLive, IndexTyped, ChainTyped, GhostsTyped,
     CreateInvestmentCommit, verifyVars, indexVars, chainVars, ghostVars
<1>2. RowsTyped'
  BY DEF CreateInvestmentCommit, RowsTyped, Status
<1>3. AssetTyped'
  BY ConstantTypes DEF CreateInvestmentCommit, moneyVars, AssetTyped, CreationInv
<1>4. CreationInv'
  BY DEF CreateInvestmentCommit, CreationInv
<1> QED BY <1>1, <1>2, <1>3, <1>4

LEMMA CreateInvestmentRollbackTyped ==
  ASSUME TypeInv, NEW i \in Investments, CreateInvestmentRollback(i)
  PROVE  TypeInv'
<1> USE DEF TypeInv, TypeOK
<1>1. AssetTyped' /\ JobsTyped(job)' /\ VerifiersTyped' /\ TriesLive' /\ IndexTyped' /\ GhostsTyped'
  BY DEF AssetTyped, JobsTyped, VerifiersTyped, TriesLive, IndexTyped, GhostsTyped,
     CreateInvestmentRollback, assetVars, moneyVars, verifyVars, indexVars, ghostVars
<1>2. RowsTyped'
  BY DEF CreateInvestmentRollback, rowVars, RowsTyped
<1>3. ChainTyped'
  BY ConstantTypes DEF CreateInvestmentRollback, chainVars, Fault, ChainTyped
<1>4. CreationInv'
  BY DEF CreateInvestmentRollback, CreationInv
<1> QED BY <1>1, <1>2, <1>3, <1>4

LEMMA CreateInvestmentIntentTyped ==
  ASSUME TypeInv, NEW i \in Investments, CreateInvestmentIntent(i)
  PROVE  TypeInv'
<1> USE DEF TypeInv, TypeOK
<1>1. JobsTyped(job)' /\ VerifiersTyped' /\ TriesLive' /\ IndexTyped' /\ ChainTyped' /\ GhostsTyped'
  BY DEF JobsTyped, VerifiersTyped, TriesLive, IndexTyped, ChainTyped, GhostsTyped,
     CreateInvestmentIntent, verifyVars, indexVars, chainVars, ghostVars
<1>2. RowsTyped'
  BY DEF CreateInvestmentIntent, RowsTyped, Status
<1>3. AssetTyped'
  BY ConstantTypes DEF CreateInvestmentIntent, moneyVars, AssetTyped
<1>4. CreationInv'
  BY DEF CreateInvestmentIntent, TokenFree, CreationInv
<1> QED BY <1>1, <1>2, <1>3, <1>4

LEMMA ConfirmInvestmentTyped ==
  ASSUME TypeInv, NEW k \in AdminJobs, NEW i \in Investments, ConfirmInvestment(k, i)
  PROVE  TypeInv'
<1> USE DEF TypeInv, TypeOK
<1>1. RowsTyped' /\ AssetTyped' /\ VerifiersTyped' /\ TriesLive' /\ IndexTyped' /\ ChainTyped' /\ GhostsTyped' /\ CreationInv'
  BY DEF RowsTyped, AssetTyped, VerifiersTyped, TriesLive, IndexTyped, ChainTyped,
     GhostsTyped, CreationInv, ConfirmInvestment, rowVars, assetVars, moneyVars, verifyVars, indexVars, chainVars, ghostVars
<1>2. JobsTyped(job)'
  BY QueueAddType DEF ConfirmInvestment, JobIds
<1> QED BY <1>1, <1>2

LEMMA JobStartTyped ==
  ASSUME TypeInv, NEW k \in JobIds, JobStart(k)
  PROVE  TypeInv'
<1> USE DEF TypeInv, TypeOK
<1>1. RowsTyped' /\ AssetTyped' /\ VerifiersTyped' /\ TriesLive' /\ IndexTyped' /\ ChainTyped' /\ GhostsTyped' /\ CreationInv'
  BY DEF RowsTyped, AssetTyped, VerifiersTyped, TriesLive, IndexTyped, ChainTyped,
     GhostsTyped, CreationInv, JobStart, rowVars, assetVars, moneyVars, verifyVars, indexVars, chainVars, ghostVars
<1>2. JobsTyped(job)'
  <2>1. CASE Settled(job[k].inv)
    BY <2>1, JobDoneType DEF JobStart
  <2>2. CASE ~Settled(job[k].inv)
    <3> DEFINE j == [job[k] EXCEPT !.st = IF status[job[k].inv] = "NONE" THEN "failing" ELSE "checked"]
    <3>1. job[k] \in Job /\ job[k].st # "none"
      BY DEF JobStart, JobsTyped
    <3>2. j \in Job /\ j.inv = job[k].inv /\ j.tries = job[k].tries
      BY <3>1 DEF Job, Running
    <3>3. job' = [job EXCEPT ![k] = j]
      BY <2>2 DEF JobStart
    <3> HIDE DEF j
    <3> QED BY <3>1, <3>2, <3>3, JobMovedType
  <2> QED BY <2>1, <2>2
<1> QED BY <1>1, <1>2

LEMMA ExecuteBlockchainTransferTyped ==
  ASSUME TypeInv, NEW k \in JobIds, ExecuteBlockchainTransfer(k)
  PROVE  TypeInv'
<1> USE DEF TypeInv, TypeOK
<1>0. job[k].inv \in Investments
  BY DEF ExecuteBlockchainTransfer, JobsTyped
<1>r. ChainTyped' /\ txCount + 1 \in Hashes
  BY <1>0, ReleaseType DEF ExecuteBlockchainTransfer, ChainTyped
<1>1. RowsTyped' /\ AssetTyped' /\ VerifiersTyped' /\ TriesLive' /\ IndexTyped' /\ GhostsTyped' /\ CreationInv'
  BY DEF RowsTyped, AssetTyped, VerifiersTyped, TriesLive, IndexTyped, GhostsTyped,
     CreationInv, ExecuteBlockchainTransfer, rowVars, assetVars, moneyVars, verifyVars, indexVars, ghostVars
<1>2. JobsTyped(job)'
  <2> DEFINE j == [job[k] EXCEPT !.st = "sent", !.hash = txCount + 1]
  <2>1. job[k] \in Job /\ job[k].st # "none"
    BY DEF ExecuteBlockchainTransfer, JobsTyped, Running
  <2>2. j \in Job /\ j.inv = job[k].inv /\ j.tries = job[k].tries
    BY <2>1, <1>r DEF Job, Running
  <2>3. job' = [job EXCEPT ![k] = j]
    BY <2>1 DEF ExecuteBlockchainTransfer
  <2> HIDE DEF j
  <2> QED BY <2>1, <2>2, <2>3, JobMovedType
<1>3. ChainTyped'
  BY <1>r
<1> QED BY <1>1, <1>2, <1>3

LEMMA TransferReplyLostTyped ==
  ASSUME TypeInv, NEW k \in JobIds, TransferReplyLost(k)
  PROVE  TypeInv'
<1> USE DEF TypeInv, TypeOK
<1>0. job[k].inv \in Investments
  BY DEF TransferReplyLost, JobsTyped
<1>1. RowsTyped' /\ AssetTyped' /\ VerifiersTyped' /\ TriesLive' /\ IndexTyped' /\ GhostsTyped' /\ CreationInv'
  BY DEF RowsTyped, AssetTyped, VerifiersTyped, TriesLive, IndexTyped, GhostsTyped,
     CreationInv, TransferReplyLost, rowVars, assetVars, moneyVars, verifyVars, indexVars, ghostVars
<1>2. JobsTyped(job)'
  <2> DEFINE j == [job[k] EXCEPT !.st = "failing"]
  <2>1. job[k] \in Job /\ job[k].st # "none"
    BY DEF TransferReplyLost, JobsTyped, Running
  <2>2. j \in Job /\ j.inv = job[k].inv /\ j.tries = job[k].tries
    BY <2>1 DEF Job, Running
  <2>3. job' = [job EXCEPT ![k] = j]
    BY <2>1 DEF TransferReplyLost
  <2> HIDE DEF j
  <2> QED BY <2>1, <2>2, <2>3, JobMovedType
<1>3. ChainTyped'
  <2>1. faults' \in 0 .. FaultLimit
    BY ConstantTypes DEF TransferReplyLost, Fault, ChainTyped
  <2> QED BY <1>0, <2>1, ReleaseType DEF TransferReplyLost
<1> QED BY <1>1, <1>2, <1>3

LEMMA TransferRefusedTyped ==
  ASSUME TypeInv, NEW k \in JobIds, TransferRefused(k)
  PROVE  TypeInv'
<1> USE DEF TypeInv, TypeOK
<1>1. RowsTyped' /\ AssetTyped' /\ VerifiersTyped' /\ TriesLive' /\ IndexTyped' /\ ChainTyped' /\ GhostsTyped' /\ CreationInv'
  BY DEF RowsTyped, AssetTyped, VerifiersTyped, TriesLive, IndexTyped, ChainTyped,
     GhostsTyped, CreationInv, TransferRefused, rowVars, assetVars, moneyVars, verifyVars, indexVars, chainVars, ghostVars
<1>2. JobsTyped(job)'
  <2> DEFINE j == [job[k] EXCEPT !.st = "failing"]
  <2>1. job[k] \in Job /\ job[k].st # "none"
    BY DEF TransferRefused, JobsTyped, Running
  <2>2. j \in Job /\ j.inv = job[k].inv /\ j.tries = job[k].tries
    BY <2>1 DEF Job, Running
  <2>3. job' = [job EXCEPT ![k] = j]
    BY <2>1 DEF TransferRefused
  <2> HIDE DEF j
  <2> QED BY <2>1, <2>2, <2>3, JobMovedType
<1> QED BY <1>1, <1>2

LEMMA FinalizeTokenizationLockTyped ==
  ASSUME TypeInv, NEW k \in JobIds, FinalizeTokenizationLock(k)
  PROVE  TypeInv'
<1> USE DEF TypeInv, TypeOK
<1>1. RowsTyped' /\ AssetTyped' /\ VerifiersTyped' /\ TriesLive' /\ IndexTyped' /\ ChainTyped' /\ GhostsTyped' /\ CreationInv'
  BY DEF RowsTyped, AssetTyped, VerifiersTyped, TriesLive, IndexTyped, ChainTyped,
     GhostsTyped, CreationInv, FinalizeTokenizationLock, rowVars, assetVars, moneyVars, verifyVars, indexVars, chainVars, ghostVars
<1>2. JobsTyped(job)'
  <2>1. CASE AlreadyFinal(job[k].inv)
    BY <2>1, JobDoneType DEF FinalizeTokenizationLock
  <2>2. CASE ~AlreadyFinal(job[k].inv)
    <3> DEFINE j == [job[k] EXCEPT !.st = "locked",
                                   !.snap = [funded |-> funded, investors |-> investorCount]]
    <3>1. job[k] \in Job /\ job[k].st # "none"
      BY DEF FinalizeTokenizationLock, JobsTyped
    <3>2. j \in Job /\ j.inv = job[k].inv /\ j.tries = job[k].tries
      BY <3>1 DEF Job, Running, Snapshot, AssetTyped
    <3>3. job' = [job EXCEPT ![k] = j]
      BY <2>2 DEF FinalizeTokenizationLock
    <3> HIDE DEF j
    <3> QED BY <3>1, <3>2, <3>3, JobMovedType
  <2> QED BY <2>1, <2>2
<1> QED BY <1>1, <1>2

LEMMA FinalizeTokenizationCommitTyped ==
  ASSUME TypeInv, NEW k \in JobIds, FinalizeTokenizationCommit(k)
  PROVE  TypeInv'
<1> USE DEF TypeInv, TypeOK
<1>0. /\ job[k].inv \in Investments /\ Owner[job[k].inv] \in Investors
      /\ job[k].hash \in Hashes \cup {NoHash}
      /\ job[k].snap.funded \in Nat /\ job[k].snap.investors \in Nat
  BY ConstantTypes DEF FinalizeTokenizationCommit, JobsTyped, Job, Snapshot
<1>1. VerifiersTyped' /\ TriesLive' /\ IndexTyped' /\ ChainTyped' /\ CreationInv'
  BY DEF VerifiersTyped, TriesLive, IndexTyped, ChainTyped, CreationInv,
     FinalizeTokenizationCommit, verifyVars, indexVars, chainVars, assetVars
<1>2. RowsTyped'
  BY <1>0 DEF FinalizeTokenizationCommit, RowsTyped, Status
<1>3. AssetTyped'
  BY <1>0, ConstantTypes DEF FinalizeTokenizationCommit, Transfer, AddShares, NewInvestors,
     AssetTyped
<1>4. JobsTyped(job)'
  <2>1. CASE job' = JobDone(k)
    BY <2>1, JobDoneType
  <2>2. CASE job' # JobDone(k)
    <3> DEFINE j == [job[k] EXCEPT !.st = "failing"]
    <3>1. job[k] \in Job /\ job[k].st # "none"
      BY DEF FinalizeTokenizationCommit, JobsTyped
    <3>2. j \in Job /\ j.inv = job[k].inv /\ j.tries = job[k].tries
      BY <3>1 DEF Job, Running
    <3>3. job' = [job EXCEPT ![k] = j]
      BY <2>2 DEF FinalizeTokenizationCommit
    <3> HIDE DEF j
    <3> QED BY <3>1, <3>2, <3>3, JobMovedType
  <2> QED BY <2>1, <2>2
<1>5. GhostsTyped'
  BY <1>0, ConstantTypes DEF FinalizeTokenizationCommit, Transfer, AddShares, GhostsTyped
<1> QED BY <1>1, <1>2, <1>3, <1>4, <1>5

LEMMA FinalizeTokenizationRollbackTyped ==
  ASSUME TypeInv, NEW k \in JobIds, FinalizeTokenizationRollback(k)
  PROVE  TypeInv'
<1> USE DEF TypeInv, TypeOK
<1>1. RowsTyped' /\ AssetTyped' /\ VerifiersTyped' /\ TriesLive' /\ IndexTyped' /\ ChainTyped' /\ GhostsTyped' /\ CreationInv'
  BY DEF RowsTyped, AssetTyped, VerifiersTyped, TriesLive, IndexTyped, ChainTyped,
     GhostsTyped, CreationInv, FinalizeTokenizationRollback, rowVars, assetVars, moneyVars, verifyVars, indexVars, chainVars, ghostVars
<1>2. JobsTyped(job)'
  <2> DEFINE j == [job[k] EXCEPT !.st = "failing"]
  <2>1. job[k] \in Job /\ job[k].st # "none"
    BY DEF FinalizeTokenizationRollback, JobsTyped, Running
  <2>2. j \in Job /\ j.inv = job[k].inv /\ j.tries = job[k].tries
    BY <2>1 DEF Job, Running
  <2>3. job' = [job EXCEPT ![k] = j]
    BY <2>1 DEF FinalizeTokenizationRollback
  <2> HIDE DEF j
  <2> QED BY <2>1, <2>2, <2>3, JobMovedType
<1> QED BY <1>1, <1>2

LEMMA HandleFailureTyped ==
  ASSUME TypeInv, NEW k \in JobIds, HandleFailure(k)
  PROVE  TypeInv'
<1> USE DEF TypeInv, TypeOK
<1>0. job[k].inv \in Investments
  BY DEF HandleFailure, JobsTyped
<1>1. VerifiersTyped' /\ TriesLive' /\ IndexTyped' /\ ChainTyped'
  BY DEF VerifiersTyped, TriesLive, IndexTyped, ChainTyped, HandleFailure, verifyVars,
     indexVars, chainVars
<1>2. RowsTyped'
  BY <1>0 DEF HandleFailure, HandleInvestmentFailure, RowsTyped, Status
<1>3. AssetTyped'
  BY <1>0, ConstantTypes DEF HandleFailure, HandleInvestmentFailure, moneyVars, AssetTyped
<1>4. JobsTyped(job)'
  BY JobFailedType DEF HandleFailure
<1>5. GhostsTyped'
  BY <1>0, ConstantTypes DEF HandleFailure, HandleInvestmentFailure, GhostsTyped
<1>6. CreationInv'
  BY <1>0, ConstantTypes DEF HandleFailure, HandleInvestmentFailure, CreationInv,
     AssetTyped, RowsTyped
<1> QED BY <1>1, <1>2, <1>3, <1>4, <1>5, <1>6

LEMMA HandleFailureThrowsTyped ==
  ASSUME TypeInv, NEW k \in JobIds, HandleFailureThrows(k)
  PROVE  TypeInv'
<1> USE DEF TypeInv, TypeOK
<1>1. RowsTyped' /\ AssetTyped' /\ VerifiersTyped' /\ TriesLive' /\ IndexTyped' /\ GhostsTyped' /\ CreationInv'
  BY DEF RowsTyped, AssetTyped, VerifiersTyped, TriesLive, IndexTyped, GhostsTyped,
     CreationInv, HandleFailureThrows, rowVars, assetVars, moneyVars, verifyVars, indexVars, ghostVars
<1>2. JobsTyped(job)'
  BY JobFailedType DEF HandleFailureThrows
<1>3. ChainTyped'
  BY ConstantTypes DEF HandleFailureThrows, chainVars, Fault, ChainTyped
<1> QED BY <1>1, <1>2, <1>3

LEMMA WorkerCrashTyped ==
  ASSUME TypeInv, NEW k \in JobIds, WorkerCrash(k)
  PROVE  TypeInv'
<1> USE DEF TypeInv, TypeOK
<1>1. RowsTyped' /\ AssetTyped' /\ VerifiersTyped' /\ TriesLive' /\ IndexTyped' /\ GhostsTyped' /\ CreationInv'
  BY DEF RowsTyped, AssetTyped, VerifiersTyped, TriesLive, IndexTyped, GhostsTyped,
     CreationInv, WorkerCrash, rowVars, assetVars, moneyVars, verifyVars, indexVars, ghostVars
<1>2. JobsTyped(job)'
  BY JobStalledType DEF WorkerCrash, Running
<1>3. ChainTyped'
  BY ConstantTypes DEF WorkerCrash, chainVars, Fault, ChainTyped
<1> QED BY <1>1, <1>2, <1>3

LEMMA SignDepositTyped ==
  ASSUME TypeInv, NEW i \in Investments, SignDeposit(i)
  PROVE  TypeInv'
<1> USE DEF TypeInv, TypeOK
<1>1. RowsTyped' /\ AssetTyped' /\ JobsTyped(job)' /\ VerifiersTyped' /\ TriesLive' /\ IndexTyped' /\ GhostsTyped' /\ CreationInv'
  BY DEF RowsTyped, AssetTyped, JobsTyped, VerifiersTyped, TriesLive, IndexTyped,
     GhostsTyped, CreationInv, SignDeposit, rowVars, assetVars, moneyVars, verifyVars, indexVars, ghostVars
<1>2. ChainTyped'
  <2> DEFINE tx == [kind |-> "deposit", inv |-> i, result |-> "unmined", conf |-> 0]
  <2>1. txCount + 1 \in Hashes /\ txCount' = txCount + 1 /\ txCount' \in 0 .. TxLimit
    BY ConstantTypes DEF ChainTyped, SignDeposit, Hashes
  <2>2. tx \in Tx /\ tx.inv \in Investments
    BY ConstantTypes DEF Tx
  <2>3. chain' = [chain EXCEPT ![txCount + 1] = tx] /\ UNCHANGED faults
    BY DEF SignDeposit
  <2> HIDE DEF tx
  <2>4. txCount <= txCount' /\ txCount + 1 <= txCount'
    BY <2>1, ConstantTypes DEF ChainTyped
  <2> QED BY <2>1, <2>2, <2>3, <2>4, ChainUpdateType DEF ChainTyped
<1> QED BY <1>1, <1>2

LEMMA MineTyped ==
  ASSUME TypeInv, NEW h \in Hashes, NEW result \in {"ok", "reverted", "mismatch"}, Mine(h, result)
  PROVE  TypeInv'
<1> USE DEF TypeInv, TypeOK
<1>1. RowsTyped' /\ AssetTyped' /\ JobsTyped(job)' /\ VerifiersTyped' /\ TriesLive' /\ IndexTyped' /\ GhostsTyped' /\ CreationInv'
  BY DEF RowsTyped, AssetTyped, JobsTyped, VerifiersTyped, TriesLive, IndexTyped,
     GhostsTyped, CreationInv, Mine, rowVars, assetVars, moneyVars, verifyVars, indexVars, ghostVars
<1>2. ChainTyped'
  <2> DEFINE tx == [chain[h] EXCEPT !.result = result, !.conf = 1]
  <2>1. chain[h] \in Tx /\ chain[h].kind # "none"
    BY DEF ChainTyped, Mine
  <2>2. tx \in Tx /\ tx.inv = chain[h].inv
    <3>1. tx.conf \in 0 .. Confirmations
      BY <2>1, ConstantTypes DEF Tx, Mine
    <3> QED BY <2>1, <3>1 DEF Tx
  <2>3. chain' = [chain EXCEPT ![h] = tx] /\ UNCHANGED <<txCount, faults>>
    BY <2>1 DEF Mine
  <2> HIDE DEF tx
  <2> QED BY <2>1, <2>2, <2>3, MinedType
<1> QED BY <1>1, <1>2

LEMMA NewBlockTyped ==
  ASSUME TypeInv, NEW h \in Hashes, NewBlock(h)
  PROVE  TypeInv'
<1> USE DEF TypeInv, TypeOK
<1>1. RowsTyped' /\ AssetTyped' /\ JobsTyped(job)' /\ VerifiersTyped' /\ TriesLive' /\ IndexTyped' /\ GhostsTyped' /\ CreationInv'
  BY DEF RowsTyped, AssetTyped, JobsTyped, VerifiersTyped, TriesLive, IndexTyped,
     GhostsTyped, CreationInv, NewBlock, rowVars, assetVars, moneyVars, verifyVars, indexVars, ghostVars
<1>2. ChainTyped'
  <2> DEFINE tx == [chain[h] EXCEPT !.conf = @ + 1]
  <2>1. chain[h] \in Tx /\ chain[h].kind # "none"
    BY DEF ChainTyped, NewBlock
  <2>2. tx \in Tx /\ tx.inv = chain[h].inv
    <3>1. tx.conf \in 0 .. Confirmations
      BY <2>1, ConstantTypes DEF Tx, NewBlock
    <3> QED BY <2>1, <3>1 DEF Tx
  <2>3. chain' = [chain EXCEPT ![h] = tx] /\ UNCHANGED <<txCount, faults>>
    BY <2>1 DEF NewBlock
  <2> HIDE DEF tx
  <2> QED BY <2>1, <2>2, <2>3, MinedType
<1> QED BY <1>1, <1>2

LEMMA SubmitOnChainTransactionTyped ==
  ASSUME TypeInv, NEW i \in Investments, NEW h \in Hashes, SubmitOnChainTransaction(i, h)
  PROVE  TypeInv'
<1> USE DEF TypeInv, TypeOK
<1>1. AssetTyped' /\ JobsTyped(job)' /\ IndexTyped' /\ ChainTyped' /\ GhostsTyped' /\ CreationInv'
  BY DEF AssetTyped, JobsTyped, IndexTyped, ChainTyped, GhostsTyped, CreationInv,
     SubmitOnChainTransaction, assetVars, moneyVars, indexVars, chainVars, ghostVars
<1>2. RowsTyped'
  BY DEF SubmitOnChainTransaction, RowsTyped, Status
<1>3. VerifiersTyped' /\ TriesLive'
  BY DEF SubmitOnChainTransaction, VerifiersTyped, TriesLive, Verifiers
<1> QED BY <1>1, <1>2, <1>3

LEMMA SubmitEnqueueTyped ==
  ASSUME TypeInv, NEW i \in Investments, SubmitEnqueue(i)
  PROVE  TypeInv'
<1> USE DEF TypeInv, TypeOK
<1>1. RowsTyped' /\ AssetTyped' /\ JobsTyped(job)' /\ IndexTyped' /\ ChainTyped' /\ GhostsTyped' /\ CreationInv'
  BY DEF RowsTyped, AssetTyped, JobsTyped, IndexTyped, ChainTyped, GhostsTyped,
     CreationInv, SubmitEnqueue, rowVars, assetVars, moneyVars, indexVars, chainVars, ghostVars
<1>2. VerifiersTyped' /\ TriesLive'
  BY ConstantTypes DEF SubmitEnqueue, VerifiersTyped, TriesLive, Verifiers
<1> QED BY <1>1, <1>2

LEMMA VerifyReadTyped ==
  ASSUME TypeInv, NEW w \in Verifiers, NEW propagated \in BOOLEAN, VerifyRead(w, propagated)
  PROVE  TypeInv'
<1> USE DEF TypeInv, TypeOK
<1>1. RowsTyped' /\ AssetTyped' /\ JobsTyped(job)' /\ IndexTyped' /\ ChainTyped' /\ GhostsTyped' /\ CreationInv'
  BY DEF RowsTyped, AssetTyped, JobsTyped, IndexTyped, ChainTyped, GhostsTyped,
     CreationInv, VerifyRead, rowVars, assetVars, moneyVars, indexVars, chainVars, ghostVars
<1>2. VerifiersTyped' /\ TriesLive'
  <2>1. CASE VerifyReturns(w)
    BY <2>1, VerifyReturnsType
  <2>2. CASE VerifyThrows(w)
    BY <2>2, VerifyThrowsType DEF VerifyRead
  <2>3. CASE \E o \in {"fail", "finalize"} : verifier' = [verifier EXCEPT ![w] = o] /\ UNCHANGED tries
    BY <2>3 DEF VerifyRead, VerifiersTyped, TriesLive, Verifiers
  <2> QED BY <2>1, <2>2, <2>3 DEF VerifyRead
<1> QED BY <1>1, <1>2

LEMMA FailVerificationTyped ==
  ASSUME TypeInv, NEW w \in Verifiers, FailVerification(w)
  PROVE  TypeInv'
<1> USE DEF TypeInv, TypeOK
<1>0. w[1] \in Investments /\ Owner[w[1]] \in Investors
  BY ConstantTypes DEF Verifiers
<1>1. JobsTyped(job)' /\ IndexTyped' /\ ChainTyped'
  BY DEF JobsTyped, IndexTyped, ChainTyped, FailVerification, indexVars, chainVars
<1>2. RowsTyped'
  BY <1>0 DEF FailVerification, HandleInvestmentFailure, RowsTyped, Status
<1>3. AssetTyped'
  BY <1>0, ConstantTypes DEF FailVerification, HandleInvestmentFailure, moneyVars,
     AssetTyped
<1>4. VerifiersTyped' /\ TriesLive'
  BY VerifyReturnsType DEF FailVerification
<1>5. GhostsTyped'
  BY <1>0, ConstantTypes DEF FailVerification, HandleInvestmentFailure, GhostsTyped
<1>6. CreationInv'
  BY <1>0, ConstantTypes DEF FailVerification, HandleInvestmentFailure, CreationInv,
     AssetTyped, RowsTyped
<1> QED BY <1>1, <1>2, <1>3, <1>4, <1>5, <1>6

LEMMA FinalizeVerifiedTyped ==
  ASSUME TypeInv, NEW w \in Verifiers, FinalizeVerified(w)
  PROVE  TypeInv'
<1> USE DEF TypeInv, TypeOK
<1>0. w[1] \in Investments /\ Owner[w[1]] \in Investors
  BY ConstantTypes DEF Verifiers
<1>1. JobsTyped(job)' /\ IndexTyped' /\ ChainTyped' /\ CreationInv'
  BY DEF JobsTyped, IndexTyped, ChainTyped, CreationInv, FinalizeVerified, indexVars,
     chainVars, assetVars
<1>2. RowsTyped'
  BY <1>0 DEF FinalizeVerified, RowsTyped, Status
<1>3. AssetTyped'
  BY <1>0, ConstantTypes DEF FinalizeVerified, moneyVars, AddShares, NewInvestors,
     AssetTyped
<1>4. VerifiersTyped' /\ TriesLive'
  BY VerifyReturnsType, VerifyThrowsType DEF FinalizeVerified
<1>5. GhostsTyped'
  BY <1>0, ConstantTypes DEF FinalizeVerified, AddShares, GhostsTyped
<1> QED BY <1>1, <1>2, <1>3, <1>4, <1>5

LEMMA FinalizeVerifiedRefusedTyped ==
  ASSUME TypeInv, NEW w \in Verifiers, FinalizeVerifiedRefused(w)
  PROVE  TypeInv'
<1> USE DEF TypeInv, TypeOK
<1>1. RowsTyped' /\ AssetTyped' /\ JobsTyped(job)' /\ IndexTyped' /\ ChainTyped' /\ GhostsTyped' /\ CreationInv'
  BY DEF RowsTyped, AssetTyped, JobsTyped, IndexTyped, ChainTyped, GhostsTyped,
     CreationInv, FinalizeVerifiedRefused, rowVars, assetVars, moneyVars, indexVars, chainVars, ghostVars
<1>2. VerifiersTyped' /\ TriesLive'
  BY VerifyReturnsType, VerifyThrowsType DEF FinalizeVerifiedRefused
<1> QED BY <1>1, <1>2

LEMMA VerifierCrashTyped ==
  ASSUME TypeInv, NEW w \in Verifiers, VerifierCrash(w)
  PROVE  TypeInv'
<1> USE DEF TypeInv, TypeOK
<1>1. RowsTyped' /\ AssetTyped' /\ JobsTyped(job)' /\ IndexTyped' /\ GhostsTyped' /\ CreationInv'
  BY DEF RowsTyped, AssetTyped, JobsTyped, IndexTyped, GhostsTyped, CreationInv,
     VerifierCrash, rowVars, assetVars, moneyVars, indexVars, ghostVars
<1>2. VerifiersTyped' /\ TriesLive'
  <2>1. CASE VerifyThrows(w)
    BY <2>1, VerifyThrowsType DEF VerifierCrash
  <2>2. CASE verifier' = [verifier EXCEPT ![w] = "read"] /\ UNCHANGED tries
    BY <2>2 DEF VerifierCrash, VerifiersTyped, TriesLive, Verifiers
  <2> QED BY <2>1, <2>2 DEF VerifierCrash
<1>3. ChainTyped'
  BY ConstantTypes DEF VerifierCrash, chainVars, Fault, ChainTyped
<1> QED BY <1>1, <1>2, <1>3

LEMMA IndexKnownTyped ==
  ASSUME TypeInv, NEW h \in Hashes, IndexKnown(h)
  PROVE  TypeInv'
<1> USE DEF TypeInv, TypeOK
<1>1. AssetTyped' /\ JobsTyped(job)' /\ VerifiersTyped' /\ TriesLive' /\ ChainTyped' /\ GhostsTyped' /\ CreationInv'
  BY DEF AssetTyped, JobsTyped, VerifiersTyped, TriesLive, ChainTyped, GhostsTyped,
     CreationInv, IndexKnown, assetVars, moneyVars, verifyVars, chainVars, ghostVars
<1>2. RowsTyped'
  BY DEF IndexKnown, RowsTyped, Status
<1>3. IndexTyped'
  BY DEF IndexKnown, IndexTyped, Idx, IdxIdle, NoSnapshot, Snapshot
<1> QED BY <1>1, <1>2, <1>3

LEMMA IndexReadTyped ==
  ASSUME TypeInv, NEW h \in Hashes, IndexRead(h)
  PROVE  TypeInv'
<1> USE DEF TypeInv, TypeOK
<1>1. RowsTyped' /\ AssetTyped' /\ JobsTyped(job)' /\ VerifiersTyped' /\ TriesLive' /\ ChainTyped' /\ GhostsTyped' /\ CreationInv'
  BY DEF RowsTyped, AssetTyped, JobsTyped, VerifiersTyped, TriesLive, ChainTyped,
     GhostsTyped, CreationInv, IndexRead, rowVars, assetVars, moneyVars, verifyVars, chainVars, ghostVars
<1>2. IndexTyped'
  BY DEF IndexRead, IndexTyped, AssetTyped, Idx, Snapshot
<1> QED BY <1>1, <1>2

\* A mutating indexer works on a release.
LEMMA IndexTypeFacts ==
  ASSUME TypeInv, IndexInv, idx.pc # "idle"
  PROVE  /\ idx.hash \in Hashes /\ chain[idx.hash].kind # "none"
         /\ idx.snap.funded \in Nat /\ idx.snap.investors \in Nat
BY DEF TypeInv, TypeOK, IndexTyped, IndexInv, IsRelease, Idx, Snapshot

LEMMA IndexConfirmIntentTyped ==
  ASSUME TypeInv, IndexInv, NEW i \in Investments, IndexConfirmIntent(i)
  PROVE  TypeInv'
<1> USE DEF TypeInv, TypeOK
<1>0. /\ idx.hash \in Hashes /\ chain[idx.hash].kind # "none"
      /\ idx.snap.funded \in Nat /\ idx.snap.investors \in Nat
  BY IndexTypeFacts DEF IndexConfirmIntent
<1>c. /\ Recipient(idx.hash) \in Investors
      /\ RawUnits(idx.hash) \in Nat /\ Cost(idx.hash) \in Nat
  BY <1>0, CostType
<1>1. JobsTyped(job)' /\ VerifiersTyped' /\ TriesLive' /\ ChainTyped'
  BY DEF JobsTyped, VerifiersTyped, TriesLive, ChainTyped, IndexConfirmIntent, verifyVars,
     chainVars
<1>2. RowsTyped'
  BY <1>0 DEF IndexConfirmIntent, RowsTyped, Status
<1>3. AssetTyped'
  BY <1>0, <1>c, ConstantTypes DEF IndexConfirmIntent, moneyVars, ProcessAssetMutation,
     NewInvestors, AssetTyped
<1>4. IndexTyped'
  BY <1>0 DEF IndexConfirmIntent, IndexTyped, Idx
<1>5. GhostsTyped'
  BY <1>0, <1>c, ConstantTypes DEF IndexConfirmIntent, ProcessAssetMutation, AssetTyped,
     GhostsTyped
<1>6. CreationInv'
  BY DEF IndexConfirmIntent, ProcessAssetMutation, TokenFree, CreationInv
<1> QED BY <1>1, <1>2, <1>3, <1>4, <1>5, <1>6

LEMMA IndexSelfHealTyped ==
  ASSUME TypeInv, IndexInv, IndexSelfHeal
  PROVE  TypeInv'
<1> USE DEF TypeInv, TypeOK
<1>0. /\ idx.hash \in Hashes /\ chain[idx.hash].kind # "none"
      /\ idx.snap.funded \in Nat /\ idx.snap.investors \in Nat
  BY IndexTypeFacts DEF IndexSelfHeal
<1>c. /\ Recipient(idx.hash) \in Investors
      /\ RawUnits(idx.hash) \in Nat /\ Cost(idx.hash) \in Nat
  BY <1>0, CostType
<1>1. RowsTyped' /\ JobsTyped(job)' /\ VerifiersTyped' /\ TriesLive' /\ ChainTyped'
  BY DEF RowsTyped, JobsTyped, VerifiersTyped, TriesLive, ChainTyped, IndexSelfHeal,
     rowVars, verifyVars, chainVars
<1>2. AssetTyped'
  BY <1>0, <1>c, ConstantTypes DEF IndexSelfHeal, moneyVars, ProcessAssetMutation,
     NewInvestors, AssetTyped
<1>3. IndexTyped'
  BY <1>0 DEF IndexSelfHeal, IndexTyped, Idx
<1>4. GhostsTyped'
  BY <1>0, <1>c, ConstantTypes DEF IndexSelfHeal, ProcessAssetMutation, AssetTyped,
     GhostsTyped
<1>5. CreationInv'
  BY DEF IndexSelfHeal, ProcessAssetMutation, TokenFree, CreationInv
<1> QED BY <1>1, <1>2, <1>3, <1>4, <1>5

LEMMA IndexSwallowTyped ==
  ASSUME TypeInv, IndexSwallow
  PROVE  TypeInv'
<1> USE DEF TypeInv, TypeOK
<1>1. RowsTyped' /\ AssetTyped' /\ JobsTyped(job)' /\ VerifiersTyped' /\ TriesLive' /\ GhostsTyped' /\ CreationInv'
  BY DEF RowsTyped, AssetTyped, JobsTyped, VerifiersTyped, TriesLive, GhostsTyped,
     CreationInv, IndexSwallow, rowVars, assetVars, moneyVars, verifyVars, ghostVars
<1>2. IndexTyped'
  BY DEF IndexSwallow, IndexTyped, Idx
<1>3. ChainTyped'
  BY ConstantTypes DEF IndexSwallow, chainVars, Fault, ChainTyped
<1> QED BY <1>1, <1>2, <1>3

LEMMA IndexCheckpointTyped ==
  ASSUME TypeInv, IndexInv, IndexCheckpoint
  PROVE  TypeInv'
<1> USE DEF TypeInv, TypeOK
<1>0. idx.hash \in Hashes
  BY IndexTypeFacts DEF IndexCheckpoint
<1>1. RowsTyped' /\ AssetTyped' /\ JobsTyped(job)' /\ VerifiersTyped' /\ TriesLive' /\ ChainTyped' /\ GhostsTyped' /\ CreationInv'
  BY DEF RowsTyped, AssetTyped, JobsTyped, VerifiersTyped, TriesLive, ChainTyped,
     GhostsTyped, CreationInv, IndexCheckpoint, rowVars, assetVars, moneyVars, verifyVars, chainVars, ghostVars
<1>2. IndexTyped'
  BY <1>0 DEF IndexCheckpoint, IndexTyped, Idx, IdxIdle, NoSnapshot, Snapshot
<1> QED BY <1>1, <1>2

LEMMA IndexCrashTyped ==
  ASSUME TypeInv, IndexCrash
  PROVE  TypeInv'
<1> USE DEF TypeInv, TypeOK
<1>1. RowsTyped' /\ AssetTyped' /\ JobsTyped(job)' /\ VerifiersTyped' /\ TriesLive' /\ GhostsTyped' /\ CreationInv'
  BY DEF RowsTyped, AssetTyped, JobsTyped, VerifiersTyped, TriesLive, GhostsTyped,
     CreationInv, IndexCrash, rowVars, assetVars, moneyVars, verifyVars, ghostVars
<1>2. IndexTyped'
  BY DEF IndexCrash, IndexTyped, Idx, IdxIdle, NoSnapshot, Snapshot
<1>3. ChainTyped'
  BY ConstantTypes DEF IndexCrash, chainVars, Fault, ChainTyped
<1> QED BY <1>1, <1>2, <1>3

-----------------------------------------------------------------------------
(* The settlement invariant *)

LEMMA InitSettlementInv == Init => SettlementInv
BY ConstantTypes DEF Init, SettlementInv, OpenInv, JobInv, HashInv, VerdictInv, IndexInv,
     NoJob,
   IdxIdle, Verifiers, NoHash

LEMMA CreateInvestmentOpenSettled ==
  ASSUME TypeInv, SettlementInv, NEW i \in Investments, CreateInvestmentOpen(i)
  PROVE  SettlementInv'
<1> USE DEF TypeInv, TypeOK, SettlementInv
<1>1. HashInv' /\ VerdictInv' /\ IndexInv'
  BY DEF HashInv, VerdictInv, IndexInv, CreateInvestmentOpen, rowVars, chainVars,
     verifyVars, SameIntent, Confirmed, Verifiers, VerifiersTyped, RowsTyped, indexVars, IsRelease
<1>2. OpenInv'
  BY DEF CreateInvestmentOpen, OpenInv, rowVars, Fresh
<1>3. JobInv'
  BY ConstantTypes DEF CreateInvestmentOpen, JobInv, rowVars, chainVars, JobsTyped, Job,
     NoJob, RowsTyped, ChainTyped, Running, QueueAdd, Fresh
<1> QED BY <1>1, <1>2, <1>3

LEMMA CreateInvestmentCommitSettled ==
  ASSUME TypeInv, SettlementInv, NEW i \in Investments, CreateInvestmentCommit(i)
  PROVE  SettlementInv'
<1> USE DEF TypeInv, TypeOK, SettlementInv
<1>1. IndexInv'
  BY DEF IndexInv, CreateInvestmentCommit, indexVars, chainVars, IsRelease
<1>2. OpenInv'
  BY DEF CreateInvestmentCommit, OpenInv, rowVars, CreationInv
<1>3. JobInv'
  BY DEF CreateInvestmentCommit, JobInv, rowVars, chainVars, JobsTyped, Job, NoJob,
     RowsTyped, ChainTyped, Running
<1>4. HashInv'
  BY DEF CreateInvestmentCommit, HashInv, rowVars, chainVars, RowsTyped, ChainTyped, OpenInv
<1>5. VerdictInv'
  BY DEF CreateInvestmentCommit, VerdictInv, rowVars, chainVars, verifyVars, SameIntent,
     Confirmed, Verifiers, VerifiersTyped, RowsTyped, OpenInv, HashInv
<1> QED BY <1>1, <1>2, <1>3, <1>4, <1>5

LEMMA CreateInvestmentRollbackSettled ==
  ASSUME TypeInv, SettlementInv, NEW i \in Investments, CreateInvestmentRollback(i)
  PROVE  SettlementInv'
<1> USE DEF TypeInv, TypeOK, SettlementInv
<1>1. JobInv' /\ HashInv' /\ VerdictInv' /\ IndexInv'
  BY DEF JobInv, HashInv, VerdictInv, IndexInv, CreateInvestmentRollback, rowVars,
     chainVars, verifyVars, SameIntent, Confirmed, Verifiers, VerifiersTyped, RowsTyped, indexVars, IsRelease
<1>2. OpenInv'
  BY DEF CreateInvestmentRollback, OpenInv, rowVars
<1> QED BY <1>1, <1>2

LEMMA CreateInvestmentIntentSettled ==
  ASSUME TypeInv, SettlementInv, NEW i \in Investments, CreateInvestmentIntent(i)
  PROVE  SettlementInv'
<1> USE DEF TypeInv, TypeOK, SettlementInv
<1>1. IndexInv'
  BY DEF IndexInv, CreateInvestmentIntent, indexVars, chainVars, IsRelease
<1>2. OpenInv'
  BY DEF CreateInvestmentIntent, OpenInv, rowVars, TokenFree
<1>3. JobInv'
  BY DEF CreateInvestmentIntent, JobInv, rowVars, chainVars, JobsTyped, Job, NoJob,
     RowsTyped, ChainTyped, Running, Fresh
<1>4. HashInv'
  BY DEF CreateInvestmentIntent, HashInv, rowVars, chainVars, RowsTyped, ChainTyped, Fresh
<1>5. VerdictInv'
  BY DEF CreateInvestmentIntent, VerdictInv, rowVars, chainVars, verifyVars, SameIntent,
     Confirmed, Verifiers, VerifiersTyped, RowsTyped, HashInv, Fresh
<1> QED BY <1>1, <1>2, <1>3, <1>4, <1>5

LEMMA ConfirmInvestmentSettled ==
  ASSUME TypeInv, SettlementInv, NEW k \in AdminJobs, NEW i \in Investments, ConfirmInvestment(k, i)
  PROVE  SettlementInv'
<1> USE DEF TypeInv, TypeOK, SettlementInv
<1>1. OpenInv' /\ HashInv' /\ VerdictInv' /\ IndexInv'
  BY DEF OpenInv, HashInv, VerdictInv, IndexInv, ConfirmInvestment, rowVars, chainVars,
     verifyVars, SameIntent, Confirmed, Verifiers, VerifiersTyped, RowsTyped, indexVars, IsRelease
<1>2. JobInv'
  BY DEF ConfirmInvestment, JobInv, rowVars, chainVars, JobsTyped, Job, NoJob, RowsTyped,
     ChainTyped, Running, QueueAdd, JobIds
<1> QED BY <1>1, <1>2

LEMMA JobStartSettled ==
  ASSUME TypeInv, SettlementInv, NEW k \in JobIds, JobStart(k)
  PROVE  SettlementInv'
<1> USE DEF TypeInv, TypeOK, SettlementInv
<1>1. OpenInv' /\ HashInv' /\ VerdictInv' /\ IndexInv'
  BY DEF OpenInv, HashInv, VerdictInv, IndexInv, JobStart, rowVars, chainVars, verifyVars,
     SameIntent, Confirmed, Verifiers, VerifiersTyped, RowsTyped, indexVars, IsRelease
<1>2. JobInv'
  BY DEF JobStart, JobInv, rowVars, chainVars, JobsTyped, Job, NoJob, RowsTyped,
     ChainTyped, Running, JobDone
<1> QED BY <1>1, <1>2

LEMMA ExecuteBlockchainTransferSettled ==
  ASSUME TypeInv, SettlementInv, NEW k \in JobIds, ExecuteBlockchainTransfer(k)
  PROVE  SettlementInv'
<1> USE DEF TypeInv, TypeOK, SettlementInv
<1>1. OpenInv'
  BY DEF OpenInv, ExecuteBlockchainTransfer, rowVars
<1>2. JobInv'
  <2> DEFINE i == job[k].inv
  <2>1. i \in Investments /\ status[i] # "NONE"
    BY DEF ExecuteBlockchainTransfer, JobInv, JobsTyped
  <2>2. /\ txCount + 1 \in Hashes
        /\ chain'[txCount + 1].kind = "release" /\ chain'[txCount + 1].inv = i
        /\ \A h \in Hashes : chain[h].kind # "none" => chain'[h] = chain[h]
    BY <2>1, ConstantTypes DEF ExecuteBlockchainTransfer, Release, ChainTyped, Hashes
  <2>3. /\ job'[k].st = "sent" /\ job'[k].inv = i /\ job'[k].hash = txCount + 1
        /\ \A l \in JobIds \ {k} : job'[l] = job[l]
    BY DEF ExecuteBlockchainTransfer, JobsTyped, Job
  <2>4. UNCHANGED <<status, mode>>
    BY DEF ExecuteBlockchainTransfer, rowVars
  <2>5. job[k].st # "none"
    BY DEF ExecuteBlockchainTransfer
  <2> HIDE DEF i
  <2>6. job[k].inv = i
    BY DEF i
  <2> QED BY <2>1, <2>2, <2>3, <2>4, <2>5, <2>6 DEF JobInv
<1>3. HashInv'
  BY DEF ExecuteBlockchainTransfer, HashInv, rowVars, chainVars, RowsTyped, ChainTyped,
     Release, Hashes
<1>4. VerdictInv'
  BY DEF ExecuteBlockchainTransfer, VerdictInv, rowVars, chainVars, verifyVars, SameIntent,
     Confirmed, Verifiers, VerifiersTyped, RowsTyped, HashInv, Release, ChainTyped, Hashes
<1>5. IndexInv'
  BY DEF ExecuteBlockchainTransfer, IndexInv, indexVars, chainVars, IsRelease, IndexTyped,
     ChainTyped, Idx, IdxIdle, Release, Hashes
<1> QED BY <1>1, <1>2, <1>3, <1>4, <1>5

LEMMA TransferReplyLostSettled ==
  ASSUME TypeInv, SettlementInv, NEW k \in JobIds, TransferReplyLost(k)
  PROVE  SettlementInv'
<1> USE DEF TypeInv, TypeOK, SettlementInv
<1>1. OpenInv'
  BY DEF OpenInv, TransferReplyLost, rowVars
<1>2. JobInv'
  <2>1. \A h \in Hashes : chain[h].kind # "none" => chain'[h] = chain[h]
    BY ConstantTypes DEF TransferReplyLost, Release, JobsTyped, ChainTyped, Hashes
  <2>2. /\ job[k].st = "checked" /\ job'[k].st = "failing" /\ job'[k].inv = job[k].inv
        /\ \A l \in JobIds \ {k} : job'[l] = job[l]
    BY DEF TransferReplyLost, JobsTyped, Job
  <2>3. UNCHANGED <<status, mode>>
    BY DEF TransferReplyLost, rowVars
  <2> QED BY <2>1, <2>2, <2>3 DEF JobInv
<1>3. HashInv'
  BY DEF TransferReplyLost, HashInv, rowVars, chainVars, RowsTyped, ChainTyped, Release,
     Hashes
<1>4. VerdictInv'
  BY DEF TransferReplyLost, VerdictInv, rowVars, chainVars, verifyVars, SameIntent,
     Confirmed, Verifiers, VerifiersTyped, RowsTyped, HashInv, Release, ChainTyped, Hashes
<1>5. IndexInv'
  BY DEF TransferReplyLost, IndexInv, indexVars, chainVars, IsRelease, IndexTyped,
     ChainTyped, Idx, IdxIdle, Release, Hashes
<1> QED BY <1>1, <1>2, <1>3, <1>4, <1>5

LEMMA TransferRefusedSettled ==
  ASSUME TypeInv, SettlementInv, NEW k \in JobIds, TransferRefused(k)
  PROVE  SettlementInv'
<1> USE DEF TypeInv, TypeOK, SettlementInv
<1>1. OpenInv' /\ HashInv' /\ VerdictInv' /\ IndexInv'
  BY DEF OpenInv, HashInv, VerdictInv, IndexInv, TransferRefused, rowVars, chainVars,
     verifyVars, SameIntent, Confirmed, Verifiers, VerifiersTyped, RowsTyped, indexVars, IsRelease
<1>2. JobInv'
  BY DEF TransferRefused, JobInv, rowVars, chainVars, JobsTyped, Job, NoJob, RowsTyped,
     ChainTyped, Running
<1> QED BY <1>1, <1>2

LEMMA FinalizeTokenizationLockSettled ==
  ASSUME TypeInv, SettlementInv, NEW k \in JobIds, FinalizeTokenizationLock(k)
  PROVE  SettlementInv'
<1> USE DEF TypeInv, TypeOK, SettlementInv
<1>1. OpenInv' /\ HashInv' /\ VerdictInv' /\ IndexInv'
  BY DEF OpenInv, HashInv, VerdictInv, IndexInv, FinalizeTokenizationLock, rowVars,
     chainVars, verifyVars, SameIntent, Confirmed, Verifiers, VerifiersTyped, RowsTyped, indexVars, IsRelease
<1>2. JobInv'
  BY DEF FinalizeTokenizationLock, JobInv, rowVars, chainVars, JobsTyped, Job, NoJob,
     RowsTyped, ChainTyped, Running, JobDone, AlreadyFinal, RowFree
<1> QED BY <1>1, <1>2

LEMMA FinalizeTokenizationCommitSettled ==
  ASSUME TypeInv, SettlementInv, NEW k \in JobIds, FinalizeTokenizationCommit(k)
  PROVE  SettlementInv'
<1> USE DEF TypeInv, TypeOK, SettlementInv
<1>1. IndexInv'
  BY DEF IndexInv, FinalizeTokenizationCommit, indexVars, chainVars, IsRelease
<1>2. OpenInv'
  BY DEF FinalizeTokenizationCommit, OpenInv, rowVars, JobInv, JobsTyped
<1>3. JobInv'
  BY DEF FinalizeTokenizationCommit, JobInv, rowVars, chainVars, JobsTyped, Job, NoJob,
     RowsTyped, ChainTyped, Running, JobDone
<1>4. HashInv'
  BY DEF FinalizeTokenizationCommit, HashInv, rowVars, chainVars, RowsTyped, ChainTyped,
     JobInv, JobsTyped
<1>5. VerdictInv'
  <2> DEFINE i == job[k].inv
  <2>1. i \in Investments /\ mode[i] = "OFF_CHAIN" /\ job[k].hash \in Hashes
    BY DEF FinalizeTokenizationCommit, JobInv, JobsTyped
  <2>2. /\ txHash' = [txHash EXCEPT ![i] = job[k].hash]
        /\ UNCHANGED <<mode, chain, verifier>>
    BY DEF FinalizeTokenizationCommit, chainVars, verifyVars
  <2>3. job[k].hash # NoHash
    BY <2>1 DEF Hashes, NoHash
  <2> HIDE DEF i
  <2> QED BY <2>1, <2>2, <2>3 DEF VerdictInv, RowsTyped, Verifiers, SameIntent, Confirmed
<1> QED BY <1>1, <1>2, <1>3, <1>4, <1>5

LEMMA FinalizeTokenizationRollbackSettled ==
  ASSUME TypeInv, SettlementInv, NEW k \in JobIds, FinalizeTokenizationRollback(k)
  PROVE  SettlementInv'
<1> USE DEF TypeInv, TypeOK, SettlementInv
<1>1. OpenInv' /\ HashInv' /\ VerdictInv' /\ IndexInv'
  BY DEF OpenInv, HashInv, VerdictInv, IndexInv, FinalizeTokenizationRollback, rowVars,
     chainVars, verifyVars, SameIntent, Confirmed, Verifiers, VerifiersTyped, RowsTyped, indexVars, IsRelease
<1>2. JobInv'
  BY DEF FinalizeTokenizationRollback, JobInv, rowVars, chainVars, JobsTyped, Job, NoJob,
     RowsTyped, ChainTyped, Running
<1> QED BY <1>1, <1>2

LEMMA HandleFailureSettled ==
  ASSUME TypeInv, SettlementInv, NEW k \in JobIds, HandleFailure(k)
  PROVE  SettlementInv'
<1> USE DEF TypeInv, TypeOK, SettlementInv
<1>1. IndexInv'
  BY DEF IndexInv, HandleFailure, indexVars, chainVars, IsRelease
<1>2. OpenInv'
  BY DEF HandleFailure, OpenInv, rowVars, HandleInvestmentFailure, Returnable, JobsTyped,
     RowsTyped
<1>3. JobInv'
  BY DEF HandleFailure, JobInv, rowVars, chainVars, JobsTyped, Job, NoJob, RowsTyped,
     ChainTyped, Running, HandleInvestmentFailure, Returnable, JobFailed, RowFree
<1>4. HashInv'
  BY DEF HandleFailure, HashInv, rowVars, chainVars, RowsTyped, ChainTyped,
     HandleInvestmentFailure, Returnable, JobsTyped
<1>5. VerdictInv'
  BY DEF HandleFailure, VerdictInv, rowVars, chainVars, verifyVars, SameIntent, Confirmed,
     Verifiers, VerifiersTyped, RowsTyped, HandleInvestmentFailure, Returnable
<1> QED BY <1>1, <1>2, <1>3, <1>4, <1>5

LEMMA HandleFailureThrowsSettled ==
  ASSUME TypeInv, SettlementInv, NEW k \in JobIds, HandleFailureThrows(k)
  PROVE  SettlementInv'
<1> USE DEF TypeInv, TypeOK, SettlementInv
<1>1. OpenInv' /\ HashInv' /\ VerdictInv' /\ IndexInv'
  BY DEF OpenInv, HashInv, VerdictInv, IndexInv, HandleFailureThrows, rowVars, chainVars,
     verifyVars, SameIntent, Confirmed, Verifiers, VerifiersTyped, RowsTyped, indexVars, IsRelease
<1>2. JobInv'
  BY DEF HandleFailureThrows, JobInv, rowVars, chainVars, JobsTyped, Job, NoJob, RowsTyped,
     ChainTyped, Running, JobFailed
<1> QED BY <1>1, <1>2

LEMMA WorkerCrashSettled ==
  ASSUME TypeInv, SettlementInv, NEW k \in JobIds, WorkerCrash(k)
  PROVE  SettlementInv'
<1> USE DEF TypeInv, TypeOK, SettlementInv
<1>1. OpenInv' /\ HashInv' /\ VerdictInv' /\ IndexInv'
  BY DEF OpenInv, HashInv, VerdictInv, IndexInv, WorkerCrash, rowVars, chainVars,
     verifyVars, SameIntent, Confirmed, Verifiers, VerifiersTyped, RowsTyped, indexVars, IsRelease
<1>2. JobInv'
  BY DEF WorkerCrash, JobInv, rowVars, chainVars, JobsTyped, Job, NoJob, RowsTyped,
     ChainTyped, Running, JobStalled
<1> QED BY <1>1, <1>2

LEMMA SignDepositSettled ==
  ASSUME TypeInv, SettlementInv, NEW i \in Investments, SignDeposit(i)
  PROVE  SettlementInv'
<1> USE DEF TypeInv, TypeOK, SettlementInv
<1>1. OpenInv'
  BY DEF OpenInv, SignDeposit, rowVars
<1>2. JobInv'
  BY DEF SignDeposit, JobInv, rowVars, chainVars, JobsTyped, Job, NoJob, RowsTyped,
     ChainTyped, Running, Hashes
<1>3. HashInv'
  BY DEF SignDeposit, HashInv, rowVars, chainVars, RowsTyped, ChainTyped, Hashes
<1>4. VerdictInv'
  BY ConstantTypes DEF SignDeposit, VerdictInv, rowVars, chainVars, verifyVars, SameIntent,
     Confirmed, Verifiers, VerifiersTyped, RowsTyped, HashInv, ChainTyped, Tx, Hashes
<1>5. IndexInv'
  BY DEF SignDeposit, IndexInv, indexVars, chainVars, IsRelease, IndexTyped, ChainTyped,
     Idx, IdxIdle, Hashes
<1> QED BY <1>1, <1>2, <1>3, <1>4, <1>5

LEMMA MineSettled ==
  ASSUME TypeInv, SettlementInv, NEW h \in Hashes, NEW result \in {"ok", "reverted", "mismatch"}, Mine(h, result)
  PROVE  SettlementInv'
<1> USE DEF TypeInv, TypeOK, SettlementInv
<1>1. OpenInv'
  BY DEF OpenInv, Mine, rowVars
<1>2. JobInv'
  BY DEF Mine, JobInv, rowVars, chainVars, JobsTyped, Job, NoJob, RowsTyped, ChainTyped,
     Running, Hashes
<1>3. HashInv'
  BY DEF Mine, HashInv, rowVars, chainVars, RowsTyped, ChainTyped, Hashes
<1>4. VerdictInv'
  <2>1. ASSUME NEW g \in Hashes, chain[g].result = "ok", chain[g].conf >= Confirmations
        PROVE  chain'[g] = chain[g]
    BY <2>1, ConstantTypes DEF Mine, ChainTyped, Tx
  <2>2. ASSUME NEW g \in Hashes
        PROVE  chain'[g].kind = chain[g].kind /\ chain'[g].inv = chain[g].inv
    BY <2>2 DEF Mine, ChainTyped, Tx
  <2>3. UNCHANGED <<txHash, mode, verifier>>
    BY DEF Mine, rowVars, verifyVars
  <2>4. \A i \in Investments : txHash[i] # NoHash => txHash[i] \in Hashes
    BY DEF RowsTyped
  <2> QED BY <2>1, <2>2, <2>3, <2>4 DEF VerdictInv, Verifiers, SameIntent, Confirmed
<1>5. IndexInv'
  BY DEF Mine, IndexInv, indexVars, chainVars, IsRelease, IndexTyped, ChainTyped, Idx,
     IdxIdle, Hashes
<1> QED BY <1>1, <1>2, <1>3, <1>4, <1>5

LEMMA NewBlockSettled ==
  ASSUME TypeInv, SettlementInv, NEW h \in Hashes, NewBlock(h)
  PROVE  SettlementInv'
<1> USE DEF TypeInv, TypeOK, SettlementInv
<1>1. OpenInv'
  BY DEF OpenInv, NewBlock, rowVars
<1>2. JobInv'
  BY DEF NewBlock, JobInv, rowVars, chainVars, JobsTyped, Job, NoJob, RowsTyped,
     ChainTyped, Running, Hashes
<1>3. HashInv'
  BY DEF NewBlock, HashInv, rowVars, chainVars, RowsTyped, ChainTyped, Hashes
<1>4. VerdictInv'
  <2>1. ASSUME NEW g \in Hashes, chain[g].result = "ok", chain[g].conf >= Confirmations
        PROVE  chain'[g] = chain[g]
    BY <2>1, ConstantTypes DEF NewBlock, ChainTyped, Tx
  <2>2. ASSUME NEW g \in Hashes
        PROVE  chain'[g].kind = chain[g].kind /\ chain'[g].inv = chain[g].inv
    BY <2>2 DEF NewBlock, ChainTyped, Tx
  <2>3. UNCHANGED <<txHash, mode, verifier>>
    BY DEF NewBlock, rowVars, verifyVars
  <2>4. \A i \in Investments : txHash[i] # NoHash => txHash[i] \in Hashes
    BY DEF RowsTyped
  <2> QED BY <2>1, <2>2, <2>3, <2>4 DEF VerdictInv, Verifiers, SameIntent, Confirmed
<1>5. IndexInv'
  BY DEF NewBlock, IndexInv, indexVars, chainVars, IsRelease, IndexTyped, ChainTyped, Idx,
     IdxIdle, Hashes
<1> QED BY <1>1, <1>2, <1>3, <1>4, <1>5

LEMMA SubmitOnChainTransactionSettled ==
  ASSUME TypeInv, SettlementInv, NEW i \in Investments, NEW h \in Hashes, SubmitOnChainTransaction(i, h)
  PROVE  SettlementInv'
<1> USE DEF TypeInv, TypeOK, SettlementInv
<1>1. IndexInv'
  BY DEF IndexInv, SubmitOnChainTransaction, indexVars, chainVars, IsRelease
<1>2. OpenInv'
  BY DEF SubmitOnChainTransaction, OpenInv, rowVars, Bindable, RowsTyped
<1>3. JobInv'
  BY DEF SubmitOnChainTransaction, JobInv, rowVars, chainVars, JobsTyped, Job, NoJob,
     RowsTyped, ChainTyped, Running, Bindable, RowFree
<1>4. HashInv'
  BY DEF SubmitOnChainTransaction, HashInv, rowVars, chainVars, RowsTyped, ChainTyped,
     Bindable, Hashes, NoHash
<1>5. VerdictInv'
  BY DEF SubmitOnChainTransaction, VerdictInv, rowVars, chainVars, verifyVars, SameIntent,
     Confirmed, Verifiers, VerifiersTyped, RowsTyped, Bindable, Settled, HashInv, Hashes, NoHash
<1> QED BY <1>1, <1>2, <1>3, <1>4, <1>5

LEMMA SubmitEnqueueSettled ==
  ASSUME TypeInv, SettlementInv, NEW i \in Investments, SubmitEnqueue(i)
  PROVE  SettlementInv'
<1> USE DEF TypeInv, TypeOK, SettlementInv
<1>1. OpenInv' /\ JobInv' /\ HashInv' /\ IndexInv'
  BY DEF OpenInv, JobInv, HashInv, IndexInv, SubmitEnqueue, rowVars, chainVars, indexVars,
     IsRelease
<1>2. VerdictInv'
  BY DEF SubmitEnqueue, VerdictInv, rowVars, chainVars, verifyVars, SameIntent, Confirmed,
     Verifiers, VerifiersTyped, RowsTyped
<1> QED BY <1>1, <1>2

LEMMA VerifyReadSettled ==
  ASSUME TypeInv, SettlementInv, NEW w \in Verifiers, NEW propagated \in BOOLEAN, VerifyRead(w, propagated)
  PROVE  SettlementInv'
<1> USE DEF TypeInv, TypeOK, SettlementInv
<1>1. OpenInv' /\ JobInv' /\ HashInv' /\ IndexInv'
  BY DEF OpenInv, JobInv, HashInv, IndexInv, VerifyRead, rowVars, chainVars, indexVars,
     IsRelease
<1>2. VerdictInv'
  <2>1. w[1] \in Investments /\ verifier[w] = "read" /\ txHash[w[1]] # NoHash
        /\ txHash[w[1]] \in Hashes
    BY DEF VerifyRead, VerdictInv, Verifiers, RowsTyped
  <2>2. UNCHANGED <<txHash, mode, chain>>
    BY DEF VerifyRead, rowVars, chainVars
  <2>3. CASE VerifyReturns(w) \/ VerifyThrows(w)
    BY <2>1, <2>2, <2>3 DEF VerdictInv, Verifiers, VerifiersTyped, VerifyReturns,
     VerifyThrows,
       SameIntent, Confirmed
  <2>4. CASE verifier' = [verifier EXCEPT ![w] = "fail"]
    BY <2>1, <2>2, <2>4 DEF VerdictInv, Verifiers, VerifiersTyped, SameIntent, Confirmed
  <2>5. CASE VerifyOutcome(w[1], propagated) = "finalize"
             /\ verifier' = [verifier EXCEPT ![w] = "finalize"]
    <3>1. ~Settled(w[1]) /\ mode[w[1]] # "OFF_CHAIN" /\ SameIntent(w[1], txHash[w[1]])
          /\ ReceiptOutcome(txHash[w[1]]) = "finalize"
      BY <2>5 DEF VerifyOutcome
    <3>2. mode[w[1]] = "ON_CHAIN"
      BY <2>1, <3>1 DEF RowsTyped
    <3>3. chain[txHash[w[1]]].result = "ok" /\ Confirmed(txHash[w[1]])
      <4>1. chain[txHash[w[1]]].result \in {"unmined", "ok", "reverted", "mismatch"}
        BY <2>1 DEF ChainTyped, Tx
      <4> QED BY <3>1, <4>1 DEF ReceiptOutcome
    <3> QED BY <2>1, <2>2, <2>5, <3>1, <3>2, <3>3
         DEF VerdictInv, Verifiers, VerifiersTyped, SameIntent, Confirmed
  <2> QED BY <2>3, <2>4, <2>5 DEF VerifyRead
<1> QED BY <1>1, <1>2

LEMMA FailVerificationSettled ==
  ASSUME TypeInv, SettlementInv, NEW w \in Verifiers, FailVerification(w)
  PROVE  SettlementInv'
<1> USE DEF TypeInv, TypeOK, SettlementInv
<1>1. IndexInv'
  BY DEF IndexInv, FailVerification, indexVars, chainVars, IsRelease
<1>2. OpenInv'
  BY DEF FailVerification, OpenInv, rowVars, HandleInvestmentFailure, Returnable,
     RowsTyped, Verifiers
<1>3. JobInv'
  BY DEF FailVerification, JobInv, rowVars, chainVars, JobsTyped, Job, NoJob, RowsTyped,
     ChainTyped, Running, HandleInvestmentFailure, Returnable, RowFree, Verifiers
<1>4. HashInv'
  BY DEF FailVerification, HashInv, rowVars, chainVars, RowsTyped, ChainTyped,
     HandleInvestmentFailure, Returnable, Verifiers
<1>5. VerdictInv'
  BY DEF FailVerification, VerdictInv, rowVars, chainVars, verifyVars, SameIntent,
     Confirmed, Verifiers, VerifiersTyped, RowsTyped, HandleInvestmentFailure, Returnable, VerifyReturns
<1> QED BY <1>1, <1>2, <1>3, <1>4, <1>5

LEMMA FinalizeVerifiedSettled ==
  ASSUME TypeInv, SettlementInv, NEW w \in Verifiers, FinalizeVerified(w)
  PROVE  SettlementInv'
<1> USE DEF TypeInv, TypeOK, SettlementInv
<1>1. IndexInv'
  BY DEF IndexInv, FinalizeVerified, indexVars, chainVars, IsRelease
<1>2. OpenInv'
  BY DEF FinalizeVerified, OpenInv, rowVars, VerdictInv, HashInv, RowsTyped, Verifiers
<1>3. JobInv'
  BY DEF FinalizeVerified, JobInv, rowVars, chainVars, JobsTyped, Job, NoJob, RowsTyped,
     ChainTyped, Running, Verifiers, VerdictInv, HashInv, RowFree
<1>4. HashInv'
  BY DEF FinalizeVerified, HashInv, rowVars, chainVars, RowsTyped, ChainTyped, Verifiers,
     VerdictInv
<1>5. VerdictInv'
  BY DEF FinalizeVerified, VerdictInv, rowVars, chainVars, verifyVars, SameIntent,
     Confirmed, Verifiers, VerifiersTyped, RowsTyped, VerifyReturns, VerifyThrows
<1> QED BY <1>1, <1>2, <1>3, <1>4, <1>5

LEMMA FinalizeVerifiedRefusedSettled ==
  ASSUME TypeInv, SettlementInv, NEW w \in Verifiers, FinalizeVerifiedRefused(w)
  PROVE  SettlementInv'
<1> USE DEF TypeInv, TypeOK, SettlementInv
<1>1. OpenInv' /\ JobInv' /\ HashInv' /\ IndexInv'
  BY DEF OpenInv, JobInv, HashInv, IndexInv, FinalizeVerifiedRefused, rowVars, chainVars,
     indexVars, IsRelease
<1>2. VerdictInv'
  BY DEF FinalizeVerifiedRefused, VerdictInv, rowVars, chainVars, verifyVars, SameIntent,
     Confirmed, Verifiers, VerifiersTyped, RowsTyped, VerifyReturns, VerifyThrows
<1> QED BY <1>1, <1>2

LEMMA VerifierCrashSettled ==
  ASSUME TypeInv, SettlementInv, NEW w \in Verifiers, VerifierCrash(w)
  PROVE  SettlementInv'
<1> USE DEF TypeInv, TypeOK, SettlementInv
<1>1. OpenInv' /\ JobInv' /\ HashInv' /\ IndexInv'
  BY DEF OpenInv, JobInv, HashInv, IndexInv, VerifierCrash, rowVars, chainVars, indexVars,
     IsRelease
<1>2. VerdictInv'
  BY DEF VerifierCrash, VerdictInv, rowVars, chainVars, verifyVars, SameIntent, Confirmed,
     Verifiers, VerifiersTyped, RowsTyped, VerifyReturns, VerifyThrows
<1> QED BY <1>1, <1>2

LEMMA IndexKnownSettled ==
  ASSUME TypeInv, SettlementInv, NEW h \in Hashes, IndexKnown(h)
  PROVE  SettlementInv'
<1> USE DEF TypeInv, TypeOK, SettlementInv
<1>1. VerdictInv'
  BY DEF VerdictInv, IndexKnown, rowVars, chainVars, verifyVars, SameIntent, Confirmed,
     Verifiers, VerifiersTyped, RowsTyped
<1>2. OpenInv'
  BY DEF IndexKnown, OpenInv, rowVars, RowsTyped, HashInv, NoHash, Hashes
<1>3. JobInv'
  BY DEF IndexKnown, JobInv, rowVars, chainVars, JobsTyped, Job, NoJob, RowsTyped,
     ChainTyped, Running, RowFree, HashInv, NoHash, Hashes
<1>4. HashInv'
  BY DEF IndexKnown, HashInv, rowVars, chainVars, RowsTyped, ChainTyped, NextRelease
<1>5. IndexInv'
  BY DEF IndexKnown, IndexInv, indexVars, chainVars, IsRelease, IndexTyped, ChainTyped,
     Idx, IdxIdle, NextRelease
<1> QED BY <1>1, <1>2, <1>3, <1>4, <1>5

LEMMA IndexReadSettled ==
  ASSUME TypeInv, SettlementInv, NEW h \in Hashes, IndexRead(h)
  PROVE  SettlementInv'
<1> USE DEF TypeInv, TypeOK, SettlementInv
<1>1. OpenInv' /\ JobInv' /\ HashInv' /\ VerdictInv'
  BY DEF OpenInv, JobInv, HashInv, VerdictInv, IndexRead, rowVars, chainVars, verifyVars,
     SameIntent, Confirmed, Verifiers, VerifiersTyped, RowsTyped
<1>2. IndexInv'
  BY DEF IndexRead, IndexInv, indexVars, chainVars, IsRelease, IndexTyped, ChainTyped, Idx,
     IdxIdle, NextRelease
<1> QED BY <1>1, <1>2

LEMMA IndexConfirmIntentSettled ==
  ASSUME TypeInv, SettlementInv, NEW i \in Investments, IndexConfirmIntent(i)
  PROVE  SettlementInv'
<1> USE DEF TypeInv, TypeOK, SettlementInv
<1>1. OpenInv'
  BY DEF IndexConfirmIntent, OpenInv, rowVars, PendingIntents, RowsTyped
<1>2. JobInv'
  BY DEF IndexConfirmIntent, JobInv, rowVars, chainVars, JobsTyped, Job, NoJob, RowsTyped,
     ChainTyped, Running, PendingIntents, RowFree
<1>3. HashInv'
  BY DEF IndexConfirmIntent, HashInv, rowVars, chainVars, RowsTyped, ChainTyped,
     PendingIntents, IndexInv, IsRelease
<1>4. VerdictInv'
  BY DEF IndexConfirmIntent, VerdictInv, rowVars, chainVars, verifyVars, SameIntent,
     Confirmed, Verifiers, VerifiersTyped, RowsTyped, PendingIntents, HashInv
<1>5. IndexInv'
  BY DEF IndexConfirmIntent, IndexInv, indexVars, chainVars, IsRelease, IndexTyped,
     ChainTyped, Idx, IdxIdle
<1> QED BY <1>1, <1>2, <1>3, <1>4, <1>5

LEMMA IndexSelfHealSettled ==
  ASSUME TypeInv, SettlementInv, IndexSelfHeal
  PROVE  SettlementInv'
<1> USE DEF TypeInv, TypeOK, SettlementInv
<1>1. OpenInv' /\ JobInv' /\ HashInv' /\ VerdictInv'
  BY DEF OpenInv, JobInv, HashInv, VerdictInv, IndexSelfHeal, rowVars, chainVars,
     verifyVars, SameIntent, Confirmed, Verifiers, VerifiersTyped, RowsTyped
<1>2. IndexInv'
  BY DEF IndexSelfHeal, IndexInv, indexVars, chainVars, IsRelease, IndexTyped, ChainTyped,
     Idx, IdxIdle
<1> QED BY <1>1, <1>2

LEMMA IndexSwallowSettled ==
  ASSUME TypeInv, SettlementInv, IndexSwallow
  PROVE  SettlementInv'
<1> USE DEF TypeInv, TypeOK, SettlementInv
<1>1. OpenInv' /\ JobInv' /\ HashInv' /\ VerdictInv'
  BY DEF OpenInv, JobInv, HashInv, VerdictInv, IndexSwallow, rowVars, chainVars,
     verifyVars, SameIntent, Confirmed, Verifiers, VerifiersTyped, RowsTyped
<1>2. IndexInv'
  BY DEF IndexSwallow, IndexInv, indexVars, chainVars, IsRelease, IndexTyped, ChainTyped,
     Idx, IdxIdle
<1> QED BY <1>1, <1>2

LEMMA IndexCheckpointSettled ==
  ASSUME TypeInv, SettlementInv, IndexCheckpoint
  PROVE  SettlementInv'
<1> USE DEF TypeInv, TypeOK, SettlementInv
<1>1. OpenInv' /\ JobInv' /\ HashInv' /\ VerdictInv'
  BY DEF OpenInv, JobInv, HashInv, VerdictInv, IndexCheckpoint, rowVars, chainVars,
     verifyVars, SameIntent, Confirmed, Verifiers, VerifiersTyped, RowsTyped
<1>2. IndexInv'
  BY DEF IndexCheckpoint, IndexInv, indexVars, chainVars, IsRelease, IndexTyped,
     ChainTyped, Idx, IdxIdle
<1> QED BY <1>1, <1>2

LEMMA IndexCrashSettled ==
  ASSUME TypeInv, SettlementInv, IndexCrash
  PROVE  SettlementInv'
<1> USE DEF TypeInv, TypeOK, SettlementInv
<1>1. OpenInv' /\ JobInv' /\ HashInv' /\ VerdictInv'
  BY DEF OpenInv, JobInv, HashInv, VerdictInv, IndexCrash, rowVars, chainVars, verifyVars,
     SameIntent, Confirmed, Verifiers, VerifiersTyped, RowsTyped
<1>2. IndexInv'
  BY DEF IndexCrash, IndexInv, indexVars, chainVars, IsRelease, IndexTyped, ChainTyped,
     Idx, IdxIdle
<1> QED BY <1>1, <1>2

-----------------------------------------------------------------------------
(* Every step keeps them *)

LEMMA InvariantStep ==
  ASSUME TypeInv, SettlementInv, [Next]_vars
  PROVE  TypeInv' /\ SettlementInv'
<1>1. ASSUME NEW i \in Investments, CreateInvestmentOpen(i)
      PROVE  TypeInv' /\ SettlementInv'
  BY <1>1, CreateInvestmentOpenTyped, CreateInvestmentOpenSettled
<1>2. ASSUME NEW i \in Investments, CreateInvestmentCommit(i)
      PROVE  TypeInv' /\ SettlementInv'
  BY <1>2, CreateInvestmentCommitTyped, CreateInvestmentCommitSettled
<1>3. ASSUME NEW i \in Investments, CreateInvestmentRollback(i)
      PROVE  TypeInv' /\ SettlementInv'
  BY <1>3, CreateInvestmentRollbackTyped, CreateInvestmentRollbackSettled
<1>4. ASSUME NEW i \in Investments, CreateInvestmentIntent(i)
      PROVE  TypeInv' /\ SettlementInv'
  BY <1>4, CreateInvestmentIntentTyped, CreateInvestmentIntentSettled
<1>5. ASSUME NEW k \in AdminJobs, NEW i \in Investments, ConfirmInvestment(k, i)
      PROVE  TypeInv' /\ SettlementInv'
  BY <1>5, ConfirmInvestmentTyped, ConfirmInvestmentSettled
<1>6. ASSUME NEW i \in Investments, SignDeposit(i)
      PROVE  TypeInv' /\ SettlementInv'
  BY <1>6, SignDepositTyped, SignDepositSettled
<1>7. ASSUME NEW i \in Investments, NEW h \in Hashes, SubmitOnChainTransaction(i, h)
      PROVE  TypeInv' /\ SettlementInv'
  BY <1>7, SubmitOnChainTransactionTyped, SubmitOnChainTransactionSettled
<1>8. ASSUME NEW k \in JobIds, JobStart(k)
      PROVE  TypeInv' /\ SettlementInv'
  BY <1>8, JobStartTyped, JobStartSettled
<1>9. ASSUME NEW k \in JobIds, ExecuteBlockchainTransfer(k)
      PROVE  TypeInv' /\ SettlementInv'
  BY <1>9, ExecuteBlockchainTransferTyped, ExecuteBlockchainTransferSettled
<1>10. ASSUME NEW k \in JobIds, TransferReplyLost(k)
      PROVE  TypeInv' /\ SettlementInv'
  BY <1>10, TransferReplyLostTyped, TransferReplyLostSettled
<1>11. ASSUME NEW k \in JobIds, TransferRefused(k)
      PROVE  TypeInv' /\ SettlementInv'
  BY <1>11, TransferRefusedTyped, TransferRefusedSettled
<1>12. ASSUME NEW k \in JobIds, FinalizeTokenizationLock(k)
      PROVE  TypeInv' /\ SettlementInv'
  BY <1>12, FinalizeTokenizationLockTyped, FinalizeTokenizationLockSettled
<1>13. ASSUME NEW k \in JobIds, FinalizeTokenizationCommit(k)
      PROVE  TypeInv' /\ SettlementInv'
  BY <1>13, FinalizeTokenizationCommitTyped, FinalizeTokenizationCommitSettled
<1>14. ASSUME NEW k \in JobIds, FinalizeTokenizationRollback(k)
      PROVE  TypeInv' /\ SettlementInv'
  BY <1>14, FinalizeTokenizationRollbackTyped, FinalizeTokenizationRollbackSettled
<1>15. ASSUME NEW k \in JobIds, HandleFailure(k)
      PROVE  TypeInv' /\ SettlementInv'
  BY <1>15, HandleFailureTyped, HandleFailureSettled
<1>16. ASSUME NEW k \in JobIds, HandleFailureThrows(k)
      PROVE  TypeInv' /\ SettlementInv'
  BY <1>16, HandleFailureThrowsTyped, HandleFailureThrowsSettled
<1>17. ASSUME NEW k \in JobIds, WorkerCrash(k)
      PROVE  TypeInv' /\ SettlementInv'
  BY <1>17, WorkerCrashTyped, WorkerCrashSettled
<1>18. ASSUME NEW i \in Investments, SubmitEnqueue(i)
      PROVE  TypeInv' /\ SettlementInv'
  BY <1>18, SubmitEnqueueTyped, SubmitEnqueueSettled
<1>19. ASSUME NEW w \in Verifiers, NEW propagated \in BOOLEAN, VerifyRead(w, propagated)
      PROVE  TypeInv' /\ SettlementInv'
  BY <1>19, VerifyReadTyped, VerifyReadSettled
<1>20. ASSUME NEW w \in Verifiers, FailVerification(w)
      PROVE  TypeInv' /\ SettlementInv'
  BY <1>20, FailVerificationTyped, FailVerificationSettled
<1>21. ASSUME NEW w \in Verifiers, FinalizeVerified(w)
      PROVE  TypeInv' /\ SettlementInv'
  BY <1>21, FinalizeVerifiedTyped, FinalizeVerifiedSettled
<1>22. ASSUME NEW w \in Verifiers, FinalizeVerifiedRefused(w)
      PROVE  TypeInv' /\ SettlementInv'
  BY <1>22, FinalizeVerifiedRefusedTyped, FinalizeVerifiedRefusedSettled
<1>23. ASSUME NEW w \in Verifiers, VerifierCrash(w)
      PROVE  TypeInv' /\ SettlementInv'
  BY <1>23, VerifierCrashTyped, VerifierCrashSettled
<1>24. ASSUME NEW h \in Hashes, IndexKnown(h)
      PROVE  TypeInv' /\ SettlementInv'
  BY <1>24, IndexKnownTyped, IndexKnownSettled
<1>25. ASSUME NEW h \in Hashes, IndexRead(h)
      PROVE  TypeInv' /\ SettlementInv'
  BY <1>25, IndexReadTyped, IndexReadSettled
<1>26. ASSUME NEW i \in Investments, IndexConfirmIntent(i)
      PROVE  TypeInv' /\ SettlementInv'
  BY <1>26, IndexConfirmIntentTyped, IndexConfirmIntentSettled DEF SettlementInv
<1>27. ASSUME IndexSelfHeal
      PROVE  TypeInv' /\ SettlementInv'
  BY <1>27, IndexSelfHealTyped, IndexSelfHealSettled DEF SettlementInv
<1>28. ASSUME IndexSwallow
      PROVE  TypeInv' /\ SettlementInv'
  BY <1>28, IndexSwallowTyped, IndexSwallowSettled
<1>29. ASSUME IndexCheckpoint
      PROVE  TypeInv' /\ SettlementInv'
  BY <1>29, IndexCheckpointTyped, IndexCheckpointSettled DEF SettlementInv
<1>30. ASSUME IndexCrash
      PROVE  TypeInv' /\ SettlementInv'
  BY <1>30, IndexCrashTyped, IndexCrashSettled
<1>31. ASSUME NEW h \in Hashes, NEW result \in {"ok", "reverted", "mismatch"}, Mine(h, result)
      PROVE  TypeInv' /\ SettlementInv'
  BY <1>31, MineTyped, MineSettled
<1>32. ASSUME NEW h \in Hashes, NewBlock(h)
      PROVE  TypeInv' /\ SettlementInv'
  BY <1>32, NewBlockTyped, NewBlockSettled
<1>33. CASE UNCHANGED vars
  BY <1>33 DEF vars, rowVars, assetVars, moneyVars, chainVars, indexVars, verifyVars,
     ghostVars,
     TypeInv, TypeOK, RowsTyped, AssetTyped, JobsTyped, VerifiersTyped, IndexTyped, ChainTyped,
     GhostsTyped, CreationInv, TriesLive, SettlementInv, OpenInv, JobInv, HashInv,
     VerdictInv, SameIntent, Confirmed, IndexInv, IsRelease
<1> QED BY <1>1, <1>2, <1>3, <1>4, <1>5, <1>6, <1>7, <1>8, <1>9, <1>10, <1>11, <1>12, <1>13,
     <1>14, <1>15, <1>16, <1>17, <1>18, <1>19, <1>20, <1>21, <1>22, <1>23, <1>24, <1>25, <1>26,
     <1>27, <1>28, <1>29, <1>30, <1>31, <1>32, <1>33 DEF Next, ClientStep, CreationEnds,
     WorkerStep, WorkerFault, VerifierStep, IndexerStep, ChainStep, Verifiers, JobIds

\* Type correctness, with the token lock and the attempts left: no handler
\* takes availableShares, a balance or an attempt counter out of its range.
THEOREM TypeCorrect == Spec => []TypeInv
<1>1. Init => TypeInv /\ SettlementInv
  BY InitTypeInv, InitSettlementInv
<1>2. TypeInv /\ SettlementInv /\ [Next]_vars => TypeInv' /\ SettlementInv'
  BY InvariantStep
<1> QED BY <1>1, <1>2, PTL DEF Spec

\* What workers, verifiers and the indexer rely on between two of their steps.
THEOREM SettlementSafe == Spec => []SettlementInv
<1>1. Init => TypeInv /\ SettlementInv
  BY InitTypeInv, InitSettlementInv
<1>2. TypeInv /\ SettlementInv /\ [Next]_vars => TypeInv' /\ SettlementInv'
  BY InvariantStep
<1> QED BY <1>1, <1>2, PTL DEF Spec

-----------------------------------------------------------------------------
(* What the steps do to rows *)

\* The steps that change a row or what has been done for it.
RowSteps ==
  \/ \E i \in Investments : CreateInvestmentCommit(i)
  \/ \E i \in Investments : CreateInvestmentIntent(i)
  \/ \E i \in Investments, h \in Hashes : SubmitOnChainTransaction(i, h)
  \/ \E k \in JobIds : FinalizeTokenizationCommit(k)
  \/ \E k \in JobIds : HandleFailure(k)
  \/ \E w \in Verifiers : FailVerification(w)
  \/ \E w \in Verifiers : FinalizeVerified(w)
  \/ \E h \in Hashes : IndexKnown(h)
  \/ \E i \in Investments : IndexConfirmIntent(i)

RowsKept == UNCHANGED <<status, mode, txHash, returned, paid, creditUnits>>

LEMMA RowStepsOnly ==
  ASSUME [Next]_vars, ~RowSteps
  PROVE  RowsKept
<1>1. ASSUME NEW i \in Investments, CreateInvestmentOpen(i)
      PROVE  RowsKept
  BY <1>1 DEF RowsKept, CreateInvestmentOpen, rowVars, ghostVars
<1>2. ASSUME NEW i \in Investments, CreateInvestmentRollback(i)
      PROVE  RowsKept
  BY <1>2 DEF RowsKept, CreateInvestmentRollback, rowVars, ghostVars
<1>3. ASSUME NEW k \in AdminJobs, NEW i \in Investments, ConfirmInvestment(k, i)
      PROVE  RowsKept
  BY <1>3 DEF RowsKept, ConfirmInvestment, rowVars, ghostVars
<1>4. ASSUME NEW i \in Investments, SignDeposit(i)
      PROVE  RowsKept
  BY <1>4 DEF RowsKept, SignDeposit, rowVars, ghostVars
<1>5. ASSUME NEW k \in JobIds, JobStart(k)
      PROVE  RowsKept
  BY <1>5 DEF RowsKept, JobStart, rowVars, ghostVars
<1>6. ASSUME NEW k \in JobIds, ExecuteBlockchainTransfer(k)
      PROVE  RowsKept
  BY <1>6 DEF RowsKept, ExecuteBlockchainTransfer, rowVars, ghostVars
<1>7. ASSUME NEW k \in JobIds, TransferReplyLost(k)
      PROVE  RowsKept
  BY <1>7 DEF RowsKept, TransferReplyLost, rowVars, ghostVars
<1>8. ASSUME NEW k \in JobIds, TransferRefused(k)
      PROVE  RowsKept
  BY <1>8 DEF RowsKept, TransferRefused, rowVars, ghostVars
<1>9. ASSUME NEW k \in JobIds, FinalizeTokenizationLock(k)
      PROVE  RowsKept
  BY <1>9 DEF RowsKept, FinalizeTokenizationLock, rowVars, ghostVars
<1>10. ASSUME NEW k \in JobIds, FinalizeTokenizationRollback(k)
      PROVE  RowsKept
  BY <1>10 DEF RowsKept, FinalizeTokenizationRollback, rowVars, ghostVars
<1>11. ASSUME NEW k \in JobIds, HandleFailureThrows(k)
      PROVE  RowsKept
  BY <1>11 DEF RowsKept, HandleFailureThrows, rowVars, ghostVars
<1>12. ASSUME NEW k \in JobIds, WorkerCrash(k)
      PROVE  RowsKept
  BY <1>12 DEF RowsKept, WorkerCrash, rowVars, ghostVars
<1>13. ASSUME NEW i \in Investments, SubmitEnqueue(i)
      PROVE  RowsKept
  BY <1>13 DEF RowsKept, SubmitEnqueue, rowVars, ghostVars
<1>14. ASSUME NEW w \in Verifiers, NEW propagated \in BOOLEAN, VerifyRead(w, propagated)
      PROVE  RowsKept
  BY <1>14 DEF RowsKept, VerifyRead, rowVars, ghostVars
<1>15. ASSUME NEW w \in Verifiers, FinalizeVerifiedRefused(w)
      PROVE  RowsKept
  BY <1>15 DEF RowsKept, FinalizeVerifiedRefused, rowVars, ghostVars
<1>16. ASSUME NEW w \in Verifiers, VerifierCrash(w)
      PROVE  RowsKept
  BY <1>16 DEF RowsKept, VerifierCrash, rowVars, ghostVars
<1>17. ASSUME NEW h \in Hashes, IndexRead(h)
      PROVE  RowsKept
  BY <1>17 DEF RowsKept, IndexRead, rowVars, ghostVars
<1>18. ASSUME IndexSelfHeal
      PROVE  RowsKept
  BY <1>18 DEF RowsKept, IndexSelfHeal, rowVars, ghostVars
<1>19. ASSUME IndexSwallow
      PROVE  RowsKept
  BY <1>19 DEF RowsKept, IndexSwallow, rowVars, ghostVars
<1>20. ASSUME IndexCheckpoint
      PROVE  RowsKept
  BY <1>20 DEF RowsKept, IndexCheckpoint, rowVars, ghostVars
<1>21. ASSUME IndexCrash
      PROVE  RowsKept
  BY <1>21 DEF RowsKept, IndexCrash, rowVars, ghostVars
<1>22. ASSUME NEW h \in Hashes, NEW result \in {"ok", "reverted", "mismatch"}, Mine(h, result)
      PROVE  RowsKept
  BY <1>22 DEF RowsKept, Mine, rowVars, ghostVars
<1>23. ASSUME NEW h \in Hashes, NewBlock(h)
      PROVE  RowsKept
  BY <1>23 DEF RowsKept, NewBlock, rowVars, ghostVars
<1>24. CASE UNCHANGED vars
  BY <1>24 DEF RowsKept, vars, rowVars, ghostVars
<1> QED BY <1>1, <1>2, <1>3, <1>4, <1>5, <1>6, <1>7, <1>8, <1>9, <1>10, <1>11, <1>12, <1>13,
     <1>14, <1>15, <1>16, <1>17, <1>18, <1>19, <1>20, <1>21, <1>22, <1>23, <1>24 DEF RowSteps,
     Next, ClientStep, CreationEnds, WorkerStep, WorkerFault, VerifierStep, IndexerStep,
     ChainStep, Verifiers, JobIds

\* Releases and buried deposits do not change.
Evidence(h) ==
  \/ chain[h].kind = "release"
  \/ chain[h].kind = "deposit" /\ chain[h].result = "ok" /\ Confirmed(h)
EvidenceKept == \A h \in Hashes : Evidence(h) => chain'[h] = chain[h]

LEMMA EvidenceStays ==
  ASSUME TypeInv, [Next]_vars
  PROVE  EvidenceKept
<1> USE DEF TypeInv, TypeOK
<1>1. ASSUME NEW i \in Investments, CreateInvestmentOpen(i)
      PROVE  EvidenceKept
  BY <1>1 DEF EvidenceKept, CreateInvestmentOpen, chainVars
<1>2. ASSUME NEW i \in Investments, CreateInvestmentCommit(i)
      PROVE  EvidenceKept
  BY <1>2 DEF EvidenceKept, CreateInvestmentCommit, chainVars
<1>3. ASSUME NEW i \in Investments, CreateInvestmentRollback(i)
      PROVE  EvidenceKept
  BY <1>3 DEF EvidenceKept, CreateInvestmentRollback, chainVars
<1>4. ASSUME NEW i \in Investments, CreateInvestmentIntent(i)
      PROVE  EvidenceKept
  BY <1>4 DEF EvidenceKept, CreateInvestmentIntent, chainVars
<1>5. ASSUME NEW k \in AdminJobs, NEW i \in Investments, ConfirmInvestment(k, i)
      PROVE  EvidenceKept
  BY <1>5 DEF EvidenceKept, ConfirmInvestment, chainVars
<1>6. ASSUME NEW i \in Investments, SignDeposit(i)
      PROVE  EvidenceKept
  <2>1. \A h \in Hashes : chain[h].kind # "none" => h # txCount + 1
    BY ConstantTypes DEF ChainTyped, Hashes
  <2>2. \A h \in Hashes : h # txCount + 1 => chain'[h] = chain[h]
    BY <1>6 DEF SignDeposit, ChainTyped
  <2> QED BY <2>1, <2>2 DEF EvidenceKept, Evidence
<1>7. ASSUME NEW i \in Investments, NEW h \in Hashes, SubmitOnChainTransaction(i, h)
      PROVE  EvidenceKept
  BY <1>7 DEF EvidenceKept, SubmitOnChainTransaction, chainVars
<1>8. ASSUME NEW k \in JobIds, JobStart(k)
      PROVE  EvidenceKept
  BY <1>8 DEF EvidenceKept, JobStart, chainVars
<1>9. ASSUME NEW k \in JobIds, ExecuteBlockchainTransfer(k)
      PROVE  EvidenceKept
  BY <1>9, ConstantTypes DEF EvidenceKept, Evidence, ExecuteBlockchainTransfer, Release,
     ChainTyped, Hashes
<1>10. ASSUME NEW k \in JobIds, TransferReplyLost(k)
      PROVE  EvidenceKept
  BY <1>10, ConstantTypes DEF EvidenceKept, Evidence, TransferReplyLost, Release,
     ChainTyped, Hashes
<1>11. ASSUME NEW k \in JobIds, TransferRefused(k)
      PROVE  EvidenceKept
  BY <1>11 DEF EvidenceKept, TransferRefused, chainVars
<1>12. ASSUME NEW k \in JobIds, FinalizeTokenizationLock(k)
      PROVE  EvidenceKept
  BY <1>12 DEF EvidenceKept, FinalizeTokenizationLock, chainVars
<1>13. ASSUME NEW k \in JobIds, FinalizeTokenizationCommit(k)
      PROVE  EvidenceKept
  BY <1>13 DEF EvidenceKept, FinalizeTokenizationCommit, chainVars
<1>14. ASSUME NEW k \in JobIds, FinalizeTokenizationRollback(k)
      PROVE  EvidenceKept
  BY <1>14 DEF EvidenceKept, FinalizeTokenizationRollback, chainVars
<1>15. ASSUME NEW k \in JobIds, HandleFailure(k)
      PROVE  EvidenceKept
  BY <1>15 DEF EvidenceKept, HandleFailure, chainVars
<1>16. ASSUME NEW k \in JobIds, HandleFailureThrows(k)
      PROVE  EvidenceKept
  BY <1>16 DEF EvidenceKept, HandleFailureThrows, chainVars
<1>17. ASSUME NEW k \in JobIds, WorkerCrash(k)
      PROVE  EvidenceKept
  BY <1>17 DEF EvidenceKept, WorkerCrash, chainVars
<1>18. ASSUME NEW i \in Investments, SubmitEnqueue(i)
      PROVE  EvidenceKept
  BY <1>18 DEF EvidenceKept, SubmitEnqueue, chainVars
<1>19. ASSUME NEW w \in Verifiers, NEW propagated \in BOOLEAN, VerifyRead(w, propagated)
      PROVE  EvidenceKept
  BY <1>19 DEF EvidenceKept, VerifyRead, chainVars
<1>20. ASSUME NEW w \in Verifiers, FailVerification(w)
      PROVE  EvidenceKept
  BY <1>20 DEF EvidenceKept, FailVerification, chainVars
<1>21. ASSUME NEW w \in Verifiers, FinalizeVerified(w)
      PROVE  EvidenceKept
  BY <1>21 DEF EvidenceKept, FinalizeVerified, chainVars
<1>22. ASSUME NEW w \in Verifiers, FinalizeVerifiedRefused(w)
      PROVE  EvidenceKept
  BY <1>22 DEF EvidenceKept, FinalizeVerifiedRefused, chainVars
<1>23. ASSUME NEW w \in Verifiers, VerifierCrash(w)
      PROVE  EvidenceKept
  BY <1>23 DEF EvidenceKept, VerifierCrash, chainVars
<1>24. ASSUME NEW h \in Hashes, IndexKnown(h)
      PROVE  EvidenceKept
  BY <1>24 DEF EvidenceKept, IndexKnown, chainVars
<1>25. ASSUME NEW h \in Hashes, IndexRead(h)
      PROVE  EvidenceKept
  BY <1>25 DEF EvidenceKept, IndexRead, chainVars
<1>26. ASSUME NEW i \in Investments, IndexConfirmIntent(i)
      PROVE  EvidenceKept
  BY <1>26 DEF EvidenceKept, IndexConfirmIntent, chainVars
<1>27. ASSUME IndexSelfHeal
      PROVE  EvidenceKept
  BY <1>27 DEF EvidenceKept, IndexSelfHeal, chainVars
<1>28. ASSUME IndexSwallow
      PROVE  EvidenceKept
  BY <1>28 DEF EvidenceKept, IndexSwallow, chainVars
<1>29. ASSUME IndexCheckpoint
      PROVE  EvidenceKept
  BY <1>29 DEF EvidenceKept, IndexCheckpoint, chainVars
<1>30. ASSUME IndexCrash
      PROVE  EvidenceKept
  BY <1>30 DEF EvidenceKept, IndexCrash, chainVars
<1>31. ASSUME NEW h \in Hashes, NEW result \in {"ok", "reverted", "mismatch"}, Mine(h, result)
      PROVE  EvidenceKept
  BY <1>31, ConstantTypes DEF EvidenceKept, Evidence, Mine, ChainTyped, Tx, Confirmed
<1>32. ASSUME NEW h \in Hashes, NewBlock(h)
      PROVE  EvidenceKept
  BY <1>32, ConstantTypes DEF EvidenceKept, Evidence, NewBlock, ChainTyped, Tx, Confirmed
<1>33. CASE UNCHANGED vars
  BY <1>33 DEF EvidenceKept, vars, chainVars
<1> QED BY <1>1, <1>2, <1>3, <1>4, <1>5, <1>6, <1>7, <1>8, <1>9, <1>10, <1>11, <1>12, <1>13,
     <1>14, <1>15, <1>16, <1>17, <1>18, <1>19, <1>20, <1>21, <1>22, <1>23, <1>24, <1>25, <1>26,
     <1>27, <1>28, <1>29, <1>30, <1>31, <1>32, <1>33 DEF Next, ClientStep, CreationEnds,
     WorkerStep, WorkerFault, VerifierStep, IndexerStep, ChainStep, Verifiers, JobIds

-----------------------------------------------------------------------------
(* What becomes of an investment *)

\* A job about to commit holds an off-chain row that is not confirmed, and
\* the release made for it.
LEMMA CommitFacts ==
  ASSUME TypeInv, SettlementInv, NEW k \in JobIds, FinalizeTokenizationCommit(k)
  PROVE  LET i == job[k].inv IN
         /\ i \in Investments /\ mode[i] = "OFF_CHAIN"
         /\ status[i] \notin {"NONE", "CONFIRMED"}
         /\ job[k].hash \in Hashes /\ job[k].hash # NoHash
         /\ chain[job[k].hash].kind = "release" /\ chain[job[k].hash].inv = i
BY DEF TypeInv, TypeOK, JobsTyped, SettlementInv, JobInv, FinalizeTokenizationCommit,
     Hashes, NoHash

\* A verifier about to finalize holds an on-chain row and its good deposit.
LEMMA VerdictFacts ==
  ASSUME TypeInv, SettlementInv, NEW w \in Verifiers, verifier[w] = "finalize"
  PROVE  LET i == w[1] IN
         /\ i \in Investments /\ mode[i] = "ON_CHAIN" /\ status[i] # "NONE"
         /\ txHash[i] \in Hashes
         /\ SameIntent(i, txHash[i]) /\ chain[txHash[i]].result = "ok" /\ Confirmed(txHash[i])
BY DEF TypeInv, TypeOK, RowsTyped, Verifiers, SettlementInv, VerdictInv, HashInv

\* An indexer about to confirm an intent works on a release to its owner.
LEMMA IntentFacts ==
  ASSUME TypeInv, SettlementInv, NEW i \in Investments, IndexConfirmIntent(i)
  PROVE  /\ idx.hash \in Hashes /\ chain[idx.hash].kind = "release"
         /\ chain[idx.hash].inv \in Investments /\ Owner[chain[idx.hash].inv] = Owner[i]
         /\ mode[i] = "ON_CHAIN" /\ status[i] = "PENDING"
         /\ RawUnits(idx.hash) \in Nat /\ RawUnits(idx.hash) > 0
<1>1. idx.hash \in Hashes /\ chain[idx.hash].kind = "release"
  BY DEF SettlementInv, IndexInv, IsRelease, IndexConfirmIntent
<1>2. chain[idx.hash].inv \in Investments
  BY <1>1 DEF TypeInv, TypeOK, ChainTyped
<1> QED BY <1>1, <1>2, CostType DEF TypeInv, TypeOK, IndexConfirmIntent, PendingIntents, Recipient

\* The indexer meets no row with the hash of a release that is not confirmed.
LEMMA KnownFacts ==
  ASSUME TypeInv, SettlementInv, NEW h \in Hashes, IndexKnown(h)
  PROVE  RowsKept
<1>1. ASSUME NEW i \in Investments, txHash[i] = h PROVE status[i] = "CONFIRMED"
  BY <1>1 DEF SettlementInv, HashInv, IndexKnown, NextRelease, IsRelease, Hashes, NoHash
<1>2. status' = status
  BY <1>1 DEF IndexKnown, TypeInv, TypeOK, RowsTyped
<1> QED BY <1>2 DEF RowsKept, IndexKnown, ghostVars

LEMMA ReservationStep ==
  ASSUME TypeInv, SettlementInv, ReservationInv, [Next]_vars
  PROVE  ReservationInv'
<1> USE DEF TypeInv, TypeOK, RowsTyped, GhostsTyped
<1>0. RowsKept => ReservationInv'
  BY DEF RowsKept, ReservationInv
<1>1. ASSUME NEW i \in Investments, CreateInvestmentCommit(i)
      PROVE  ReservationInv'
  BY <1>1, ConstantTypes DEF ReservationInv, CreateInvestmentCommit, SettlementInv, OpenInv,
     ghostVars, chainVars
<1>2. ASSUME NEW i \in Investments, CreateInvestmentIntent(i)
      PROVE  ReservationInv'
  BY <1>2, ConstantTypes DEF ReservationInv, CreateInvestmentIntent, Fresh, ghostVars,
     chainVars
<1>3. ASSUME NEW i \in Investments, NEW h \in Hashes, SubmitOnChainTransaction(i, h)
      PROVE  ReservationInv'
  BY <1>3, ConstantTypes DEF ReservationInv, SubmitOnChainTransaction, Bindable, Settled,
     ghostVars, chainVars, Status
<1>4. ASSUME NEW k \in JobIds, FinalizeTokenizationCommit(k)
      PROVE  ReservationInv'
  BY <1>4, CommitFacts, ConstantTypes DEF ReservationInv, FinalizeTokenizationCommit,
     Transfer,
     AddShares, chainVars
<1>5. ASSUME NEW k \in JobIds, HandleFailure(k)
      PROVE  ReservationInv'
  BY <1>5, ConstantTypes DEF ReservationInv, HandleFailure, HandleInvestmentFailure,
     Returnable, JobsTyped, chainVars
<1>6. ASSUME NEW w \in Verifiers, FailVerification(w)
      PROVE  ReservationInv'
  BY <1>6, ConstantTypes DEF ReservationInv, FailVerification, HandleInvestmentFailure,
     Returnable, Verifiers, chainVars
<1>7. ASSUME NEW w \in Verifiers, FinalizeVerified(w)
      PROVE  ReservationInv'
  BY <1>7, VerdictFacts, ConstantTypes DEF ReservationInv, FinalizeVerified, AddShares,
     Settled, Verifiers, chainVars
<1>8. ASSUME NEW h \in Hashes, IndexKnown(h)
      PROVE  ReservationInv'
  BY <1>8, KnownFacts, <1>0
<1>9. ASSUME NEW i \in Investments, IndexConfirmIntent(i)
      PROVE  ReservationInv'
  BY <1>9, IntentFacts, ConstantTypes DEF ReservationInv, IndexConfirmIntent,
     ProcessAssetMutation, chainVars
<1> QED BY <1>0, <1>1, <1>2, <1>3, <1>4, <1>5, <1>6, <1>7, <1>8, <1>9, RowStepsOnly DEF
     RowSteps

LEMMA PaidStep ==
  ASSUME TypeInv, SettlementInv, PaidIffConfirmed, [Next]_vars
  PROVE  PaidIffConfirmed'
<1> USE DEF TypeInv, TypeOK, RowsTyped, GhostsTyped
<1>0. RowsKept => PaidIffConfirmed'
  BY DEF RowsKept, PaidIffConfirmed
<1>1. ASSUME NEW i \in Investments, CreateInvestmentCommit(i)
      PROVE  PaidIffConfirmed'
  BY <1>1, ConstantTypes DEF PaidIffConfirmed, CreateInvestmentCommit, SettlementInv,
     OpenInv,
     ghostVars, chainVars
<1>2. ASSUME NEW i \in Investments, CreateInvestmentIntent(i)
      PROVE  PaidIffConfirmed'
  BY <1>2, ConstantTypes DEF PaidIffConfirmed, CreateInvestmentIntent, Fresh, ghostVars,
     chainVars
<1>3. ASSUME NEW i \in Investments, NEW h \in Hashes, SubmitOnChainTransaction(i, h)
      PROVE  PaidIffConfirmed'
  BY <1>3, ConstantTypes DEF PaidIffConfirmed, SubmitOnChainTransaction, Bindable, Settled,
     ghostVars, chainVars
<1>4. ASSUME NEW k \in JobIds, FinalizeTokenizationCommit(k)
      PROVE  PaidIffConfirmed'
  <2> DEFINE i == job[k].inv
  <2>1. i \in Investments /\ mode[i] = "OFF_CHAIN" /\ status[i] # "CONFIRMED"
    BY <1>4, CommitFacts
  <2>2. paid[i] = 0
    BY <2>1 DEF PaidIffConfirmed
  <2>3. /\ paid' = [paid EXCEPT ![i] = @ + 1]
        /\ status' = [status EXCEPT ![i] = "CONFIRMED"]
        /\ mode' = mode
    BY <1>4 DEF FinalizeTokenizationCommit, Transfer
  <2> HIDE DEF i
  <2>4. paid'[i] = 1 /\ \A j \in Investments \ {i} : paid'[j] = paid[j]
    BY <2>1, <2>2, <2>3
  <2> QED BY <2>1, <2>3, <2>4 DEF PaidIffConfirmed
<1>5. ASSUME NEW k \in JobIds, HandleFailure(k)
      PROVE  PaidIffConfirmed'
  BY <1>5, ConstantTypes DEF PaidIffConfirmed, HandleFailure, HandleInvestmentFailure,
     Returnable, JobsTyped, chainVars
<1>6. ASSUME NEW w \in Verifiers, FailVerification(w)
      PROVE  PaidIffConfirmed'
  BY <1>6, ConstantTypes DEF PaidIffConfirmed, FailVerification, HandleInvestmentFailure,
     Returnable, Verifiers, chainVars
<1>7. ASSUME NEW w \in Verifiers, FinalizeVerified(w)
      PROVE  PaidIffConfirmed'
  BY <1>7, VerdictFacts, ConstantTypes DEF PaidIffConfirmed, FinalizeVerified, AddShares,
     Settled, Verifiers, chainVars
<1>8. ASSUME NEW h \in Hashes, IndexKnown(h)
      PROVE  PaidIffConfirmed'
  BY <1>8, KnownFacts, <1>0
<1>9. ASSUME NEW i \in Investments, IndexConfirmIntent(i)
      PROVE  PaidIffConfirmed'
  BY <1>9, IntentFacts, ConstantTypes DEF PaidIffConfirmed, IndexConfirmIntent,
     ProcessAssetMutation, chainVars
<1> QED BY <1>0, <1>1, <1>2, <1>3, <1>4, <1>5, <1>6, <1>7, <1>8, <1>9, RowStepsOnly DEF
     RowSteps

LEMMA CreditedStep ==
  ASSUME TypeInv, SettlementInv, CreditedIffConfirmed, [Next]_vars
  PROVE  CreditedIffConfirmed'
<1> USE DEF TypeInv, TypeOK, RowsTyped, GhostsTyped
<1>0. RowsKept => CreditedIffConfirmed'
  BY DEF RowsKept, CreditedIffConfirmed
<1>1. ASSUME NEW i \in Investments, CreateInvestmentCommit(i)
      PROVE  CreditedIffConfirmed'
  BY <1>1, ConstantTypes DEF CreditedIffConfirmed, CreateInvestmentCommit, SettlementInv,
     OpenInv, ghostVars, chainVars
<1>2. ASSUME NEW i \in Investments, CreateInvestmentIntent(i)
      PROVE  CreditedIffConfirmed'
  BY <1>2, ConstantTypes DEF CreditedIffConfirmed, CreateInvestmentIntent, Fresh, ghostVars,
     chainVars
<1>3. ASSUME NEW i \in Investments, NEW h \in Hashes, SubmitOnChainTransaction(i, h)
      PROVE  CreditedIffConfirmed'
  BY <1>3, ConstantTypes DEF CreditedIffConfirmed, SubmitOnChainTransaction, Bindable,
     Settled,
     ghostVars, chainVars
<1>4. ASSUME NEW k \in JobIds, FinalizeTokenizationCommit(k)
      PROVE  CreditedIffConfirmed'
  BY <1>4, CommitFacts, ConstantTypes DEF CreditedIffConfirmed, FinalizeTokenizationCommit,
     Transfer, AddShares, chainVars
<1>5. ASSUME NEW k \in JobIds, HandleFailure(k)
      PROVE  CreditedIffConfirmed'
  BY <1>5, ConstantTypes DEF CreditedIffConfirmed, HandleFailure, HandleInvestmentFailure,
     Returnable, JobsTyped, chainVars
<1>6. ASSUME NEW w \in Verifiers, FailVerification(w)
      PROVE  CreditedIffConfirmed'
  BY <1>6, ConstantTypes DEF CreditedIffConfirmed, FailVerification,
     HandleInvestmentFailure,
     Returnable, Verifiers, chainVars
<1>7. ASSUME NEW w \in Verifiers, FinalizeVerified(w)
      PROVE  CreditedIffConfirmed'
  BY <1>7, VerdictFacts, ConstantTypes DEF CreditedIffConfirmed, FinalizeVerified,
     AddShares,
     Settled, Verifiers, chainVars
<1>8. ASSUME NEW h \in Hashes, IndexKnown(h)
      PROVE  CreditedIffConfirmed'
  BY <1>8, KnownFacts, <1>0
<1>9. ASSUME NEW i \in Investments, IndexConfirmIntent(i)
      PROVE  CreditedIffConfirmed'
  BY <1>9, IntentFacts, ConstantTypes DEF CreditedIffConfirmed, IndexConfirmIntent,
     ProcessAssetMutation, chainVars
<1> QED BY <1>0, <1>1, <1>2, <1>3, <1>4, <1>5, <1>6, <1>7, <1>8, <1>9, RowStepsOnly DEF
     RowSteps

LEMMA OffChainStep ==
  ASSUME TypeInv, SettlementInv, OffChainConfirmationHasRelease, [Next]_vars
  PROVE  OffChainConfirmationHasRelease'
<1> USE DEF TypeInv, TypeOK, RowsTyped, GhostsTyped
<1>0. RowsKept => OffChainConfirmationHasRelease'
  BY EvidenceStays DEF RowsKept, OffChainConfirmationHasRelease, EvidenceKept, Evidence
<1>1. ASSUME NEW i \in Investments, CreateInvestmentCommit(i)
      PROVE  OffChainConfirmationHasRelease'
  BY <1>1, ConstantTypes DEF OffChainConfirmationHasRelease, CreateInvestmentCommit,
     SettlementInv, OpenInv, ghostVars, chainVars
<1>2. ASSUME NEW i \in Investments, CreateInvestmentIntent(i)
      PROVE  OffChainConfirmationHasRelease'
  BY <1>2, ConstantTypes DEF OffChainConfirmationHasRelease, CreateInvestmentIntent, Fresh,
     ghostVars, chainVars
<1>3. ASSUME NEW i \in Investments, NEW h \in Hashes, SubmitOnChainTransaction(i, h)
      PROVE  OffChainConfirmationHasRelease'
  BY <1>3, ConstantTypes DEF OffChainConfirmationHasRelease, SubmitOnChainTransaction,
     Bindable, Settled, ghostVars, chainVars
<1>4. ASSUME NEW k \in JobIds, FinalizeTokenizationCommit(k)
      PROVE  OffChainConfirmationHasRelease'
  BY <1>4, CommitFacts, ConstantTypes DEF OffChainConfirmationHasRelease,
     FinalizeTokenizationCommit, Transfer, AddShares, chainVars
<1>5. ASSUME NEW k \in JobIds, HandleFailure(k)
      PROVE  OffChainConfirmationHasRelease'
  BY <1>5, ConstantTypes DEF OffChainConfirmationHasRelease, HandleFailure,
     HandleInvestmentFailure, Returnable, JobsTyped, chainVars
<1>6. ASSUME NEW w \in Verifiers, FailVerification(w)
      PROVE  OffChainConfirmationHasRelease'
  BY <1>6, ConstantTypes DEF OffChainConfirmationHasRelease, FailVerification,
     HandleInvestmentFailure, Returnable, Verifiers, chainVars
<1>7. ASSUME NEW w \in Verifiers, FinalizeVerified(w)
      PROVE  OffChainConfirmationHasRelease'
  BY <1>7, VerdictFacts, ConstantTypes DEF OffChainConfirmationHasRelease, FinalizeVerified,
     AddShares, Settled, Verifiers, chainVars
<1>8. ASSUME NEW h \in Hashes, IndexKnown(h)
      PROVE  OffChainConfirmationHasRelease'
  BY <1>8, KnownFacts, <1>0
<1>9. ASSUME NEW i \in Investments, IndexConfirmIntent(i)
      PROVE  OffChainConfirmationHasRelease'
  BY <1>9, IntentFacts, ConstantTypes DEF OffChainConfirmationHasRelease,
     IndexConfirmIntent,
     ProcessAssetMutation, chainVars
<1> QED BY <1>0, <1>1, <1>2, <1>3, <1>4, <1>5, <1>6, <1>7, <1>8, <1>9, RowStepsOnly DEF
     RowSteps

LEMMA OnChainStep ==
  ASSUME TypeInv, SettlementInv, OnChainConfirmationHasEvidence, [Next]_vars
  PROVE  OnChainConfirmationHasEvidence'
<1> USE DEF TypeInv, TypeOK, RowsTyped, GhostsTyped
<1>0. RowsKept => OnChainConfirmationHasEvidence'
  BY EvidenceStays DEF RowsKept, OnChainConfirmationHasEvidence, EvidenceKept, Evidence,
     Confirmed
<1>1. ASSUME NEW i \in Investments, CreateInvestmentCommit(i)
      PROVE  OnChainConfirmationHasEvidence'
  BY <1>1, ConstantTypes DEF OnChainConfirmationHasEvidence, CreateInvestmentCommit,
     SettlementInv, OpenInv, ghostVars, chainVars, SameIntent, Confirmed, ChainTyped
<1>2. ASSUME NEW i \in Investments, CreateInvestmentIntent(i)
      PROVE  OnChainConfirmationHasEvidence'
  BY <1>2, ConstantTypes DEF OnChainConfirmationHasEvidence, CreateInvestmentIntent, Fresh,
     ghostVars, chainVars, SameIntent, Confirmed, ChainTyped
<1>3. ASSUME NEW i \in Investments, NEW h \in Hashes, SubmitOnChainTransaction(i, h)
      PROVE  OnChainConfirmationHasEvidence'
  BY <1>3, ConstantTypes DEF OnChainConfirmationHasEvidence, SubmitOnChainTransaction,
     Bindable, Settled, ghostVars, chainVars, SameIntent, Confirmed, ChainTyped
<1>4. ASSUME NEW k \in JobIds, FinalizeTokenizationCommit(k)
      PROVE  OnChainConfirmationHasEvidence'
  BY <1>4, CommitFacts, ConstantTypes DEF OnChainConfirmationHasEvidence,
     FinalizeTokenizationCommit, Transfer, AddShares, chainVars, SameIntent, Confirmed,
     ChainTyped
<1>5. ASSUME NEW k \in JobIds, HandleFailure(k)
      PROVE  OnChainConfirmationHasEvidence'
  BY <1>5, ConstantTypes DEF OnChainConfirmationHasEvidence, HandleFailure,
     HandleInvestmentFailure, Returnable, JobsTyped, chainVars, SameIntent, Confirmed,
     ChainTyped
<1>6. ASSUME NEW w \in Verifiers, FailVerification(w)
      PROVE  OnChainConfirmationHasEvidence'
  BY <1>6, ConstantTypes DEF OnChainConfirmationHasEvidence, FailVerification,
     HandleInvestmentFailure, Returnable, Verifiers, chainVars, SameIntent, Confirmed,
     ChainTyped
<1>7. ASSUME NEW w \in Verifiers, FinalizeVerified(w)
      PROVE  OnChainConfirmationHasEvidence'
  <2> DEFINE i == w[1]
            h == txHash[i]
  <2>1. /\ i \in Investments /\ h \in Hashes
        /\ SameIntent(i, h) /\ chain[h].result = "ok" /\ Confirmed(h)
    BY <1>7, VerdictFacts DEF FinalizeVerified
  <2>2. /\ status' = [status EXCEPT ![i] = "CONFIRMED"]
        /\ UNCHANGED <<mode, txHash, chain>>
    BY <1>7 DEF FinalizeVerified, chainVars
  <2> HIDE DEF i, h
  <2>3. /\ chain[h].inv \in Investments /\ Owner[chain[h].inv] = Owner[i]
        /\ Amount[chain[h].inv] = Amount[i] /\ chain[h].kind = "deposit"
        /\ chain[h].conf >= Confirmations /\ h # NoHash /\ txHash[i] = h
    BY <2>1 DEF SameIntent, Confirmed, ChainTyped, Hashes, NoHash, h
  <2>4. \A j \in Investments \ {i} : status'[j] = status[j]
    BY <2>1, <2>2
  <2> QED BY <2>1, <2>2, <2>3, <2>4 DEF OnChainConfirmationHasEvidence
<1>8. ASSUME NEW h \in Hashes, IndexKnown(h)
      PROVE  OnChainConfirmationHasEvidence'
  BY <1>8, KnownFacts, <1>0
<1>9. ASSUME NEW i \in Investments, IndexConfirmIntent(i)
      PROVE  OnChainConfirmationHasEvidence'
  <2> DEFINE h == idx.hash
  <2>1. /\ h \in Hashes /\ h # NoHash /\ chain[h].kind = "release"
        /\ chain[h].inv \in Investments /\ Owner[chain[h].inv] = Owner[i]
    BY <1>9, IntentFacts DEF Hashes, NoHash
  <2>2. /\ status' = [status EXCEPT ![i] = "CONFIRMED"]
        /\ txHash' = [txHash EXCEPT ![i] = h]
        /\ UNCHANGED <<mode, chain>>
    BY <1>9 DEF IndexConfirmIntent, chainVars
  <2> HIDE DEF h
  <2>3. \A j \in Investments \ {i} : status'[j] = status[j] /\ txHash'[j] = txHash[j]
    BY <2>2
  <2>4. txHash'[i] = h
    BY <1>9, <2>2
  <2> QED BY <1>9, <2>1, <2>2, <2>3, <2>4 DEF OnChainConfirmationHasEvidence
<1> QED BY <1>0, <1>1, <1>2, <1>3, <1>4, <1>5, <1>6, <1>7, <1>8, <1>9, RowStepsOnly DEF
     RowSteps

\* A confirmed row keeps its status and its hash in this step.
ConfirmedKept ==
  \A j \in Investments :
    status[j] = "CONFIRMED" => status'[j] = "CONFIRMED" /\ txHash'[j] = txHash[j]

LEMMA FinalStep ==
  ASSUME TypeInv, SettlementInv, [Next]_vars
  PROVE  ConfirmedKept
<1> USE DEF TypeInv, TypeOK, RowsTyped, GhostsTyped
<1>0. RowsKept => ConfirmedKept
  BY DEF RowsKept, ConfirmedKept
<1>1. ASSUME NEW i \in Investments, CreateInvestmentCommit(i)
      PROVE  ConfirmedKept
  BY <1>1, ConstantTypes DEF ConfirmedKept, NoHash, CreateInvestmentCommit, SettlementInv,
     OpenInv, ghostVars,
     chainVars
<1>2. ASSUME NEW i \in Investments, CreateInvestmentIntent(i)
      PROVE  ConfirmedKept
  BY <1>2, ConstantTypes DEF ConfirmedKept, NoHash, CreateInvestmentIntent, Fresh,
     ghostVars, chainVars
<1>3. ASSUME NEW i \in Investments, NEW h \in Hashes, SubmitOnChainTransaction(i, h)
      PROVE  ConfirmedKept
  BY <1>3, ConstantTypes DEF ConfirmedKept, NoHash, SubmitOnChainTransaction, Bindable,
     Settled, ghostVars,
     chainVars
<1>4. ASSUME NEW k \in JobIds, FinalizeTokenizationCommit(k)
      PROVE  ConfirmedKept
  BY <1>4, CommitFacts, ConstantTypes DEF ConfirmedKept, NoHash,
     FinalizeTokenizationCommit, Transfer,
     AddShares, chainVars
<1>5. ASSUME NEW k \in JobIds, HandleFailure(k)
      PROVE  ConfirmedKept
  BY <1>5, ConstantTypes DEF ConfirmedKept, NoHash, HandleFailure, HandleInvestmentFailure,
     Returnable,
     JobsTyped, chainVars
<1>6. ASSUME NEW w \in Verifiers, FailVerification(w)
      PROVE  ConfirmedKept
  BY <1>6, ConstantTypes DEF ConfirmedKept, NoHash, FailVerification,
     HandleInvestmentFailure, Returnable,
     Verifiers, chainVars
<1>7. ASSUME NEW w \in Verifiers, FinalizeVerified(w)
      PROVE  ConfirmedKept
  BY <1>7, VerdictFacts, ConstantTypes DEF ConfirmedKept, NoHash, FinalizeVerified,
     AddShares, Settled,
     Verifiers, chainVars
<1>8. ASSUME NEW h \in Hashes, IndexKnown(h)
      PROVE  ConfirmedKept
  BY <1>8, KnownFacts, <1>0
<1>9. ASSUME NEW i \in Investments, IndexConfirmIntent(i)
      PROVE  ConfirmedKept
  BY <1>9, IntentFacts, ConstantTypes DEF ConfirmedKept, NoHash, IndexConfirmIntent,
     ProcessAssetMutation,
     chainVars
<1> QED BY <1>0, <1>1, <1>2, <1>3, <1>4, <1>5, <1>6, <1>7, <1>8, <1>9, RowStepsOnly DEF
     RowSteps

-----------------------------------------------------------------------------
(* What the steps do to the books *)

\* The steps that touch shares, money or the asset's totals.
LedgerSteps ==
  \/ \E i \in Investments : CreateInvestmentCommit(i)
  \/ \E i \in Investments : CreateInvestmentIntent(i)
  \/ \E k \in JobIds : FinalizeTokenizationCommit(k)
  \/ \E k \in JobIds : HandleFailure(k)
  \/ \E w \in Verifiers : FailVerification(w)
  \/ \E w \in Verifiers : FinalizeVerified(w)
  \/ \E i \in Investments : IndexConfirmIntent(i)
  \/ IndexSelfHeal

LedgerKept ==
  UNCHANGED <<avail, taken, owned, funded, investorCount, balance, partnerFunds, healed,
              returned, paid, creditUnits>>

LEMMA LedgerStepsOnly ==
  ASSUME [Next]_vars, ~LedgerSteps
  PROVE  LedgerKept
<1>1. ASSUME NEW i \in Investments, CreateInvestmentOpen(i)
      PROVE  LedgerKept
  BY <1>1 DEF LedgerKept, CreateInvestmentOpen, assetVars, moneyVars, indexVars, ghostVars
<1>2. ASSUME NEW i \in Investments, CreateInvestmentRollback(i)
      PROVE  LedgerKept
  BY <1>2 DEF LedgerKept, CreateInvestmentRollback, assetVars, moneyVars, indexVars, ghostVars
<1>3. ASSUME NEW k \in AdminJobs, NEW i \in Investments, ConfirmInvestment(k, i)
      PROVE  LedgerKept
  BY <1>3 DEF LedgerKept, ConfirmInvestment, assetVars, moneyVars, indexVars, ghostVars
<1>4. ASSUME NEW i \in Investments, SignDeposit(i)
      PROVE  LedgerKept
  BY <1>4 DEF LedgerKept, SignDeposit, assetVars, moneyVars, indexVars, ghostVars
<1>5. ASSUME NEW i \in Investments, NEW h \in Hashes, SubmitOnChainTransaction(i, h)
      PROVE  LedgerKept
  BY <1>5 DEF LedgerKept, SubmitOnChainTransaction, assetVars, moneyVars, indexVars, ghostVars
<1>6. ASSUME NEW k \in JobIds, JobStart(k)
      PROVE  LedgerKept
  BY <1>6 DEF LedgerKept, JobStart, assetVars, moneyVars, indexVars, ghostVars
<1>7. ASSUME NEW k \in JobIds, ExecuteBlockchainTransfer(k)
      PROVE  LedgerKept
  BY <1>7 DEF LedgerKept, ExecuteBlockchainTransfer, assetVars, moneyVars, indexVars, ghostVars
<1>8. ASSUME NEW k \in JobIds, TransferReplyLost(k)
      PROVE  LedgerKept
  BY <1>8 DEF LedgerKept, TransferReplyLost, assetVars, moneyVars, indexVars, ghostVars
<1>9. ASSUME NEW k \in JobIds, TransferRefused(k)
      PROVE  LedgerKept
  BY <1>9 DEF LedgerKept, TransferRefused, assetVars, moneyVars, indexVars, ghostVars
<1>10. ASSUME NEW k \in JobIds, FinalizeTokenizationLock(k)
      PROVE  LedgerKept
  BY <1>10 DEF LedgerKept, FinalizeTokenizationLock, assetVars, moneyVars, indexVars, ghostVars
<1>11. ASSUME NEW k \in JobIds, FinalizeTokenizationRollback(k)
      PROVE  LedgerKept
  BY <1>11 DEF LedgerKept, FinalizeTokenizationRollback, assetVars, moneyVars, indexVars,
     ghostVars
<1>12. ASSUME NEW k \in JobIds, HandleFailureThrows(k)
      PROVE  LedgerKept
  BY <1>12 DEF LedgerKept, HandleFailureThrows, assetVars, moneyVars, indexVars, ghostVars
<1>13. ASSUME NEW k \in JobIds, WorkerCrash(k)
      PROVE  LedgerKept
  BY <1>13 DEF LedgerKept, WorkerCrash, assetVars, moneyVars, indexVars, ghostVars
<1>14. ASSUME NEW i \in Investments, SubmitEnqueue(i)
      PROVE  LedgerKept
  BY <1>14 DEF LedgerKept, SubmitEnqueue, assetVars, moneyVars, indexVars, ghostVars
<1>15. ASSUME NEW w \in Verifiers, NEW propagated \in BOOLEAN, VerifyRead(w, propagated)
      PROVE  LedgerKept
  BY <1>15 DEF LedgerKept, VerifyRead, assetVars, moneyVars, indexVars, ghostVars
<1>16. ASSUME NEW w \in Verifiers, FinalizeVerifiedRefused(w)
      PROVE  LedgerKept
  BY <1>16 DEF LedgerKept, FinalizeVerifiedRefused, assetVars, moneyVars, indexVars, ghostVars
<1>17. ASSUME NEW w \in Verifiers, VerifierCrash(w)
      PROVE  LedgerKept
  BY <1>17 DEF LedgerKept, VerifierCrash, assetVars, moneyVars, indexVars, ghostVars
<1>18. ASSUME NEW h \in Hashes, IndexKnown(h)
      PROVE  LedgerKept
  BY <1>18 DEF LedgerKept, IndexKnown, assetVars, moneyVars, indexVars, ghostVars
<1>19. ASSUME NEW h \in Hashes, IndexRead(h)
      PROVE  LedgerKept
  BY <1>19 DEF LedgerKept, IndexRead, assetVars, moneyVars, indexVars, ghostVars
<1>20. ASSUME IndexSwallow
      PROVE  LedgerKept
  BY <1>20 DEF LedgerKept, IndexSwallow, assetVars, moneyVars, indexVars, ghostVars
<1>21. ASSUME IndexCheckpoint
      PROVE  LedgerKept
  BY <1>21 DEF LedgerKept, IndexCheckpoint, assetVars, moneyVars, indexVars, ghostVars
<1>22. ASSUME IndexCrash
      PROVE  LedgerKept
  BY <1>22 DEF LedgerKept, IndexCrash, assetVars, moneyVars, indexVars, ghostVars
<1>23. ASSUME NEW h \in Hashes, NEW result \in {"ok", "reverted", "mismatch"}, Mine(h, result)
      PROVE  LedgerKept
  BY <1>23 DEF LedgerKept, Mine, assetVars, moneyVars, indexVars, ghostVars
<1>24. ASSUME NEW h \in Hashes, NewBlock(h)
      PROVE  LedgerKept
  BY <1>24 DEF LedgerKept, NewBlock, assetVars, moneyVars, indexVars, ghostVars
<1>25. CASE UNCHANGED vars
  BY <1>25 DEF LedgerKept, vars, assetVars, moneyVars, indexVars, ghostVars
<1> QED
  BY <1>1, <1>2, <1>3, <1>4, <1>5, <1>6, <1>7, <1>8, <1>9, <1>10, <1>11, <1>12, <1>13, <1>14,
     <1>15, <1>16, <1>17, <1>18, <1>19, <1>20, <1>21, <1>22, <1>23, <1>24, <1>25 DEF
     LedgerSteps, Next, ClientStep, CreationEnds, WorkerStep, WorkerFault, VerifierStep,
     IndexerStep, ChainStep, Verifiers, JobIds

\* Outside the two reads of the asset, no snapshot of it appears or changes.
SnapshotReads ==
  \/ \E k \in JobIds : FinalizeTokenizationLock(k)
  \/ \E h \in Hashes : IndexRead(h)

SnapshotsKept ==
  /\ \A k \in JobIds :
       job'[k].st = "locked" => job[k].st = "locked" /\ job'[k].snap = job[k].snap
  /\ idx'.pc = "mutating" => idx' = idx

LEMMA SnapshotReadsOnly ==
  ASSUME TypeInv, [Next]_vars, ~SnapshotReads
  PROVE  SnapshotsKept
<1>1. ASSUME NEW i \in Investments, CreateInvestmentOpen(i)
      PROVE  SnapshotsKept
  BY <1>1 DEF SnapshotsKept, CreateInvestmentOpen, TypeInv, TypeOK, indexVars, JobsTyped, Job,
     NoJob, IdxIdle, IndexTyped, Idx, QueueAdd, JobDone, JobFailed, JobStalled, JobIds
<1>2. ASSUME NEW i \in Investments, CreateInvestmentCommit(i)
      PROVE  SnapshotsKept
  BY <1>2 DEF SnapshotsKept, CreateInvestmentCommit, TypeInv, TypeOK, indexVars, JobsTyped, Job,
     NoJob, IdxIdle, IndexTyped, Idx, QueueAdd, JobDone, JobFailed, JobStalled, JobIds
<1>3. ASSUME NEW i \in Investments, CreateInvestmentRollback(i)
      PROVE  SnapshotsKept
  BY <1>3 DEF SnapshotsKept, CreateInvestmentRollback, TypeInv, TypeOK, indexVars, JobsTyped, Job,
     NoJob, IdxIdle, IndexTyped, Idx, QueueAdd, JobDone, JobFailed, JobStalled, JobIds
<1>4. ASSUME NEW i \in Investments, CreateInvestmentIntent(i)
      PROVE  SnapshotsKept
  BY <1>4 DEF SnapshotsKept, CreateInvestmentIntent, TypeInv, TypeOK, indexVars, JobsTyped, Job,
     NoJob, IdxIdle, IndexTyped, Idx, QueueAdd, JobDone, JobFailed, JobStalled, JobIds
<1>5. ASSUME NEW k \in AdminJobs, NEW i \in Investments, ConfirmInvestment(k, i)
      PROVE  SnapshotsKept
  BY <1>5 DEF SnapshotsKept, ConfirmInvestment, TypeInv, TypeOK, indexVars, JobsTyped, Job, NoJob,
     IdxIdle, IndexTyped, Idx, QueueAdd, JobDone, JobFailed, JobStalled, JobIds
<1>6. ASSUME NEW i \in Investments, SignDeposit(i)
      PROVE  SnapshotsKept
  BY <1>6 DEF SnapshotsKept, SignDeposit, TypeInv, TypeOK, indexVars, JobsTyped, Job, NoJob,
     IdxIdle, IndexTyped, Idx, QueueAdd, JobDone, JobFailed, JobStalled, JobIds
<1>7. ASSUME NEW i \in Investments, NEW h \in Hashes, SubmitOnChainTransaction(i, h)
      PROVE  SnapshotsKept
  BY <1>7 DEF SnapshotsKept, SubmitOnChainTransaction, TypeInv, TypeOK, indexVars, JobsTyped, Job,
     NoJob, IdxIdle, IndexTyped, Idx, QueueAdd, JobDone, JobFailed, JobStalled, JobIds
<1>8. ASSUME NEW k \in JobIds, JobStart(k)
      PROVE  SnapshotsKept
  BY <1>8 DEF SnapshotsKept, JobStart, TypeInv, TypeOK, indexVars, JobsTyped, Job, NoJob, IdxIdle,
     IndexTyped, Idx, QueueAdd, JobDone, JobFailed, JobStalled, JobIds
<1>9. ASSUME NEW k \in JobIds, ExecuteBlockchainTransfer(k)
      PROVE  SnapshotsKept
  BY <1>9 DEF SnapshotsKept, ExecuteBlockchainTransfer, TypeInv, TypeOK, indexVars, JobsTyped,
     Job, NoJob, IdxIdle, IndexTyped, Idx, QueueAdd, JobDone, JobFailed, JobStalled, JobIds
<1>10. ASSUME NEW k \in JobIds, TransferReplyLost(k)
      PROVE  SnapshotsKept
  BY <1>10 DEF SnapshotsKept, TransferReplyLost, TypeInv, TypeOK, indexVars, JobsTyped, Job,
     NoJob, IdxIdle, IndexTyped, Idx, QueueAdd, JobDone, JobFailed, JobStalled, JobIds
<1>11. ASSUME NEW k \in JobIds, TransferRefused(k)
      PROVE  SnapshotsKept
  BY <1>11 DEF SnapshotsKept, TransferRefused, TypeInv, TypeOK, indexVars, JobsTyped, Job, NoJob,
     IdxIdle, IndexTyped, Idx, QueueAdd, JobDone, JobFailed, JobStalled, JobIds
<1>12. ASSUME NEW k \in JobIds, FinalizeTokenizationCommit(k)
      PROVE  SnapshotsKept
  BY <1>12 DEF SnapshotsKept, FinalizeTokenizationCommit, TypeInv, TypeOK, indexVars, JobsTyped,
     Job, NoJob, IdxIdle, IndexTyped, Idx, QueueAdd, JobDone, JobFailed, JobStalled, JobIds
<1>13. ASSUME NEW k \in JobIds, FinalizeTokenizationRollback(k)
      PROVE  SnapshotsKept
  BY <1>13 DEF SnapshotsKept, FinalizeTokenizationRollback, TypeInv, TypeOK, indexVars, JobsTyped,
     Job, NoJob, IdxIdle, IndexTyped, Idx, QueueAdd, JobDone, JobFailed, JobStalled, JobIds
<1>14. ASSUME NEW k \in JobIds, HandleFailure(k)
      PROVE  SnapshotsKept
  BY <1>14 DEF SnapshotsKept, HandleFailure, TypeInv, TypeOK, indexVars, JobsTyped, Job, NoJob,
     IdxIdle, IndexTyped, Idx, QueueAdd, JobDone, JobFailed, JobStalled, JobIds
<1>15. ASSUME NEW k \in JobIds, HandleFailureThrows(k)
      PROVE  SnapshotsKept
  BY <1>15 DEF SnapshotsKept, HandleFailureThrows, TypeInv, TypeOK, indexVars, JobsTyped, Job,
     NoJob, IdxIdle, IndexTyped, Idx, QueueAdd, JobDone, JobFailed, JobStalled, JobIds
<1>16. ASSUME NEW k \in JobIds, WorkerCrash(k)
      PROVE  SnapshotsKept
  BY <1>16 DEF SnapshotsKept, WorkerCrash, TypeInv, TypeOK, indexVars, JobsTyped, Job, NoJob,
     IdxIdle, IndexTyped, Idx, QueueAdd, JobDone, JobFailed, JobStalled, JobIds
<1>17. ASSUME NEW i \in Investments, SubmitEnqueue(i)
      PROVE  SnapshotsKept
  BY <1>17 DEF SnapshotsKept, SubmitEnqueue, TypeInv, TypeOK, indexVars, JobsTyped, Job, NoJob,
     IdxIdle, IndexTyped, Idx, QueueAdd, JobDone, JobFailed, JobStalled, JobIds
<1>18. ASSUME NEW w \in Verifiers, NEW propagated \in BOOLEAN, VerifyRead(w, propagated)
      PROVE  SnapshotsKept
  BY <1>18 DEF SnapshotsKept, VerifyRead, TypeInv, TypeOK, indexVars, JobsTyped, Job, NoJob,
     IdxIdle, IndexTyped, Idx, QueueAdd, JobDone, JobFailed, JobStalled, JobIds
<1>19. ASSUME NEW w \in Verifiers, FailVerification(w)
      PROVE  SnapshotsKept
  BY <1>19 DEF SnapshotsKept, FailVerification, TypeInv, TypeOK, indexVars, JobsTyped, Job, NoJob,
     IdxIdle, IndexTyped, Idx, QueueAdd, JobDone, JobFailed, JobStalled, JobIds
<1>20. ASSUME NEW w \in Verifiers, FinalizeVerified(w)
      PROVE  SnapshotsKept
  BY <1>20 DEF SnapshotsKept, FinalizeVerified, TypeInv, TypeOK, indexVars, JobsTyped, Job, NoJob,
     IdxIdle, IndexTyped, Idx, QueueAdd, JobDone, JobFailed, JobStalled, JobIds
<1>21. ASSUME NEW w \in Verifiers, FinalizeVerifiedRefused(w)
      PROVE  SnapshotsKept
  BY <1>21 DEF SnapshotsKept, FinalizeVerifiedRefused, TypeInv, TypeOK, indexVars, JobsTyped, Job,
     NoJob, IdxIdle, IndexTyped, Idx, QueueAdd, JobDone, JobFailed, JobStalled, JobIds
<1>22. ASSUME NEW w \in Verifiers, VerifierCrash(w)
      PROVE  SnapshotsKept
  BY <1>22 DEF SnapshotsKept, VerifierCrash, TypeInv, TypeOK, indexVars, JobsTyped, Job, NoJob,
     IdxIdle, IndexTyped, Idx, QueueAdd, JobDone, JobFailed, JobStalled, JobIds
<1>23. ASSUME NEW h \in Hashes, IndexKnown(h)
      PROVE  SnapshotsKept
  BY <1>23 DEF SnapshotsKept, IndexKnown, TypeInv, TypeOK, indexVars, JobsTyped, Job, NoJob,
     IdxIdle, IndexTyped, Idx, QueueAdd, JobDone, JobFailed, JobStalled, JobIds
<1>24. ASSUME NEW i \in Investments, IndexConfirmIntent(i)
      PROVE  SnapshotsKept
  BY <1>24 DEF SnapshotsKept, IndexConfirmIntent, TypeInv, TypeOK, indexVars, JobsTyped, Job,
     NoJob, IdxIdle, IndexTyped, Idx, QueueAdd, JobDone, JobFailed, JobStalled, JobIds
<1>25. ASSUME IndexSelfHeal
      PROVE  SnapshotsKept
  BY <1>25 DEF SnapshotsKept, IndexSelfHeal, TypeInv, TypeOK, indexVars, JobsTyped, Job, NoJob,
     IdxIdle, IndexTyped, Idx, QueueAdd, JobDone, JobFailed, JobStalled, JobIds
<1>26. ASSUME IndexSwallow
      PROVE  SnapshotsKept
  BY <1>26 DEF SnapshotsKept, IndexSwallow, TypeInv, TypeOK, indexVars, JobsTyped, Job, NoJob,
     IdxIdle, IndexTyped, Idx, QueueAdd, JobDone, JobFailed, JobStalled, JobIds
<1>27. ASSUME IndexCheckpoint
      PROVE  SnapshotsKept
  BY <1>27 DEF SnapshotsKept, IndexCheckpoint, TypeInv, TypeOK, indexVars, JobsTyped, Job, NoJob,
     IdxIdle, IndexTyped, Idx, QueueAdd, JobDone, JobFailed, JobStalled, JobIds
<1>28. ASSUME IndexCrash
      PROVE  SnapshotsKept
  BY <1>28 DEF SnapshotsKept, IndexCrash, TypeInv, TypeOK, indexVars, JobsTyped, Job, NoJob,
     IdxIdle, IndexTyped, Idx, QueueAdd, JobDone, JobFailed, JobStalled, JobIds
<1>29. ASSUME NEW h \in Hashes, NEW result \in {"ok", "reverted", "mismatch"}, Mine(h, result)
      PROVE  SnapshotsKept
  BY <1>29 DEF SnapshotsKept, Mine, TypeInv, TypeOK, indexVars, JobsTyped, Job, NoJob, IdxIdle,
     IndexTyped, Idx, QueueAdd, JobDone, JobFailed, JobStalled, JobIds
<1>30. ASSUME NEW h \in Hashes, NewBlock(h)
      PROVE  SnapshotsKept
  BY <1>30 DEF SnapshotsKept, NewBlock, TypeInv, TypeOK, indexVars, JobsTyped, Job, NoJob,
     IdxIdle, IndexTyped, Idx, QueueAdd, JobDone, JobFailed, JobStalled, JobIds
<1>31. CASE UNCHANGED vars
  BY <1>31 DEF SnapshotsKept, vars, indexVars
<1> QED
  BY <1>1, <1>2, <1>3, <1>4, <1>5, <1>6, <1>7, <1>8, <1>9, <1>10, <1>11, <1>12, <1>13, <1>14,
     <1>15, <1>16, <1>17, <1>18, <1>19, <1>20, <1>21, <1>22, <1>23, <1>24, <1>25, <1>26, <1>27,
     <1>28, <1>29, <1>30, <1>31 DEF SnapshotReads, Next, ClientStep, CreationEnds, WorkerStep,
     WorkerFault, VerifierStep, IndexerStep, ChainStep, Verifiers, JobIds

-----------------------------------------------------------------------------
(* The wallets *)

SpentOf(v) == [i \in Investments |-> IF Owner[i] = v /\ SettledOffChain(i) THEN Amount[i] ELSE 0]
SpentBy == [v \in Investors |-> Spent(v)]

LEMMA SpentTypes ==
  /\ \A v \in Investors : Spent(v) = SumFunctionOnSet(SpentOf(v), Investments) /\ Spent(v) \in Nat
  /\ \A v \in Investors : \A i \in Investments : SpentOf(v)[i] \in Nat
<1>1. \A v \in Investors : \A i \in Investments : SpentOf(v)[i] \in Nat
  BY ConstantTypes DEF SpentOf
<1>2. ASSUME NEW v \in Investors
      PROVE  Spent(v) = SumFunctionOnSet(SpentOf(v), Investments) /\ Spent(v) \in Nat
  <2>1. Spent(v) = SumFunctionOnSet(SpentOf(v), Investments)
    BY DEF Spent, SpentOf, SumFunction
  <2>2. \A i \in Investments : SpentOf(v)[i] \in Nat
    BY <1>1
  <2> QED BY <2>1, <2>2, ConstantTypes, SumNat
<1> QED BY <1>1, <1>2

\* Only the commit of a tokenization moves money.
LEMMA MoneyKept ==
  ASSUME TypeInv, [Next]_vars, ~ \E k \in JobIds : FinalizeTokenizationCommit(k)
  PROVE  UNCHANGED <<balance, partnerFunds, paid>>
<1>1. CASE ~LedgerSteps
  BY <1>1, LedgerStepsOnly DEF LedgerKept
<1>2. ASSUME NEW i \in Investments, CreateInvestmentCommit(i) \/ CreateInvestmentIntent(i)
      PROVE  UNCHANGED <<balance, partnerFunds, paid>>
  BY <1>2 DEF CreateInvestmentCommit, CreateInvestmentIntent, moneyVars, ghostVars
<1>3. ASSUME NEW k \in JobIds, HandleFailure(k)
      PROVE  UNCHANGED <<balance, partnerFunds, paid>>
  BY <1>3 DEF HandleFailure, HandleInvestmentFailure, moneyVars
<1>4. ASSUME NEW w \in Verifiers, FailVerification(w) \/ FinalizeVerified(w)
      PROVE  UNCHANGED <<balance, partnerFunds, paid>>
  BY <1>4 DEF FailVerification, FinalizeVerified, HandleInvestmentFailure, moneyVars
<1>5. ASSUME NEW i \in Investments, IndexConfirmIntent(i)
      PROVE  UNCHANGED <<balance, partnerFunds, paid>>
  BY <1>5 DEF IndexConfirmIntent, moneyVars
<1>6. ASSUME IndexSelfHeal
      PROVE  UNCHANGED <<balance, partnerFunds, paid>>
  BY <1>6 DEF IndexSelfHeal, moneyVars
<1> QED BY <1>1, <1>2, <1>3, <1>4, <1>5, <1>6 DEF LedgerSteps

LEMMA MoneyStep ==
  ASSUME TypeInv, SettlementInv, PaidIffConfirmed, MoneyMatchesConfirmations, [Next]_vars
  PROVE  MoneyMatchesConfirmations'
<1>0. PaidIffConfirmed'
  BY PaidStep
<1>1. CASE ~ \E k \in JobIds : FinalizeTokenizationCommit(k)
  <2>1. UNCHANGED <<balance, partnerFunds, paid>>
    BY <1>1, MoneyKept
  <2>2. \A i \in Investments : SettledOffChain(i)' <=> SettledOffChain(i)
    BY <1>0, <2>1 DEF PaidIffConfirmed, SettledOffChain
  <2>3. \A v \in Investors : Spent(v)' = Spent(v)
    BY <2>2 DEF Spent
  <2>4. SpentBy' = SpentBy
    BY <2>3 DEF SpentBy
  <2> QED BY <2>1, <2>3, <2>4 DEF MoneyMatchesConfirmations, SpentBy
<1>2. ASSUME NEW k \in JobIds, FinalizeTokenizationCommit(k)
      PROVE  MoneyMatchesConfirmations'
  <2>1. PICK i \in Investments : i = job[k].inv
    BY <1>2, CommitFacts
  <2>2. /\ mode[i] = "OFF_CHAIN" /\ status[i] # "CONFIRMED"
        /\ \A j \in Investments : mode'[j] = mode[j]
        /\ \A j \in Investments : status'[j] = IF j = i THEN "CONFIRMED" ELSE status[j]
    BY <1>2, <2>1, CommitFacts DEF FinalizeTokenizationCommit, TypeInv, TypeOK, RowsTyped
  <2>3. /\ \A v \in Investors : balance'[v] = balance[v] - IF v = Owner[i] THEN Amount[i] ELSE 0
        /\ partnerFunds' = partnerFunds + IF PartnerHasWallet THEN Amount[i] ELSE 0
    BY <1>2, <2>1, ConstantTypes
       DEF FinalizeTokenizationCommit, Transfer, TypeInv, TypeOK, AssetTyped
  <2>4. Owner[i] \in Investors /\ Amount[i] \in Nat
    BY ConstantTypes
  <2>5. ASSUME NEW v \in Investors
        PROVE  Spent(v)' = Spent(v) + IF v = Owner[i] THEN Amount[i] ELSE 0
    <3>1. \A j \in Investments : SpentOf(v)[j] \in Int /\ SpentOf(v)'[j] \in Int
      BY SpentTypes, ConstantTypes DEF SpentOf
    <3>2. \A j \in Investments \ {i} : SpentOf(v)[j] = SpentOf(v)'[j]
      BY <2>2 DEF SpentOf, SettledOffChain
    <3>3. SumFunctionOnSet(SpentOf(v)', Investments)
            = SumFunctionOnSet(SpentOf(v), Investments) + SpentOf(v)'[i] - SpentOf(v)[i]
      BY <3>1, <3>2, ConstantTypes, SumChange
    <3>4. /\ SpentOf(v)[i] = 0
          /\ SpentOf(v)'[i] = IF v = Owner[i] THEN Amount[i] ELSE 0
      BY <2>2 DEF SpentOf, SettledOffChain
    <3>5. Spent(v)' = SumFunctionOnSet(SpentOf(v)', Investments)
      BY DEF Spent, SpentOf, SumFunction
    <3> QED BY <2>4, <3>3, <3>4, <3>5, SpentTypes
  <2>6. \A v \in Investors : balance'[v] + Spent(v)' = Funds[v]
    <3> TAKE v \in Investors
    <3>1. balance[v] + Spent(v) = Funds[v] /\ balance[v] \in Nat /\ Spent(v) \in Nat
      BY SpentTypes DEF MoneyMatchesConfirmations, TypeInv, TypeOK, AssetTyped
    <3> QED BY <2>3, <2>4, <2>5, <3>1
  <2>7. SumFunction(SpentBy)' = SumFunction(SpentBy) + Amount[i]
    <3>1. /\ \A v \in Investors : SpentBy[v] \in Int /\ SpentBy'[v] \in Int
          /\ \A v \in Investors \ {Owner[i]} : SpentBy[v] = SpentBy'[v]
          /\ SpentBy'[Owner[i]] = SpentBy[Owner[i]] + Amount[i]
      BY <2>4, <2>5, SpentTypes DEF SpentBy
    <3>2. SumFunctionOnSet(SpentBy', Investors)
            = SumFunctionOnSet(SpentBy, Investors) + SpentBy'[Owner[i]] - SpentBy[Owner[i]]
      BY <2>4, <3>1, ConstantTypes, SumChange
    <3>3. SumFunctionOnSet(SpentBy, Investors) \in Int
      BY <3>1, ConstantTypes, SumInt
    <3>4. DOMAIN SpentBy = Investors /\ DOMAIN SpentBy' = Investors
      BY DEF SpentBy
    <3> QED BY <2>4, <3>1, <3>2, <3>3, <3>4 DEF SumFunction
  <2>8. PartnerHasWallet => partnerFunds' = SumFunction(SpentBy)'
    BY <2>3, <2>7 DEF MoneyMatchesConfirmations, SpentBy
  <2> QED BY <2>6, <2>8 DEF MoneyMatchesConfirmations, SpentBy
<1> QED BY <1>1, <1>2

LEMMA MoneyInit == Init => MoneyMatchesConfirmations
<1> SUFFICES ASSUME Init PROVE MoneyMatchesConfirmations
  OBVIOUS
<1>1. \A v \in Investors : \A i \in Investments : SpentOf(v)[i] = 0
  BY DEF Init, SpentOf, SettledOffChain
<1>2. ASSUME NEW v \in Investors PROVE Spent(v) = 0
  BY <1>1, ConstantTypes, SpentTypes, SumZero
<1>3. SumFunction(SpentBy) = 0
  <2>1. \A v \in Investors : SpentBy[v] = 0
    BY <1>2 DEF SpentBy
  <2>2. SumFunctionOnSet(SpentBy, Investors) = 0
    BY <2>1, ConstantTypes, SumZero
  <2>3. DOMAIN SpentBy = Investors
    BY DEF SpentBy
  <2> QED BY <2>2, <2>3 DEF SumFunction
<1>4. balance = Funds /\ partnerFunds = 0 /\ \A v \in Investors : Funds[v] \in Nat
  BY ConstantTypes DEF Init
<1> QED BY <1>2, <1>3, <1>4 DEF MoneyMatchesConfirmations, SpentBy

-----------------------------------------------------------------------------
(* The shares *)

ReservedBy == [i \in Investments |-> Reserved(i)]

\* One reservation more or less changes the shares set aside by as much.
LEMMA ReservedChange ==
  ASSUME NEW i \in Investments,
         \A j \in Investments \ {i} : Reserved(j)' = Reserved(j)
  PROVE  /\ SumFunction(ReservedBy)' = SumFunction(ReservedBy) + Reserved(i)' - Reserved(i)
         /\ SumFunction(ReservedBy) \in Nat
<1>1. /\ \A j \in Investments : ReservedBy[j] \in Nat /\ ReservedBy'[j] \in Nat
      /\ \A j \in Investments \ {i} : ReservedBy[j] = ReservedBy'[j]
  BY ConstantTypes DEF ReservedBy, Reserved
<1>2. /\ SumFunctionOnSet(ReservedBy', Investments)
           = SumFunctionOnSet(ReservedBy, Investments) + ReservedBy'[i] - ReservedBy[i]
      /\ SumFunctionOnSet(ReservedBy, Investments) \in Nat
  <2>1. \A j \in Investments : ReservedBy[j] \in Int /\ ReservedBy'[j] \in Int
    BY <1>1
  <2> QED BY <1>1, <2>1, ConstantTypes, SumChange, SumNat
<1>3. DOMAIN ReservedBy = Investments /\ DOMAIN ReservedBy' = Investments
  BY DEF ReservedBy
<1>4. ReservedBy'[i] = Reserved(i)' /\ ReservedBy[i] = Reserved(i)
  BY DEF ReservedBy
<1> QED BY <1>2, <1>3, <1>4 DEF SumFunction

\* What a step has to do to keep the shares accounted for.
LEMMA SharesMove ==
  ASSUME TypeInv, SharesAccounted, NEW i \in Investments, NEW n \in Int,
         \A j \in Investments \ {i} : Reserved(j)' = Reserved(j),
         Reserved(i)' = Reserved(i) + n,
         avail' + taken' = avail + taken - n
  PROVE  SharesAccounted'
<1>1. /\ SumFunction(ReservedBy)' = SumFunction(ReservedBy) + Reserved(i)' - Reserved(i)
      /\ SumFunction(ReservedBy) \in Nat
  BY ReservedChange
<1>2. avail + taken + SumFunction(ReservedBy) = TotalShares
  BY DEF SharesAccounted, ReservedBy
<1>3. avail \in Nat /\ taken \in Nat /\ Reserved(i) \in Nat
  BY ConstantTypes DEF TypeInv, TypeOK, AssetTyped, GhostsTyped, Reserved
<1>4. avail' + taken' + SumFunction(ReservedBy)' = TotalShares
  BY <1>1, <1>2, <1>3
<1> QED BY <1>4 DEF SharesAccounted, ReservedBy

LEMMA SharesStay ==
  ASSUME SharesAccounted, \A j \in Investments : Reserved(j)' = Reserved(j),
         avail' + taken' = avail + taken
  PROVE  SharesAccounted'
<1>1. ReservedBy' = ReservedBy
  BY DEF ReservedBy
<1>2. SumFunction(ReservedBy)' = SumFunction(ReservedBy)
  BY <1>1
<1> QED BY <1>2 DEF SharesAccounted, ReservedBy

\* A failure that is the first one returns what was reserved; a later one
\* does nothing.
LEMMA FailureKeepsShares ==
  ASSUME TypeInv, SettlementInv, ReservationInv, SharesAccounted,
         NEW i \in Investments, HandleInvestmentFailure(i)
  PROVE  SharesAccounted'
<1> USE DEF TypeInv, TypeOK, RowsTyped, GhostsTyped, HandleInvestmentFailure
<1>1. CASE Returnable(i)
  <2>1. status[i] # "NONE" /\ returned[i] = 0 /\ status'[i] = "FAILED" /\ returned'[i] = 1
    BY <1>1 DEF Returnable, ReservationInv
  <2>2. \A j \in Investments \ {i} : Reserved(j)' = Reserved(j)
    BY DEF Reserved
  <2>3. Reserved(i)' = Reserved(i) + (-Units[i]) /\ -Units[i] \in Int
    BY <2>1, ConstantTypes DEF Reserved
  <2>4. avail' + taken' = avail + taken - (-Units[i])
    BY <1>1, ConstantTypes DEF AssetTyped
  <2> QED BY <2>2, <2>3, <2>4, SharesMove
<1>2. CASE ~Returnable(i)
  <2>1. \A j \in Investments : Reserved(j)' = Reserved(j)
    BY <1>2 DEF Reserved
  <2>2. avail' + taken' = avail + taken
    BY <1>2 DEF AssetTyped
  <2> QED BY <2>1, <2>2, SharesStay
<1> QED BY <1>1, <1>2

\* What the indexer takes out of the asset it takes into account.
LEMMA MutationKeepsShares ==
  ASSUME TypeInv, NEW h, RawUnits(h) \in Nat, ProcessAssetMutation(h)
  PROVE  avail' + taken' = avail + taken
<1>1. PICK left \in Int : avail' = left /\ taken' = taken + (avail - left)
  BY DEF ProcessAssetMutation, TypeInv, TypeOK, AssetTyped
<1>2. avail \in Nat /\ taken \in Nat
  BY DEF TypeInv, TypeOK, AssetTyped, GhostsTyped
<1> QED BY <1>1, <1>2

\* An indexer about to make a row works on a release that has none.
LEMMA HealFacts ==
  ASSUME TypeInv, SettlementInv, IndexSelfHeal
  PROVE  /\ idx.hash \in Hashes /\ idx.hash \notin healed
         /\ chain[idx.hash].kind = "release" /\ Recipient(idx.hash) \in Investors
         /\ RawUnits(idx.hash) \in Nat /\ RawUnits(idx.hash) > 0 /\ Cost(idx.hash) \in Nat
<1>1. idx.hash \in Hashes /\ chain[idx.hash].kind = "release"
  BY DEF SettlementInv, IndexInv, IsRelease, IndexSelfHeal
<1>2. idx.hash \notin healed
  BY DEF IndexSelfHeal, HasRow
<1> QED BY <1>1, <1>2, CostType DEF TypeInv, TypeOK

LEMMA SharesStep ==
  ASSUME TypeInv, SettlementInv, ReservationInv, SharesAccounted, [Next]_vars
  PROVE  SharesAccounted'
<1> USE DEF TypeInv, TypeOK, RowsTyped, GhostsTyped
<1>1. ASSUME NEW i \in Investments, CreateInvestmentCommit(i) \/ CreateInvestmentIntent(i)
      PROVE  SharesAccounted'
  <2>1. status[i] = "NONE" /\ returned[i] = 0
    BY <1>1 DEF CreateInvestmentCommit, CreateInvestmentIntent, Fresh, SettlementInv, OpenInv,
       ReservationInv
  <2>2. /\ status'[i] = "PENDING" /\ returned' = returned /\ taken' = taken
        /\ avail' = avail - Units[i]
        /\ \A j \in Investments \ {i} : status'[j] = status[j]
    BY <1>1 DEF CreateInvestmentCommit, CreateInvestmentIntent, ghostVars
  <2>3. \A j \in Investments \ {i} : Reserved(j)' = Reserved(j)
    BY <2>2 DEF Reserved
  <2>4. Reserved(i)' = Reserved(i) + Units[i] /\ Units[i] \in Int
    BY <2>1, <2>2, ConstantTypes DEF Reserved
  <2>5. avail' + taken' = avail + taken - Units[i]
    BY <2>2, ConstantTypes DEF AssetTyped
  <2> QED BY <2>3, <2>4, <2>5, SharesMove
<1>2. ASSUME NEW k \in JobIds, HandleFailure(k)
      PROVE  SharesAccounted'
  <2>1. job[k].inv \in Investments
    BY <1>2 DEF HandleFailure, JobsTyped
  <2> QED BY <1>2, <2>1, FailureKeepsShares DEF HandleFailure
<1>3. ASSUME NEW w \in Verifiers, FailVerification(w)
      PROVE  SharesAccounted'
  BY <1>3, FailureKeepsShares DEF FailVerification, Verifiers
<1>4. ASSUME NEW i \in Investments, status[i] # "NONE",
             status' = [status EXCEPT ![i] = "CONFIRMED"] \/ status' = [status EXCEPT ![i] = "PROCESSING"],
             returned' = returned, avail' + taken' = avail + taken
      PROVE  SharesAccounted'
  <2>1. \A j \in Investments : Reserved(j)' = Reserved(j)
    BY <1>4 DEF Reserved
  <2> QED BY <1>4, <2>1, SharesStay
<1>5. ASSUME NEW k \in JobIds, FinalizeTokenizationCommit(k)
      PROVE  SharesAccounted'
  <2>1. /\ job[k].inv \in Investments /\ status[job[k].inv] # "NONE"
        /\ status' = [status EXCEPT ![job[k].inv] = "CONFIRMED"]
        /\ returned' = returned /\ avail' + taken' = avail + taken
    BY <1>5, CommitFacts DEF FinalizeTokenizationCommit
  <2> QED BY <2>1, <1>4
<1>6. ASSUME NEW w \in Verifiers, FinalizeVerified(w)
      PROVE  SharesAccounted'
  <2>1. /\ w[1] \in Investments /\ status[w[1]] # "NONE"
        /\ status' = [status EXCEPT ![w[1]] = "CONFIRMED"]
        /\ returned' = returned /\ avail' + taken' = avail + taken
    BY <1>6, VerdictFacts DEF FinalizeVerified
  <2> QED BY <2>1, <1>4
<1>7. ASSUME NEW i \in Investments, IndexConfirmIntent(i)
      PROVE  SharesAccounted'
  <2>1. /\ status[i] # "NONE" /\ status' = [status EXCEPT ![i] = "CONFIRMED"]
        /\ returned' = returned /\ avail' + taken' = avail + taken
    BY <1>7, IntentFacts, MutationKeepsShares DEF IndexConfirmIntent
  <2> QED BY <2>1, <1>4
<1>8. ASSUME IndexSelfHeal
      PROVE  SharesAccounted'
  <2>1. \A j \in Investments : Reserved(j)' = Reserved(j)
    BY <1>8 DEF IndexSelfHeal, rowVars, Reserved
  <2>2. RawUnits(idx.hash) \in Nat
    BY <1>8, HealFacts
  <2>3. avail' + taken' = avail + taken
    BY <1>8, <2>2, MutationKeepsShares DEF IndexSelfHeal
  <2> QED BY <2>1, <2>3, SharesStay
<1>9. ASSUME NEW i \in Investments, NEW h \in Hashes, SubmitOnChainTransaction(i, h)
      PROVE  SharesAccounted'
  <2>1. /\ status[i] # "NONE" /\ status' = [status EXCEPT ![i] = "PROCESSING"]
        /\ returned' = returned /\ avail' + taken' = avail + taken
    BY <1>9 DEF SubmitOnChainTransaction, Bindable, ghostVars, assetVars
  <2> QED BY <2>1, <1>4
<1>10. ASSUME LedgerKept, RowsKept
       PROVE  SharesAccounted'
  <2>1. \A j \in Investments : Reserved(j)' = Reserved(j)
    BY <1>10 DEF LedgerKept, RowsKept, Reserved
  <2> QED BY <1>10, <2>1, SharesStay DEF LedgerKept
<1>11. ASSUME NEW h \in Hashes, IndexKnown(h)
       PROVE  SharesAccounted'
  <2>1. RowsKept
    BY <1>11, KnownFacts
  <2>2. LedgerKept
    BY <1>11 DEF IndexKnown, LedgerKept, assetVars, moneyVars, ghostVars
  <2> QED BY <2>1, <2>2, <1>10
<1> QED BY <1>1, <1>2, <1>3, <1>5, <1>6, <1>7, <1>8, <1>9, <1>10, <1>11, LedgerStepsOnly,
       RowStepsOnly DEF LedgerSteps, RowSteps

LEMMA SharesInit == Init => SharesAccounted
<1> SUFFICES ASSUME Init PROVE SharesAccounted
  OBVIOUS
<1>1. \A i \in Investments : ReservedBy[i] = 0
  BY DEF Init, ReservedBy, Reserved
<1>2. SumFunctionOnSet(ReservedBy, Investments) = 0
  BY <1>1, ConstantTypes, SumZero
<1>3. DOMAIN ReservedBy = Investments
  BY DEF ReservedBy
<1>4. SumFunction(ReservedBy) = 0
  BY <1>2, <1>3 DEF SumFunction
<1>5. avail = TotalShares /\ taken = 0 /\ TotalShares \in Nat
  BY ConstantTypes DEF Init
<1> QED BY <1>4, <1>5 DEF SharesAccounted, ReservedBy

-----------------------------------------------------------------------------
(* The ownerships *)

CreditsOf(v) == [i \in Investments |-> IF Owner[i] = v THEN creditUnits[i] ELSE 0]
HealsOf(v) == [h \in Hashes |-> IF h \in healed /\ Recipient(h) = v THEN RawUnits(h) ELSE 0]

LEMMA HashesFinite == IsFiniteSet(Hashes)
BY ConstantTypes, FS_Interval DEF Hashes

LEMMA CreditTypes ==
  ASSUME TypeInv, HealedReleases, NEW v \in Investors
  PROVE  /\ \A i \in Investments : CreditsOf(v)[i] \in Nat
         /\ \A h \in Hashes : HealsOf(v)[h] \in Nat
         /\ CreditedTo(v) = SumFunctionOnSet(CreditsOf(v), Investments) /\ CreditedTo(v) \in Nat
         /\ HealedTo(v) = SumFunctionOnSet(HealsOf(v), Hashes) /\ HealedTo(v) \in Nat
<1>1. \A i \in Investments : CreditsOf(v)[i] \in Nat
  BY DEF CreditsOf, TypeInv, TypeOK, GhostsTyped
<1>2. \A h \in Hashes : HealsOf(v)[h] \in Nat
  BY CostType DEF HealsOf, HealedReleases, TypeInv, TypeOK
<1>3. CreditedTo(v) = SumFunctionOnSet(CreditsOf(v), Investments)
  BY DEF CreditedTo, CreditsOf, SumFunction
<1>4. HealedTo(v) = SumFunctionOnSet(HealsOf(v), Hashes)
  BY DEF HealedTo, HealsOf, SumFunction
<1>5. CreditedTo(v) \in Nat
  BY <1>1, <1>3, ConstantTypes, SumNat
<1>6. HealedTo(v) \in Nat
  BY <1>2, <1>4, HashesFinite, SumNat
<1> QED BY <1>1, <1>2, <1>3, <1>4, <1>5, <1>6

\* The steps that allocate shares, and count them in the asset.
Allocations ==
  \/ \E k \in JobIds : FinalizeTokenizationCommit(k)
  \/ \E w \in Verifiers : FinalizeVerified(w)
  \/ \E i \in Investments : IndexConfirmIntent(i)
  \/ IndexSelfHeal

AllocatedKept == UNCHANGED <<owned, funded, investorCount, healed, creditUnits>>

LEMMA AllocationsOnly ==
  ASSUME [Next]_vars, ~Allocations
  PROVE  AllocatedKept
<1>1. CASE ~LedgerSteps
  BY <1>1, LedgerStepsOnly DEF LedgerKept, AllocatedKept
<1>2. ASSUME NEW i \in Investments, CreateInvestmentCommit(i) \/ CreateInvestmentIntent(i)
      PROVE  AllocatedKept
  BY <1>2 DEF CreateInvestmentCommit, CreateInvestmentIntent, indexVars, ghostVars, AllocatedKept
<1>3. ASSUME NEW k \in JobIds, HandleFailure(k)
      PROVE  AllocatedKept
  BY <1>3 DEF HandleFailure, HandleInvestmentFailure, indexVars, AllocatedKept
<1>4. ASSUME NEW w \in Verifiers, FailVerification(w)
      PROVE  AllocatedKept
  BY <1>4 DEF FailVerification, HandleInvestmentFailure, indexVars, AllocatedKept
<1> QED BY <1>1, <1>2, <1>3, <1>4 DEF LedgerSteps, Allocations

LEMMA HealedStep ==
  ASSUME TypeInv, SettlementInv, HealedReleases, [Next]_vars
  PROVE  HealedReleases'
<1>1. \A h \in healed : chain'[h] = chain[h]
  BY EvidenceStays DEF HealedReleases, EvidenceKept, Evidence, TypeInv, TypeOK, IndexTyped
<1>2. CASE healed' = healed
  BY <1>1, <1>2 DEF HealedReleases
<1>3. CASE IndexSelfHeal
  BY <1>1, <1>3, HealFacts DEF HealedReleases, IndexSelfHeal, chainVars
<1>4. ~IndexSelfHeal => healed' = healed
  BY AllocationsOnly DEF Allocations, AllocatedKept, FinalizeTokenizationCommit,
     FinalizeVerified, IndexConfirmIntent, indexVars
<1> QED BY <1>2, <1>3, <1>4

\* What was healed stays so while the indexer makes no new row.
LEMMA HealsKept ==
  ASSUME TypeInv, HealedReleases, [Next]_vars, healed' = healed, NEW v \in Investors
  PROVE  HealedTo(v)' = HealedTo(v)
<1>1. \A h \in healed : chain'[h] = chain[h]
  BY EvidenceStays DEF HealedReleases, EvidenceKept, Evidence, TypeInv, TypeOK, IndexTyped
<1>2. HealsOf(v)' = HealsOf(v)
  BY <1>1 DEF HealsOf, Recipient, RawUnits
<1> QED BY <1>2 DEF HealedTo, HealsOf

\* Shares credited for one more investment are credited to its owner.
LEMMA CreditMove ==
  ASSUME TypeInv, HealedReleases, NEW i \in Investments, NEW n \in Nat, creditUnits[i] = 0,
         creditUnits' = [creditUnits EXCEPT ![i] = n], NEW v \in Investors
  PROVE  CreditedTo(v)' = CreditedTo(v) + IF v = Owner[i] THEN n ELSE 0
<1>1. /\ \A j \in Investments : creditUnits[j] \in Nat
      /\ \A j \in Investments : creditUnits'[j] = IF j = i THEN n ELSE creditUnits[j]
  BY DEF TypeInv, TypeOK, GhostsTyped
<1>2. /\ \A j \in Investments : CreditsOf(v)[j] \in Int /\ CreditsOf(v)'[j] \in Int
      /\ \A j \in Investments \ {i} : CreditsOf(v)[j] = CreditsOf(v)'[j]
      /\ CreditsOf(v)[i] = 0 /\ CreditsOf(v)'[i] = IF v = Owner[i] THEN n ELSE 0
  BY <1>1 DEF CreditsOf
<1>3. SumFunctionOnSet(CreditsOf(v)', Investments)
        = SumFunctionOnSet(CreditsOf(v), Investments) + CreditsOf(v)'[i] - CreditsOf(v)[i]
  BY <1>2, ConstantTypes, SumChange
<1>4. CreditedTo(v)' = SumFunctionOnSet(CreditsOf(v)', Investments)
  BY DEF CreditedTo, CreditsOf, SumFunction
<1> QED BY <1>2, <1>3, <1>4, CreditTypes

\* A row the indexer makes is the recipient's.
LEMMA HealMove ==
  ASSUME TypeInv, HealedReleases, NEW h \in Hashes, h \notin healed, RawUnits(h) \in Nat,
         healed' = healed \cup {h}, chain' = chain, NEW v \in Investors
  PROVE  HealedTo(v)' = HealedTo(v) + IF v = Recipient(h) THEN RawUnits(h) ELSE 0
<1>1. /\ \A g \in Hashes : HealsOf(v)[g] \in Int /\ HealsOf(v)'[g] \in Int
      /\ \A g \in Hashes \ {h} : HealsOf(v)[g] = HealsOf(v)'[g]
      /\ HealsOf(v)[h] = 0 /\ HealsOf(v)'[h] = IF v = Recipient(h) THEN RawUnits(h) ELSE 0
  <2>1. \A g \in Hashes : Recipient(g)' = Recipient(g) /\ RawUnits(g)' = RawUnits(g)
    BY DEF Recipient, RawUnits
  <2>2. \A g \in Hashes : HealsOf(v)[g] \in Nat
    BY CreditTypes
  <2>3. \A g \in Hashes : HealsOf(v)[g] = IF g \in healed /\ Recipient(g) = v THEN RawUnits(g) ELSE 0
    BY DEF HealsOf
  <2>4. \A g \in Hashes : HealsOf(v)'[g] = IF g \in healed' /\ Recipient(g) = v THEN RawUnits(g) ELSE 0
    BY <2>1 DEF HealsOf
  <2> QED BY <2>2, <2>3, <2>4
<1>2. SumFunctionOnSet(HealsOf(v)', Hashes)
        = SumFunctionOnSet(HealsOf(v), Hashes) + HealsOf(v)'[h] - HealsOf(v)[h]
  BY <1>1, HashesFinite, SumChange
<1>3. HealedTo(v)' = SumFunctionOnSet(HealsOf(v)', Hashes)
  BY DEF HealedTo, HealsOf, SumFunction
<1> QED BY <1>1, <1>2, <1>3, CreditTypes

LEMMA OwnershipStep ==
  ASSUME TypeInv, SettlementInv, CreditedIffConfirmed, HealedReleases, OwnershipMatchesCredits,
         [Next]_vars
  PROVE  OwnershipMatchesCredits'
<1> USE DEF TypeInv, TypeOK
<1>0. \A v \in Investors : /\ owned[v] = CreditedTo(v) + HealedTo(v) /\ owned[v] \in Nat
                           /\ CreditedTo(v) \in Nat /\ HealedTo(v) \in Nat
  BY CreditTypes DEF OwnershipMatchesCredits, AssetTyped
<1>1. CASE AllocatedKept
  <2>1. \A v \in Investors : HealedTo(v)' = HealedTo(v)
    BY <1>1, HealsKept DEF AllocatedKept
  <2>2. \A v \in Investors : CreditedTo(v)' = CreditedTo(v)
    BY <1>1 DEF AllocatedKept, CreditedTo
  <2> QED BY <1>1, <2>1, <2>2 DEF AllocatedKept, OwnershipMatchesCredits
<1>2. ASSUME NEW i \in Investments, NEW n \in Nat, status[i] # "CONFIRMED", healed' = healed,
             creditUnits' = [creditUnits EXCEPT ![i] = n], owned' = [owned EXCEPT ![Owner[i]] = @ + n]
      PROVE  OwnershipMatchesCredits'
  <2>1. creditUnits[i] = 0
    BY <1>2 DEF CreditedIffConfirmed, GhostsTyped
  <2>2. ASSUME NEW v \in Investors PROVE owned'[v] = CreditedTo(v)' + HealedTo(v)'
    <3>1. owned'[v] = owned[v] + IF v = Owner[i] THEN n ELSE 0
      BY <1>0, <1>2, ConstantTypes DEF AssetTyped
    <3>2. CreditedTo(v)' = CreditedTo(v) + IF v = Owner[i] THEN n ELSE 0
      BY <1>2, <2>1, CreditMove
    <3>3. HealedTo(v)' = HealedTo(v)
      BY <1>2, HealsKept
    <3> QED BY <1>0, <3>1, <3>2, <3>3
  <2> QED BY <2>2 DEF OwnershipMatchesCredits
<1>3. ASSUME NEW k \in JobIds, FinalizeTokenizationCommit(k)
      PROVE  OwnershipMatchesCredits'
  <2>1. /\ job[k].inv \in Investments /\ status[job[k].inv] # "CONFIRMED"
        /\ Units[job[k].inv] \in Nat /\ healed' = healed
        /\ creditUnits' = [creditUnits EXCEPT ![job[k].inv] = Units[job[k].inv]]
        /\ owned' = [owned EXCEPT ![Owner[job[k].inv]] = @ + Units[job[k].inv]]
    BY <1>3, CommitFacts, ConstantTypes DEF FinalizeTokenizationCommit, AddShares, indexVars
  <2> QED BY <2>1, <1>2
<1>4. ASSUME NEW w \in Verifiers, FinalizeVerified(w)
      PROVE  OwnershipMatchesCredits'
  <2>1. /\ w[1] \in Investments /\ status[w[1]] # "CONFIRMED"
        /\ Units[w[1]] \in Nat /\ healed' = healed
        /\ creditUnits' = [creditUnits EXCEPT ![w[1]] = Units[w[1]]]
        /\ owned' = [owned EXCEPT ![Owner[w[1]]] = @ + Units[w[1]]]
    BY <1>4, VerdictFacts, ConstantTypes DEF FinalizeVerified, AddShares, Settled, indexVars
  <2> QED BY <2>1, <1>2
<1>5. ASSUME NEW i \in Investments, IndexConfirmIntent(i)
      PROVE  OwnershipMatchesCredits'
  <2>1. PICK n \in Nat : n = RawUnits(idx.hash)
    BY <1>5, IntentFacts
  <2>2. /\ status[i] # "CONFIRMED" /\ healed' = healed
        /\ creditUnits' = [creditUnits EXCEPT ![i] = n]
        /\ owned' = [owned EXCEPT ![Owner[i]] = @ + n]
    BY <1>5, <2>1, IntentFacts DEF IndexConfirmIntent, ProcessAssetMutation, Recipient
  <2> QED BY <2>2, <1>2
<1>6. ASSUME IndexSelfHeal
      PROVE  OwnershipMatchesCredits'
  <2>1. PICK h \in Hashes : h = idx.hash
    BY <1>6, HealFacts
  <2>2. /\ h \notin healed /\ RawUnits(h) \in Nat /\ Recipient(h) \in Investors
        /\ healed' = healed \cup {h} /\ chain' = chain /\ creditUnits' = creditUnits
        /\ owned' = [owned EXCEPT ![Recipient(h)] = @ + RawUnits(h)]
    BY <1>6, <2>1, HealFacts DEF IndexSelfHeal, ProcessAssetMutation, chainVars
  <2>3. ASSUME NEW v \in Investors PROVE owned'[v] = CreditedTo(v)' + HealedTo(v)'
    <3>1. owned'[v] = owned[v] + IF v = Recipient(h) THEN RawUnits(h) ELSE 0
      BY <1>0, <2>2 DEF AssetTyped
    <3>2. CreditedTo(v)' = CreditedTo(v)
      BY <2>2 DEF CreditedTo
    <3>3. HealedTo(v)' = HealedTo(v) + IF v = Recipient(h) THEN RawUnits(h) ELSE 0
      BY <2>2, HealMove
    <3> QED BY <1>0, <2>2, <3>1, <3>2, <3>3
  <2> QED BY <2>3 DEF OwnershipMatchesCredits
<1> QED BY <1>1, <1>3, <1>4, <1>5, <1>6, AllocationsOnly DEF Allocations

LEMMA OwnershipInit == Init => HealedReleases /\ OwnershipMatchesCredits
<1> SUFFICES ASSUME Init PROVE HealedReleases /\ OwnershipMatchesCredits
  OBVIOUS
<1>1. HealedReleases
  BY DEF Init, HealedReleases
<1>2. ASSUME NEW v \in Investors PROVE owned[v] = CreditedTo(v) + HealedTo(v)
  <2>1. /\ \A i \in Investments : CreditsOf(v)[i] = 0
        /\ \A h \in Hashes : HealsOf(v)[h] = 0
    BY DEF Init, CreditsOf, HealsOf
  <2>2. CreditedTo(v) = 0
    BY <2>1, ConstantTypes, SumZero DEF CreditedTo, CreditsOf, SumFunction
  <2>3. HealedTo(v) = 0
    BY <2>1, HashesFinite, SumZero DEF HealedTo, HealsOf, SumFunction
  <2> QED BY <2>2, <2>3 DEF Init
<1> QED BY <1>1, <1>2 DEF OwnershipMatchesCredits

-----------------------------------------------------------------------------
(* The totals of the asset *)

BroughtBy == [i \in Investments |-> Brought(i)]
ChargedBy == [h \in Hashes |-> Charged(h)]

LEMMA CostOf ==
  \A i \in Investments : (Units[i] * Scale) * SharePrice \in Nat
<1>1. \A m, n \in Nat : m * n \in Nat
  OBVIOUS
<1> QED BY <1>1, ConstantTypes

\* What a row brings in is a natural number in every reachable state.
LEMMA BroughtTypes ==
  ASSUME TypeInv, HealedReleases
  PROVE  /\ \A i \in Investments : Brought(i) \in Nat
         /\ \A h \in Hashes : Charged(h) \in Nat
<1>1. \A h \in Hashes : chain[h].kind = "release" => Cost(h) \in Nat
  BY CostType DEF TypeInv, TypeOK
<1> QED BY <1>1, ConstantTypes DEF Brought, Price, IsRelease, Charged, HealedReleases

\* Neither the settlement mode of a row nor the shares of an investor is taken
\* back.
LEMMA ModeStays ==
  ASSUME TypeInv, SettlementInv, [Next]_vars, NEW i \in Investments, status[i] # "NONE"
  PROVE  mode'[i] = mode[i]
<1> USE DEF TypeInv, TypeOK, RowsTyped
<1>1. CASE RowsKept
  BY <1>1 DEF RowsKept
<1>2. ASSUME NEW j \in Investments, CreateInvestmentCommit(j) \/ CreateInvestmentIntent(j)
      PROVE  mode'[i] = mode[i]
  <2>1. status[j] = "NONE"
    BY <1>2 DEF CreateInvestmentCommit, CreateInvestmentIntent, Fresh, SettlementInv, OpenInv
  <2> QED BY <1>2, <2>1 DEF CreateInvestmentCommit, CreateInvestmentIntent
<1>3. ASSUME NEW j \in Investments, NEW h \in Hashes, SubmitOnChainTransaction(j, h)
      PROVE  mode'[i] = mode[i]
  BY <1>3 DEF SubmitOnChainTransaction
<1>4. ASSUME NEW k \in JobIds, FinalizeTokenizationCommit(k) \/ HandleFailure(k)
      PROVE  mode'[i] = mode[i]
  BY <1>4 DEF FinalizeTokenizationCommit, HandleFailure, HandleInvestmentFailure
<1>5. ASSUME NEW w \in Verifiers, FailVerification(w) \/ FinalizeVerified(w)
      PROVE  mode'[i] = mode[i]
  BY <1>5 DEF FailVerification, HandleInvestmentFailure, FinalizeVerified
<1>6. ASSUME NEW h \in Hashes, IndexKnown(h)
      PROVE  mode'[i] = mode[i]
  BY <1>6 DEF IndexKnown
<1>7. ASSUME NEW j \in Investments, IndexConfirmIntent(j)
      PROVE  mode'[i] = mode[i]
  BY <1>7 DEF IndexConfirmIntent
<1> QED BY <1>1, <1>2, <1>3, <1>4, <1>5, <1>6, <1>7, RowStepsOnly DEF RowSteps

LEMMA OwnedGrows ==
  ASSUME TypeInv, SettlementInv, [Next]_vars
  PROVE  \A v \in Investors : owned'[v] >= owned[v]
<1>0. owned \in [Investors -> Nat]
  BY DEF TypeInv, TypeOK, AssetTyped
<1>1. CASE AllocatedKept
  BY <1>0, <1>1 DEF AllocatedKept
<1>2. ASSUME NEW u \in Investors, NEW n \in Nat, owned' = [owned EXCEPT ![u] = @ + n]
      PROVE  \A v \in Investors : owned'[v] >= owned[v]
  BY <1>0, <1>2
<1>3. ASSUME NEW k \in JobIds, FinalizeTokenizationCommit(k)
      PROVE  \A v \in Investors : owned'[v] >= owned[v]
  <2>1. /\ Owner[job[k].inv] \in Investors /\ Units[job[k].inv] \in Nat
        /\ owned' = [owned EXCEPT ![Owner[job[k].inv]] = @ + Units[job[k].inv]]
    BY <1>3, CommitFacts, ConstantTypes DEF FinalizeTokenizationCommit, AddShares
  <2> QED BY <2>1, <1>2
<1>4. ASSUME NEW w \in Verifiers, FinalizeVerified(w)
      PROVE  \A v \in Investors : owned'[v] >= owned[v]
  <2>1. /\ Owner[w[1]] \in Investors /\ Units[w[1]] \in Nat
        /\ owned' = [owned EXCEPT ![Owner[w[1]]] = @ + Units[w[1]]]
    BY <1>4, ConstantTypes DEF FinalizeVerified, AddShares, Verifiers
  <2> QED BY <2>1, <1>2
<1>5. ASSUME NEW i \in Investments, IndexConfirmIntent(i)
      PROVE  \A v \in Investors : owned'[v] >= owned[v]
  <2>1. /\ Recipient(idx.hash) \in Investors /\ RawUnits(idx.hash) \in Nat
        /\ owned' = [owned EXCEPT ![Recipient(idx.hash)] = @ + RawUnits(idx.hash)]
    BY <1>5, IntentFacts, ConstantTypes DEF IndexConfirmIntent, ProcessAssetMutation, Recipient
  <2> QED BY <2>1, <1>2
<1>6. ASSUME IndexSelfHeal
      PROVE  \A v \in Investors : owned'[v] >= owned[v]
  <2>1. /\ Recipient(idx.hash) \in Investors /\ RawUnits(idx.hash) \in Nat
        /\ owned' = [owned EXCEPT ![Recipient(idx.hash)] = @ + RawUnits(idx.hash)]
    BY <1>6, HealFacts DEF IndexSelfHeal, ProcessAssetMutation
  <2> QED BY <2>1, <1>2
<1> QED BY <1>1, <1>3, <1>4, <1>5, <1>6, AllocationsOnly DEF Allocations

\* A confirmed row and a row the indexer made go on bringing in what they did.
LEMMA BroughtStays ==
  ASSUME TypeInv, SettlementInv, OnChainConfirmationHasEvidence, HealedReleases, [Next]_vars
  PROVE  /\ \A i \in Investments : status[i] = "CONFIRMED" => Brought(i)' = Brought(i)
         /\ \A i \in Investments : status'[i] = status[i] => Brought(i)' = Brought(i)
         /\ \A h \in healed : h \in healed' /\ Charged(h)' = Charged(h)
         /\ \A h \in Hashes : h \notin healed' => Charged(h)' = 0
<1> USE DEF TypeInv, TypeOK
<1>1. ASSUME NEW i \in Investments, status[i] = "CONFIRMED"
      PROVE  Brought(i)' = Brought(i)
  <2>1. status'[i] = "CONFIRMED" /\ txHash'[i] = txHash[i] /\ mode'[i] = mode[i]
    BY <1>1, FinalStep, ModeStays DEF ConfirmedKept
  <2>2. CASE mode[i] = "ON_CHAIN"
    <3>1. txHash[i] \in Hashes /\ Evidence(txHash[i])
      BY <1>1, <2>2 DEF OnChainConfirmationHasEvidence, Evidence, Confirmed, RowsTyped
    <3>2. chain'[txHash[i]] = chain[txHash[i]]
      BY <3>1, EvidenceStays DEF EvidenceKept
    <3> QED BY <1>1, <2>1, <3>2 DEF Brought, Price, IsRelease, Cost, RawUnits
  <2>3. CASE mode[i] # "ON_CHAIN"
    BY <1>1, <2>1, <2>3 DEF Brought, Price
  <2> QED BY <2>2, <2>3
<1>2. ASSUME NEW i \in Investments, status'[i] = status[i]
      PROVE  Brought(i)' = Brought(i)
  BY <1>1, <1>2 DEF Brought
<1>3. healed \subseteq healed'
  BY AllocationsOnly DEF Allocations, AllocatedKept, FinalizeTokenizationCommit,
     FinalizeVerified, IndexConfirmIntent, indexVars, IndexSelfHeal
<1>4. \A h \in healed : chain'[h] = chain[h]
  BY EvidenceStays DEF HealedReleases, EvidenceKept, Evidence, IndexTyped
<1>5. \A h \in healed : h \in healed' /\ Charged(h)' = Charged(h)
  BY <1>3, <1>4 DEF Charged, Cost, RawUnits
<1>6. \A h \in Hashes : h \notin healed' => Charged(h)' = 0
  BY DEF Charged
<1> QED BY <1>1, <1>2, <1>5, <1>6

\* What was brought in before the step is a natural number after it too.
LEMMA BroughtTypedAfter ==
  ASSUME TypeInv, SettlementInv, HealedReleases, [Next]_vars
  PROVE  /\ \A i \in Investments : Brought(i)' \in Nat
         /\ \A h \in Hashes : Charged(h)' \in Nat
<1>1. TypeInv' /\ HealedReleases'
  BY InvariantStep, HealedStep
<1>2. \A h \in Hashes : chain'[h].kind = "release" => chain'[h].inv \in Investments
  BY <1>1 DEF TypeInv, TypeOK, ChainTyped
<1>3. \A h \in Hashes : chain'[h].kind = "release" => Cost(h)' \in Nat
  BY <1>2, CostOf DEF Cost, RawUnits
<1>4. \A i \in Investments : Brought(i)' \in Nat
  BY <1>3, ConstantTypes DEF Brought, Price, IsRelease, Cost, RawUnits
<1>5. \A h \in Hashes : Charged(h)' \in Nat
  BY <1>1, <1>3 DEF Charged, HealedReleases
<1> QED BY <1>4, <1>5

LEMMA EarnedSums ==
  /\ Earned = SumFunctionOnSet(BroughtBy, Investments) + SumFunctionOnSet(ChargedBy, Hashes)
  /\ Earned' = SumFunctionOnSet(BroughtBy', Investments) + SumFunctionOnSet(ChargedBy', Hashes)
BY DEF Earned, BroughtBy, ChargedBy, SumFunction

\* The totals the asset may claim only grow; with a row that was not confirmed
\* by what it brings in, with a row of the indexer's by what it is charged.
LEMMA EarnedGrows ==
  ASSUME TypeInv, SettlementInv, OnChainConfirmationHasEvidence, HealedReleases, [Next]_vars
  PROVE  Earned \in Nat /\ Earned' \in Nat /\ Earned' >= Earned
<1>1. /\ \A i \in Investments : BroughtBy[i] \in Nat /\ BroughtBy'[i] \in Nat
      /\ \A h \in Hashes : ChargedBy[h] \in Nat /\ ChargedBy'[h] \in Nat
  BY BroughtTypes, BroughtTypedAfter DEF BroughtBy, ChargedBy
<1>2. \A i \in Investments : BroughtBy[i] <= BroughtBy'[i]
  <2>1. \A i \in Investments : status[i] # "CONFIRMED" => BroughtBy[i] = 0
    BY DEF BroughtBy, Brought
  <2>2. \A i \in Investments : status[i] = "CONFIRMED" => BroughtBy'[i] = BroughtBy[i]
    BY BroughtStays DEF BroughtBy
  <2> QED BY <1>1, <2>1, <2>2
<1>3. \A h \in Hashes : ChargedBy[h] <= ChargedBy'[h]
  <2>1. \A h \in Hashes : h \notin healed => ChargedBy[h] = 0
    BY DEF ChargedBy, Charged
  <2>2. \A h \in Hashes : h \in healed => ChargedBy'[h] = ChargedBy[h]
    BY BroughtStays DEF ChargedBy
  <2> QED BY <1>1, <2>1, <2>2
<1>4. /\ SumFunctionOnSet(BroughtBy, Investments) <= SumFunctionOnSet(BroughtBy', Investments)
      /\ SumFunctionOnSet(ChargedBy, Hashes) <= SumFunctionOnSet(ChargedBy', Hashes)
  <2>1. /\ \A i \in Investments : BroughtBy[i] \in Int /\ BroughtBy'[i] \in Int
        /\ \A h \in Hashes : ChargedBy[h] \in Int /\ ChargedBy'[h] \in Int
    BY <1>1
  <2> QED BY <1>2, <1>3, <2>1, ConstantTypes, HashesFinite, SumMonotone
<1>5. /\ SumFunctionOnSet(BroughtBy, Investments) \in Nat
      /\ SumFunctionOnSet(BroughtBy', Investments) \in Nat
      /\ SumFunctionOnSet(ChargedBy, Hashes) \in Nat
      /\ SumFunctionOnSet(ChargedBy', Hashes) \in Nat
  BY <1>1, ConstantTypes, HashesFinite, SumNat
<1> QED BY <1>4, <1>5, EarnedSums

LEMMA EarnedByRow ==
  ASSUME TypeInv, SettlementInv, OnChainConfirmationHasEvidence, HealedReleases, [Next]_vars,
         NEW i \in Investments, status[i] # "CONFIRMED",
         \A j \in Investments \ {i} : status'[j] = status[j], healed' = healed
  PROVE  Earned' = Earned + Brought(i)'
<1>1. /\ \A j \in Investments : BroughtBy[j] \in Nat /\ BroughtBy'[j] \in Nat
      /\ \A h \in Hashes : ChargedBy[h] \in Nat
  BY BroughtTypes, BroughtTypedAfter DEF BroughtBy, ChargedBy
<1>2. \A j \in Investments \ {i} : BroughtBy[j] = BroughtBy'[j]
  BY BroughtStays DEF BroughtBy
<1>3. BroughtBy[i] = 0 /\ BroughtBy'[i] = Brought(i)'
  BY DEF BroughtBy, Brought
<1>4. SumFunctionOnSet(BroughtBy', Investments)
        = SumFunctionOnSet(BroughtBy, Investments) + BroughtBy'[i] - BroughtBy[i]
  <2>1. \A j \in Investments : BroughtBy[j] \in Int /\ BroughtBy'[j] \in Int
    BY <1>1
  <2> QED BY <1>2, <2>1, ConstantTypes, SumChange
<1>5. ChargedBy' = ChargedBy
  <2>1. \A h \in Hashes : Charged(h)' = Charged(h)
    BY BroughtStays DEF Charged
  <2> QED BY <2>1 DEF ChargedBy
<1>6. /\ SumFunctionOnSet(BroughtBy, Investments) \in Nat
      /\ SumFunctionOnSet(ChargedBy, Hashes) \in Nat
  BY <1>1, ConstantTypes, HashesFinite, SumNat
<1>7. BroughtBy'[i] \in Nat
  BY <1>1
<1> QED BY <1>3, <1>4, <1>5, <1>6, <1>7, EarnedSums

LEMMA EarnedByRelease ==
  ASSUME TypeInv, SettlementInv, OnChainConfirmationHasEvidence, HealedReleases, [Next]_vars,
         NEW h \in Hashes, h \notin healed, healed' = healed \cup {h}, status' = status
  PROVE  Earned' = Earned + Charged(h)'
<1>1. /\ \A j \in Investments : BroughtBy[j] \in Nat
      /\ \A g \in Hashes : ChargedBy[g] \in Nat /\ ChargedBy'[g] \in Nat
  BY BroughtTypes, BroughtTypedAfter DEF BroughtBy, ChargedBy
<1>2. \A g \in Hashes \ {h} : ChargedBy[g] = ChargedBy'[g]
  <2>1. \A g \in Hashes \ {h} : g \in healed => Charged(g)' = Charged(g)
    BY BroughtStays
  <2>2. \A g \in Hashes \ {h} : g \notin healed => Charged(g)' = Charged(g)
    BY DEF Charged
  <2> QED BY <2>1, <2>2 DEF ChargedBy
<1>3. ChargedBy[h] = 0 /\ ChargedBy'[h] = Charged(h)'
  BY DEF ChargedBy, Charged
<1>4. SumFunctionOnSet(ChargedBy', Hashes)
        = SumFunctionOnSet(ChargedBy, Hashes) + ChargedBy'[h] - ChargedBy[h]
  <2>1. \A g \in Hashes : ChargedBy[g] \in Int /\ ChargedBy'[g] \in Int
    BY <1>1
  <2> QED BY <1>2, <2>1, HashesFinite, SumChange
<1>5. BroughtBy' = BroughtBy
  BY BroughtStays DEF BroughtBy
<1>6. /\ SumFunctionOnSet(BroughtBy, Investments) \in Nat
      /\ SumFunctionOnSet(ChargedBy, Hashes) \in Nat
  BY <1>1, ConstantTypes, HashesFinite, SumNat
<1>7. ChargedBy'[h] \in Nat
  BY <1>1
<1> QED BY <1>3, <1>4, <1>5, <1>6, <1>7, EarnedSums

\* Holders become more, by the investor whose first shares these are.
LEMMA HoldersGrow ==
  ASSUME TypeInv, SettlementInv, [Next]_vars
  PROVE  /\ Cardinality(Holders) \in Nat /\ Cardinality(Holders') \in Nat
         /\ Cardinality(Holders') >= Cardinality(Holders)
<1>1. Holders \subseteq Holders' /\ Holders' \subseteq Investors
  <2>1. TypeInv'
    BY InvariantStep
  <2>2. owned \in [Investors -> Nat] /\ owned' \in [Investors -> Nat]
    BY <2>1 DEF TypeInv, TypeOK, AssetTyped
  <2> QED BY <2>2, OwnedGrows DEF Holders
<1>2. IsFiniteSet(Holders')
  BY <1>1, ConstantTypes, FS_Subset
<1>3. IsFiniteSet(Holders) /\ Cardinality(Holders) <= Cardinality(Holders')
  BY <1>1, <1>2, FS_Subset
<1> QED BY <1>2, <1>3, FS_CardinalityType

LEMMA HoldersByShares ==
  ASSUME TypeInv, NEW v \in Investors, NEW n \in Nat, n > 0,
         owned' = [owned EXCEPT ![v] = @ + n]
  PROVE  /\ Cardinality(Holders') = Cardinality(Holders) + NewInvestors(v)
         /\ Cardinality(Holders) \in Nat /\ NewInvestors(v) \in Nat
<1>1. owned \in [Investors -> Nat]
  BY DEF TypeInv, TypeOK, AssetTyped
<1>2. IsFiniteSet(Holders)
  <2>1. Holders \subseteq Investors
    BY DEF Holders
  <2> QED BY <2>1, ConstantTypes, FS_Subset
<1>3. Holders' = Holders \cup {v}
  <2>1. \A u \in Investors : owned'[u] > 0 <=> owned[u] > 0 \/ u = v
    BY <1>1
  <2> QED BY <2>1 DEF Holders
<1>4. v \in Holders <=> owned[v] # 0
  BY <1>1 DEF Holders
<1>5. Cardinality(Holders \cup {v}) = IF v \in Holders THEN Cardinality(Holders) ELSE Cardinality(Holders) + 1
  BY <1>2, FS_AddElement
<1> QED BY <1>2, <1>3, <1>4, <1>5, FS_CardinalityType DEF NewInvestors

\* What is modest stays so: its bounds only grow.
LEMMA ModestStays ==
  ASSUME TypeInv, SettlementInv, OnChainConfirmationHasEvidence, HealedReleases, [Next]_vars,
         NEW total \in Snapshot, Modest(total)
  PROVE  total.funded <= Earned' /\ total.investors <= Cardinality(Holders')
<1>1. total.funded \in Nat /\ total.investors \in Nat
  BY DEF Snapshot
<1> QED BY <1>1, EarnedGrows, HoldersGrow DEF Modest

\* Totals written back with one allocation more claim no more than there is.
LEMMA TotalsWritten ==
  ASSUME TypeInv, SettlementInv, OnChainConfirmationHasEvidence, HealedReleases, [Next]_vars,
         NEW total \in Snapshot, Modest(total), NEW v \in Investors, NEW n \in Nat, n > 0,
         NEW gain \in Nat, owned' = [owned EXCEPT ![v] = @ + n], Earned' = Earned + gain,
         funded' = total.funded + gain, investorCount' = total.investors + NewInvestors(v)
  PROVE  funded' <= Earned' /\ investorCount' <= Cardinality(Holders')
<1>1. /\ total.funded \in Nat /\ total.investors \in Nat
      /\ total.funded <= Earned /\ total.investors <= Cardinality(Holders)
  BY DEF Snapshot, Modest
<1>2. /\ Cardinality(Holders') = Cardinality(Holders) + NewInvestors(v)
      /\ Cardinality(Holders) \in Nat /\ NewInvestors(v) \in Nat
  BY HoldersByShares
<1>3. Earned \in Nat
  BY EarnedGrows
<1> QED BY <1>1, <1>2, <1>3

LEMMA FundedStep ==
  ASSUME TypeInv, SettlementInv, OnChainConfirmationHasEvidence, HealedReleases, FundingInv,
         [Next]_vars
  PROVE  funded' <= Earned' /\ investorCount' <= Cardinality(Holders')
<1> USE DEF TypeInv, TypeOK
<1>0. PICK now \in Snapshot : now = [funded |-> funded, investors |-> investorCount] /\ Modest(now)
  BY DEF FundingInv, Snapshot, AssetTyped
<1>1. CASE AllocatedKept
  <2>1. now.funded <= Earned' /\ now.investors <= Cardinality(Holders')
    BY <1>0, ModestStays
  <2> QED BY <1>0, <1>1, <2>1 DEF AllocatedKept
<1>2. ASSUME NEW k \in JobIds, FinalizeTokenizationCommit(k)
      PROVE  funded' <= Earned' /\ investorCount' <= Cardinality(Holders')
  <2>1. PICK i \in Investments : i = job[k].inv
    BY <1>2, CommitFacts
  <2>2. PICK total \in Snapshot : total = job[k].snap /\ Modest(total)
    BY <1>2, JobFields DEF FinalizeTokenizationCommit, FundingInv, JobsTyped
  <2>3. /\ status[i] # "CONFIRMED" /\ mode'[i] = "OFF_CHAIN" /\ status'[i] = "CONFIRMED"
        /\ \A j \in Investments \ {i} : status'[j] = status[j]
        /\ healed' = healed
        /\ owned' = [owned EXCEPT ![Owner[i]] = @ + Units[i]]
        /\ funded' = total.funded + Amount[i]
        /\ investorCount' = total.investors + NewInvestors(Owner[i])
    BY <1>2, <2>1, <2>2, CommitFacts
       DEF FinalizeTokenizationCommit, AddShares, RowsTyped, indexVars
  <2>4. Brought(i)' = Amount[i]
    BY <2>3 DEF Brought, Price
  <2>5. Earned' = Earned + Amount[i]
    BY <2>3, <2>4, EarnedByRow
  <2> QED BY <2>2, <2>3, <2>5, ConstantTypes, TotalsWritten
<1>3. ASSUME NEW w \in Verifiers, FinalizeVerified(w)
      PROVE  funded' <= Earned' /\ investorCount' <= Cardinality(Holders')
  <2>1. PICK i \in Investments : i = w[1]
    BY DEF Verifiers
  <2>2. /\ status[i] # "CONFIRMED" /\ status'[i] = "CONFIRMED"
        /\ \A j \in Investments \ {i} : status'[j] = status[j]
        /\ healed' = healed /\ txHash' = txHash /\ chain' = chain
        /\ owned' = [owned EXCEPT ![Owner[i]] = @ + Units[i]]
        /\ funded' = now.funded + Amount[i]
        /\ investorCount' = now.investors + NewInvestors(Owner[i])
    BY <1>0, <1>3, <2>1 DEF FinalizeVerified, AddShares, RowsTyped, Settled, indexVars, chainVars
  <2>3. chain[txHash[i]].kind = "deposit"
    BY <1>3, <2>1, VerdictFacts DEF FinalizeVerified, SameIntent
  <2>4. Brought(i)' = Amount[i]
    BY <2>2, <2>3 DEF Brought, Price, IsRelease
  <2>5. Earned' = Earned + Amount[i]
    BY <2>2, <2>4, EarnedByRow
  <2> QED BY <1>0, <2>2, <2>5, ConstantTypes, TotalsWritten
<1>4. ASSUME idx.pc = "mutating"
      PROVE  \E total \in Snapshot : total = idx.snap /\ Modest(total)
  BY <1>4 DEF FundingInv, IndexTyped, Idx
<1>5. ASSUME NEW i \in Investments, IndexConfirmIntent(i)
      PROVE  funded' <= Earned' /\ investorCount' <= Cardinality(Holders')
  <2>1. PICK h \in Hashes : h = idx.hash
    BY <1>5, IntentFacts
  <2>2. PICK total \in Snapshot : total = idx.snap /\ Modest(total)
    BY <1>4, <1>5 DEF IndexConfirmIntent
  <2>3. /\ chain[h].kind = "release" /\ mode[i] = "ON_CHAIN" /\ status[i] = "PENDING"
        /\ RawUnits(h) \in Nat /\ RawUnits(h) > 0
    BY <1>5, <2>1, IntentFacts
  <2>4. Recipient(h) \in Investors /\ Cost(h) \in Nat
    BY <2>3, CostType
  <2>5. /\ status'[i] = "CONFIRMED" /\ txHash'[i] = h /\ mode' = mode
        /\ \A j \in Investments \ {i} : status'[j] = status[j]
        /\ healed' = healed /\ chain' = chain
        /\ owned' = [owned EXCEPT ![Recipient(h)] = @ + RawUnits(h)]
        /\ funded' = total.funded + Cost(h)
        /\ investorCount' = total.investors + NewInvestors(Recipient(h))
    BY <1>5, <2>1, <2>2 DEF IndexConfirmIntent, ProcessAssetMutation, RowsTyped, chainVars
  <2>6. Brought(i)' = Cost(h)
    <3>1. Cost(h)' = Cost(h)
      BY <2>5 DEF Cost, RawUnits
    <3> QED BY <2>3, <2>5, <3>1 DEF Brought, Price, IsRelease
  <2>7. Earned' = Earned + Cost(h)
    BY <2>3, <2>5, <2>6, EarnedByRow
  <2> QED BY <2>2, <2>3, <2>4, <2>5, <2>7, TotalsWritten
<1>6. ASSUME IndexSelfHeal
      PROVE  funded' <= Earned' /\ investorCount' <= Cardinality(Holders')
  <2>1. PICK h \in Hashes : h = idx.hash
    BY <1>6, HealFacts
  <2>2. PICK total \in Snapshot : total = idx.snap /\ Modest(total)
    BY <1>4, <1>6 DEF IndexSelfHeal
  <2>3. /\ h \notin healed /\ RawUnits(h) \in Nat /\ RawUnits(h) > 0
        /\ Recipient(h) \in Investors /\ Cost(h) \in Nat
    BY <1>6, <2>1, HealFacts
  <2>4. /\ status' = status /\ healed' = healed \cup {h} /\ chain' = chain
        /\ owned' = [owned EXCEPT ![Recipient(h)] = @ + RawUnits(h)]
        /\ funded' = total.funded + Cost(h)
        /\ investorCount' = total.investors + NewInvestors(Recipient(h))
    BY <1>6, <2>1, <2>2 DEF IndexSelfHeal, ProcessAssetMutation, rowVars, chainVars
  <2>5. Charged(h)' = Cost(h)
    BY <2>4 DEF Charged, Cost, RawUnits
  <2>6. Earned' = Earned + Cost(h)
    BY <2>3, <2>4, <2>5, EarnedByRelease
  <2> QED BY <2>2, <2>3, <2>4, <2>6, TotalsWritten
<1> QED BY <1>1, <1>2, <1>3, <1>5, <1>6, AllocationsOnly DEF Allocations

LEMMA FundingStep ==
  ASSUME TypeInv, SettlementInv, OnChainConfirmationHasEvidence, HealedReleases, FundingInv,
         [Next]_vars
  PROVE  FundingInv'
<1> USE DEF TypeInv, TypeOK
<1>0. PICK now \in Snapshot : now = [funded |-> funded, investors |-> investorCount] /\ Modest(now)
  BY DEF FundingInv, Snapshot, AssetTyped
<1>1. Modest([funded |-> funded, investors |-> investorCount])'
  BY FundedStep DEF Modest
<1>2. ASSUME NEW total \in Snapshot, Modest(total) PROVE Modest(total)'
  BY <1>2, ModestStays DEF Modest
<1>3. \A k \in JobIds : job[k].st = "locked" => job[k].snap \in Snapshot /\ Modest(job[k].snap)
  BY JobFields DEF FundingInv, JobsTyped
<1>4. idx.pc = "mutating" => idx.snap \in Snapshot /\ Modest(idx.snap)
  BY DEF FundingInv, IndexTyped, Idx
<1>5. CASE SnapshotsKept
  <2>1. ASSUME NEW k \in JobIds, job'[k].st = "locked" PROVE Modest(job[k].snap)'
    <3>1. job'[k].snap \in Snapshot /\ Modest(job'[k].snap)
      BY <1>3, <1>5, <2>1 DEF SnapshotsKept
    <3>2. PICK total \in Snapshot : total = job'[k].snap /\ Modest(total)
      BY <3>1
    <3>3. Modest(total)'
      BY <3>2, <1>2
    <3> QED BY <3>2, <3>3 DEF Modest
  <2>2. ASSUME idx'.pc = "mutating" PROVE Modest(idx.snap)'
    <3>1. PICK total \in Snapshot : total = idx'.snap /\ Modest(total)
      BY <1>4, <1>5, <2>2 DEF SnapshotsKept
    <3>2. Modest(total)'
      BY <3>1, <1>2
    <3> QED BY <3>1, <3>2 DEF Modest
  <2> QED BY <1>1, <2>1, <2>2 DEF FundingInv
<1>6. ASSUME NEW k \in JobIds, FinalizeTokenizationLock(k)
      PROVE  FundingInv'
  <2>1. \A l \in JobIds \ {k} : job'[l] = job[l]
    BY <1>6 DEF FinalizeTokenizationLock, JobDone, JobsTyped
  <2>2. job'[k].st = "locked" => job'[k].snap = now
    BY <1>0, <1>6 DEF FinalizeTokenizationLock, JobDone, NoJob, JobsTyped, Job
  <2>3. ASSUME NEW l \in JobIds, job'[l].st = "locked" PROVE Modest(job[l].snap)'
    <3>1. PICK total \in Snapshot : total = job'[l].snap /\ Modest(total)
      BY <1>0, <1>3, <2>1, <2>2, <2>3
    <3>2. Modest(total)'
      BY <3>1, <1>2
    <3> QED BY <3>1, <3>2 DEF Modest
  <2>4. ASSUME idx'.pc = "mutating" PROVE Modest(idx.snap)'
    <3>1. PICK total \in Snapshot : total = idx'.snap /\ Modest(total)
      BY <1>4, <1>6, <2>4 DEF FinalizeTokenizationLock, indexVars
    <3>2. Modest(total)'
      BY <3>1, <1>2
    <3> QED BY <3>1, <3>2 DEF Modest
  <2> QED BY <1>1, <2>3, <2>4 DEF FundingInv
<1>7. ASSUME NEW h \in Hashes, IndexRead(h)
      PROVE  FundingInv'
  <2>1. ASSUME NEW l \in JobIds, job'[l].st = "locked" PROVE Modest(job[l].snap)'
    <3>1. PICK total \in Snapshot : total = job'[l].snap /\ Modest(total)
      BY <1>3, <1>7, <2>1 DEF IndexRead
    <3>2. Modest(total)'
      BY <3>1, <1>2
    <3> QED BY <3>1, <3>2 DEF Modest
  <2>2. idx'.snap = now
    BY <1>0, <1>7 DEF IndexRead
  <2>3. Modest(now)'
    BY <1>0, <1>2
  <2>4. Modest(idx.snap)'
    BY <2>2, <2>3 DEF Modest
  <2> QED BY <1>1, <2>1, <2>4 DEF FundingInv
<1> QED BY <1>5, <1>6, <1>7, SnapshotReadsOnly DEF SnapshotReads

LEMMA FundingInit == Init => FundingInv
<1> SUFFICES ASSUME Init PROVE FundingInv
  OBVIOUS
<1>1. \A i \in Investments : BroughtBy[i] = 0
  BY DEF Init, BroughtBy, Brought
<1>2. \A h \in Hashes : ChargedBy[h] = 0
  BY DEF Init, ChargedBy, Charged
<1>3. Earned = 0
  <2>1. SumFunctionOnSet(BroughtBy, Investments) = 0 /\ SumFunctionOnSet(ChargedBy, Hashes) = 0
    BY <1>1, <1>2, ConstantTypes, HashesFinite, SumZero
  <2> QED BY <2>1, EarnedSums
<1>4. Holders = {}
  BY DEF Init, Holders
<1>5. Cardinality(Holders) = 0
  BY <1>4, FS_EmptySet
<1> QED BY <1>3, <1>5 DEF Init, FundingInv, Modest, NoJob, IdxIdle


-----------------------------------------------------------------------------
(* The theorems *)

\* However many workers, verifiers and retries fail an investment, its
\* reservation comes back once, and it has come back when the row says FAILED.
THEOREM ReservationReturnedOnce == Spec => []ReturnedAtMostOnce
<1>1. Init => ReservationInv
  BY ConstantTypes DEF Init, ReservationInv
<1>2. TypeInv /\ SettlementInv /\ ReservationInv /\ [Next]_vars => ReservationInv'
  BY ReservationStep
<1>3. ReservationInv => ReturnedAtMostOnce
  BY DEF ReservationInv, ReturnedAtMostOnce
<1> QED BY <1>1, <1>2, <1>3, TypeCorrect, SettlementSafe, PTL DEF Spec

\* Retried jobs, jobs for one row and late errors debit an off-chain investor
\* exactly once, and only with the confirmation.
THEOREM PaidExactlyOnce == Spec => []PaidIffConfirmed
<1>1. Init => PaidIffConfirmed
  BY ConstantTypes DEF Init, PaidIffConfirmed
<1>2. TypeInv /\ SettlementInv /\ PaidIffConfirmed /\ [Next]_vars => PaidIffConfirmed'
  BY PaidStep
<1> QED BY <1>1, <1>2, TypeCorrect, SettlementSafe, PTL DEF Spec

\* No way to CONFIRMED forgets to allocate shares, and none allocates shares to
\* an investment that is not confirmed.
THEOREM CreditedWithConfirmation == Spec => []CreditedIffConfirmed
<1>1. Init => CreditedIffConfirmed
  BY ConstantTypes DEF Init, CreditedIffConfirmed
<1>2. TypeInv /\ SettlementInv /\ CreditedIffConfirmed /\ [Next]_vars => CreditedIffConfirmed'
  BY CreditedStep
<1> QED BY <1>1, <1>2, TypeCorrect, SettlementSafe, PTL DEF Spec

\* An off-chain investment is confirmed on the strength of a release of tokens
\* made for it.
THEOREM OffChainBacked == Spec => []OffChainConfirmationHasRelease
<1>1. Init => OffChainConfirmationHasRelease
  BY ConstantTypes DEF Init, OffChainConfirmationHasRelease
<1>2. TypeInv /\ SettlementInv /\ OffChainConfirmationHasRelease /\ [Next]_vars => OffChainConfirmationHasRelease'
  BY OffChainStep
<1> QED BY <1>1, <1>2, TypeCorrect, SettlementSafe, PTL DEF Spec

\* An on-chain investment is confirmed on the strength of a deposit or a
\* release of its owner's.
THEOREM OnChainBacked == Spec => []OnChainConfirmationHasEvidence
<1>1. Init => OnChainConfirmationHasEvidence
  BY ConstantTypes DEF Init, OnChainConfirmationHasEvidence
<1>2. TypeInv /\ SettlementInv /\ OnChainConfirmationHasEvidence /\ [Next]_vars => OnChainConfirmationHasEvidence'
  BY OnChainStep
<1> QED BY <1>1, <1>2, TypeCorrect, SettlementSafe, PTL DEF Spec

\* Whichever path settles an investment, reservation, debit and shares follow
\* the one outcome of its row.
THEOREM OneOutcomeEach == Spec => []OneOutcome
  BY ReservationReturnedOnce, PaidExactlyOnce, CreditedWithConfirmation, PTL DEF OneOutcome

\* Every confirmed investment has its transaction on the chain.
THEOREM ConfirmationBacked == Spec => []ConfirmationIsBacked
  BY OffChainBacked, OnChainBacked, PTL DEF ConfirmationIsBacked

\* Nothing happens to a confirmed investment any more.
THEOREM ConfirmationFinal == Spec => ConfirmedIsFinal
<1>1. TypeInv /\ SettlementInv /\ [Next]_vars =>
        [\A i \in Investments :
           status[i] = "CONFIRMED" => status'[i] = "CONFIRMED" /\ txHash'[i] = txHash[i]]_vars
  BY FinalStep DEF ConfirmedKept
<1> QED BY <1>1, TypeCorrect, SettlementSafe, PTL DEF Spec, ConfirmedIsFinal

\* Whatever is retried, re-queued or fails late, the wallets of the investors and
\* of the partner differ from what they were by the confirmed off-chain
\* investments.
THEOREM InvestmentMoney == Spec => []MoneyMatchesConfirmations
<1>1. Init => MoneyMatchesConfirmations
  BY MoneyInit
<1>2. TypeInv /\ SettlementInv /\ PaidIffConfirmed /\ MoneyMatchesConfirmations /\ [Next]_vars
        => MoneyMatchesConfirmations'
  BY MoneyStep
<1> QED BY <1>1, <1>2, TypeCorrect, SettlementSafe, PaidExactlyOnce, PTL DEF Spec

\* No share is reserved, given back or taken by the indexer without being counted.
THEOREM SharesAreAccounted == Spec => []SharesAccounted
<1>1. Init => ReservationInv /\ SharesAccounted
  BY ConstantTypes, SharesInit DEF Init, ReservationInv
<1>2. TypeInv /\ SettlementInv /\ ReservationInv /\ SharesAccounted /\ [Next]_vars
        => ReservationInv' /\ SharesAccounted'
  BY ReservationStep, SharesStep
<1> QED BY <1>1, <1>2, TypeCorrect, SettlementSafe, PTL DEF Spec

\* The rows the indexer makes of its own stand on releases.
THEOREM HealedFromReleases == Spec => []HealedReleases
<1>1. Init => HealedReleases
  BY OwnershipInit
<1>2. TypeInv /\ SettlementInv /\ HealedReleases /\ [Next]_vars => HealedReleases'
  BY HealedStep
<1> QED BY <1>1, <1>2, TypeCorrect, SettlementSafe, PTL DEF Spec

\* An ownership is the sum of what its investments and the indexer's rows credited.
THEOREM OwnershipsAddUp == Spec => []OwnershipMatchesCredits
<1>1. Init => OwnershipMatchesCredits
  BY OwnershipInit
<1>2. TypeInv /\ SettlementInv /\ CreditedIffConfirmed /\ HealedReleases
        /\ OwnershipMatchesCredits /\ [Next]_vars => OwnershipMatchesCredits'
  BY OwnershipStep
<1> QED BY <1>1, <1>2, TypeCorrect, SettlementSafe, CreditedWithConfirmation, HealedFromReleases,
       PTL DEF Spec

\* Neither the asset's totals nor a stale copy of them ever claims more than the
\* confirmed rows brought in.
THEOREM FundingIsModest == Spec => []FundingInv
<1>1. Init => FundingInv
  BY FundingInit
<1>2. TypeInv /\ SettlementInv /\ OnChainConfirmationHasEvidence /\ HealedReleases /\ FundingInv
        /\ [Next]_vars => FundingInv'
  BY FundingStep
<1> QED BY <1>1, <1>2, TypeCorrect, SettlementSafe, OnChainBacked, HealedFromReleases, PTL DEF Spec

\* The totals beside the investments are what the investments add up to; those of
\* the asset may only fall short.
THEOREM TotalsKept == Spec => []TotalsAgree
<1>1. FundingInv => FundingNeverOverstated
  BY DEF FundingInv, Modest, FundingNeverOverstated
<1>2. OwnershipMatchesCredits /\ SharesAccounted /\ FundingInv => TotalsAgree
  BY <1>1 DEF TotalsAgree
<1> QED BY <1>2, SharesAreAccounted, OwnershipsAddUp, FundingIsModest, PTL

=============================================================================
