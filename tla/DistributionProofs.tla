--------------------------- MODULE DistributionProofs ---------------------------
(* Theorems about Distribution, for any finite sets of holders and batches and *)
(* any reports and amounts.  An income report makes one batch; the amounts add *)
(* up, from the partner's wallet to the single payout, however they are        *)
(* rounded; a payout is granted once at most by each approval that runs at     *)
(* once, and its row tells how its holder was paid; while one approval runs at *)
(* a time, the proofs that are served are accepted.                            *)
EXTENDS Distribution, SumTheorems, TLAPS

USE DistributionAssumption DEF Nothing

\* The types the proofs need.
Typed ==
  /\ distributed \in [Incomes -> BOOLEAN]
  /\ row = [b \in Batches |-> [h \in Holders |-> row[b][h]]]
  /\ made \in [Batches -> [from : Incomes \cup {Nothing}, total : Nat]]
  /\ credits \in [Batches -> [Holders -> Nat]]
  /\ allotments \in [Batches -> [Holders -> Nat]]
  /\ admin = [a \in Admins |-> admin[a]]
  /\ \A a \in Admins : admin[a].pc = "APPROVING" =>
       admin[a].batch \in Batches /\ admin[a].off \subseteq DOMAIN admin[a].payouts

\* What a step leaves alone, for the steps that touch none of it.
Untouched == UNCHANGED <<rowVars, moneyVars, admin>>

LEMMA TypedInit == Init => Typed
  BY DEF Init, Typed, Idle

LEMMA TypedStep == Typed /\ [Next]_vars => Typed'
<1> SUFFICES ASSUME Typed, [Next]_vars PROVE Typed'
  OBVIOUS
<1>0. CASE UNCHANGED vars
  BY <1>0 DEF Typed, vars
<1>1. ASSUME NEW b \in Batches, NEW last \in Eligible, NEW x \in Incomes,
             TriggerDistributionFromIncome(x, b, last)
      PROVE  Typed'
  BY <1>1 DEF Typed, TriggerDistributionFromIncome, TriggerYieldDistribution, moneyVars
<1>2. ASSUME NEW b \in Batches, NEW last \in Eligible, NEW total \in Amounts,
             Distribute(b, total, last)
      PROVE  Typed'
  BY <1>2 DEF Typed, Distribute, TriggerYieldDistribution, moneyVars
<1>3. ASSUME NEW a \in Admins, NEW b \in Batches, ApproveRead(a, b)
      PROVE  Typed'
  BY <1>3 DEF Typed, ApproveRead, moneyVars, rowVars
<1>4. ASSUME NEW a \in Admins, NEW last \in Holders, ApproveCommit(a, last)
      PROVE  Typed'
  <2>1. admin[a].batch \in Batches
    BY <1>4 DEF Typed, ApproveCommit
  <2>2. row' = [b \in Batches |-> [h \in Holders |-> row'[b][h]]]
    BY <1>4, <2>1 DEF Typed, ApproveCommit
  <2>3. credits' \in [Batches -> [Holders -> Nat]]
    BY <1>4, <2>1 DEF Typed, ApproveCommit
  <2>4. allotments' \in [Batches -> [Holders -> Nat]]
    BY <1>4, <2>1 DEF Typed, ApproveCommit
  <2>5. /\ admin' = [c \in Admins |-> admin'[c]]
        /\ \A c \in Admins : c # a => admin'[c] = admin[c]
        /\ admin'[a].pc = "NOTARISING"
    BY <1>4 DEF Typed, ApproveCommit
  <2> QED BY <1>4, <2>2, <2>3, <2>4, <2>5 DEF Typed, ApproveCommit
<1>5. ASSUME NEW a \in Admins, ApproveAbort(a) \/ Notarise(a) \/ NotaryFailed(a)
      PROVE  Typed'
  <2>1. admin' = [admin EXCEPT ![a] = Idle] /\ UNCHANGED <<rowVars, moneyVars>>
    BY <1>5 DEF ApproveAbort, Notarise, NotaryFailed
  <2>2. /\ admin' = [c \in Admins |-> admin'[c]]
        /\ \A c \in Admins : c # a => admin'[c] = admin[c]
        /\ admin'[a].pc = "IDLE"
    BY <2>1 DEF Typed, Idle
  <2> QED BY <2>1, <2>2 DEF Typed, moneyVars, rowVars
<1>6. ASSUME NEW b \in Batches, RejectDistributionBatch(b)
      PROVE  Typed'
  BY <1>6 DEF Typed, RejectDistributionBatch, moneyVars
<1>7. ASSUME NEW h \in Holders, ConfirmSave(h)
      PROVE  Typed'
  <2> DEFINE c == confirm[h].batch
             saved == [confirm[h].row EXCEPT !.status = "PAID"]
  <2>1. row' = [row EXCEPT ![c][h] = saved]
    BY <1>7 DEF ConfirmSave
  <2>2. row' = [b \in Batches |-> [k \in Holders |->
                   IF b = c /\ k = h THEN saved ELSE row[b][k]]]
    <3> HIDE DEF c, saved
    <3> QED BY <2>1 DEF Typed
  <2>3. row' = [b \in Batches |-> [k \in Holders |-> row'[b][k]]]
    <3> HIDE DEF c, saved
    <3> QED BY <2>2
  <2> QED BY <1>7, <2>3 DEF Typed, ConfirmSave, moneyVars
<1>8. ASSUME NEW b \in Batches, HandleYieldRecorded(b)
      PROVE  Typed'
  BY <1>8 DEF Typed, HandleYieldRecorded, moneyVars
<1>9. Untouched => Typed'
  BY DEF Untouched, Typed, moneyVars, rowVars
<1>10. ASSUME NEW h \in Holders, NEW b \in Batches,
              \/ UpdateProfile(h) \/ GetUserMerkleProof(b, h) \/ Claim(b, h)
              \/ ConfirmRead(b, h) \/ HandleYieldClaimed(b, h)
       PROVE  Typed'
  BY <1>10, <1>9 DEF Untouched, UpdateProfile, GetUserMerkleProof, Claim, ConfirmRead,
     HandleYieldClaimed
<1> QED
  BY <1>0, <1>1, <1>2, <1>3, <1>4, <1>5, <1>6, <1>7, <1>8, <1>9, <1>10 DEF Next, PartnerStep,
     ApproveStep, NotaryStep, HolderStep, IndexerStep, Untouched, UpdateProfile

\* A batch that does not exist yet has no report.
IncomeInv ==
  /\ \A b \in Batches : made[b].total = 0 => made[b].from = Nothing
  /\ IncomeMakesOneBatch

LEMMA IncomeStep == Typed /\ IncomeInv /\ [Next]_vars => IncomeInv'
<1> SUFFICES ASSUME Typed, IncomeInv, [Next]_vars PROVE IncomeInv'
  OBVIOUS
<1>1. ASSUME NEW b \in Batches, NEW last \in Eligible, NEW x \in Incomes,
             TriggerDistributionFromIncome(x, b, last)
      PROVE  IncomeInv'
  BY <1>1 DEF Typed, IncomeInv, IncomeMakesOneBatch, TriggerDistributionFromIncome,
     TriggerYieldDistribution, Unused
<1>2. ASSUME NEW b \in Batches, NEW last \in Eligible, NEW total \in Amounts,
             Distribute(b, total, last)
      PROVE  IncomeInv'
  BY <1>2 DEF Typed, IncomeInv, IncomeMakesOneBatch, Distribute, TriggerYieldDistribution, Unused
<1>3. UNCHANGED <<distributed, made>> => IncomeInv'
  BY DEF IncomeInv, IncomeMakesOneBatch
<1> QED
  BY <1>1, <1>2, <1>3 DEF Next, PartnerStep, ApproveStep, NotaryStep, HolderStep, IndexerStep,
     ApproveRead, ApproveCommit, ApproveAbort, Notarise, NotaryFailed, RejectDistributionBatch,
     UpdateProfile, GetUserMerkleProof, Claim, ConfirmRead, ConfirmSave, HandleYieldRecorded,
     HandleYieldClaimed, rowVars, vars

\* However many requests name an income report, one of them makes a batch of it
\* (triggerDistributionFromIncome, under the lock of the report's row).
THEOREM OneBatchPerIncome == Spec => []IncomeMakesOneBatch
<1>1. Init => IncomeInv
  BY DEF Init, IncomeInv, IncomeMakesOneBatch
<1>2. IncomeInv => IncomeMakesOneBatch
  BY DEF IncomeInv
<1> QED BY <1>1, <1>2, TypedInit, TypedStep, IncomeStep, PTL DEF Spec

-----------------------------------------------------------------------------
Granted(b, h) == credits[b][h] + allotments[b][h]

\* The approvals that have read a payout as pending and may still grant it.
Readers(b, h) ==
  {a \in Admins : /\ admin[a].pc = "APPROVING"
                  /\ admin[a].batch = b
                  /\ h \in DOMAIN admin[a].payouts}

\* Whoever has granted a payout does not read it again: a payout that is pending
\* was not granted, and a batch that does not exist has no payouts.
GrantInv ==
  /\ \A b \in Batches, h \in Holders :
       Granted(b, h) + Cardinality(Readers(b, h)) <= Cardinality(Admins)
  /\ \A b \in Batches, h \in Holders : row[b][h].status = "PENDING" =>
       made[b].total # 0 /\ Granted(b, h) = 0
  /\ \A b \in Batches, h \in Holders : made[b].total = 0 => Granted(b, h) = 0
  /\ \A a \in Admins : admin[a].pc = "APPROVING" =>
       /\ DOMAIN admin[a].payouts \subseteq Holders
       /\ made[admin[a].batch].total # 0

LEMMA ReadersFinite ==
  ASSUME NEW b, NEW h
  PROVE  /\ IsFiniteSet(Readers(b, h)) /\ Cardinality(Readers(b, h)) \in Nat
         /\ Cardinality(Readers(b, h)) <= Cardinality(Admins)
         /\ Cardinality(Admins) \in Nat
<1>1. Readers(b, h) \subseteq Admins
  BY DEF Readers
<1> QED BY <1>1, FewApprovals, FS_Subset, FS_CardinalityType

LEMMA FewerReaders ==
  ASSUME NEW b, NEW h, Readers(b, h)' \subseteq Readers(b, h)
  PROVE  Cardinality(Readers(b, h)') \in Nat /\ Cardinality(Readers(b, h)') <= Cardinality(Readers(b, h))
  BY ReadersFinite, FS_Subset, FS_CardinalityType

\* A step that grants nothing and lets nobody read keeps the count.
LEMMA CountKept ==
  ASSUME Typed, GrantInv, UNCHANGED <<credits, allotments>>,
         \A a \in Admins : admin'[a] = admin[a] \/ admin'[a].pc # "APPROVING"
  PROVE  \A b \in Batches, h \in Holders :
           Granted(b, h)' + Cardinality(Readers(b, h)') <= Cardinality(Admins)
<1> SUFFICES ASSUME NEW b \in Batches, NEW h \in Holders
             PROVE  Granted(b, h)' + Cardinality(Readers(b, h)') <= Cardinality(Admins)
  OBVIOUS
<1>1. Readers(b, h)' \subseteq Readers(b, h)
  BY DEF Readers
<1>2. Granted(b, h)' = Granted(b, h) /\ Granted(b, h) \in Nat
  BY DEF Granted, Typed
<1>3. Granted(b, h) + Cardinality(Readers(b, h)) <= Cardinality(Admins)
  BY DEF GrantInv
<1> QED BY <1>1, <1>2, <1>3, FewerReaders, ReadersFinite

LEMMA GrantStep == Typed /\ GrantInv /\ [Next]_vars => GrantInv'
<1> SUFFICES ASSUME Typed, GrantInv, [Next]_vars PROVE GrantInv'
  OBVIOUS
<1>0. CASE UNCHANGED vars
  BY <1>0, CountKept DEF GrantInv, Granted, vars
<1>1. ASSUME NEW b \in Batches, NEW total \in Nat \ {0}, NEW last \in Eligible, NEW from,
             TriggerYieldDistribution(b, total, last, from), UNCHANGED <<admin, moneyVars>>
      PROVE  GrantInv'
  <2>1. /\ made'[b].total # 0
        /\ \A c \in Batches : c # b => made'[c] = made[c] /\ row'[c] = row[c]
        /\ \A c \in Batches : made[c].total # 0 => made'[c].total # 0
        /\ admin' = admin /\ credits' = credits /\ allotments' = allotments
    BY <1>1 DEF Typed, TriggerYieldDistribution, moneyVars
  <2>2. \A h \in Holders : Granted(b, h) = 0
    BY <1>1 DEF GrantInv, TriggerYieldDistribution, Unused
  <2>3. \A c \in Batches, h \in Holders :
          Granted(c, h)' + Cardinality(Readers(c, h)') <= Cardinality(Admins)
    BY <2>1, CountKept
  <2>4. \A c \in Batches, h \in Holders : row'[c][h].status = "PENDING" =>
           made'[c].total # 0 /\ Granted(c, h)' = 0
    BY <2>1, <2>2 DEF GrantInv, Granted
  <2>5. \A c \in Batches, h \in Holders : made'[c].total = 0 => Granted(c, h)' = 0
    BY <2>1 DEF GrantInv, Granted
  <2> QED BY <2>1, <2>3, <2>4, <2>5 DEF GrantInv, Granted, Typed
<1>2. ASSUME NEW a \in Admins, NEW b \in Batches, ApproveRead(a, b)
      PROVE  GrantInv'
  <2> DEFINE S == Rows(b, {"PENDING"})
             new == [pc |-> "APPROVING", batch |-> b, payouts |-> [h \in S |-> row[b][h]],
                     off |-> {h \in S : mode[h] = "OFF_CHAIN"}]
  <2>1. /\ admin' = [admin EXCEPT ![a] = new] /\ admin[a].pc = "IDLE" /\ S # {}
        /\ UNCHANGED <<row, made, credits, allotments>>
    BY <1>2 DEF ApproveRead, rowVars, moneyVars
  <2>2. new.pc = "APPROVING" /\ new.batch = b /\ DOMAIN new.payouts = S
    OBVIOUS
  <2> HIDE DEF new
  <2>3. admin'[a] = new /\ \A c \in Admins : c # a => admin'[c] = admin[c]
    BY <2>1 DEF Typed
  <2>4. S \subseteq Holders /\ made[b].total # 0 /\ \A h \in S : Granted(b, h) = 0
    BY <2>1 DEF Rows, GrantInv
  <2>5. ASSUME NEW c \in Batches, NEW h \in Holders
        PROVE  Granted(c, h)' + Cardinality(Readers(c, h)') <= Cardinality(Admins)
    <3>1. Granted(c, h)' = Granted(c, h) /\ Granted(c, h) \in Nat
      BY <2>1 DEF Granted, Typed
    <3>2. CASE c = b /\ h \in S
      <4>1. Readers(c, h)' \subseteq Admins
        BY DEF Readers
      <4>2. Cardinality(Readers(c, h)') \in Nat /\ Cardinality(Readers(c, h)') <= Cardinality(Admins)
        BY <4>1, FewApprovals, FS_Subset, FS_CardinalityType
      <4>3. Granted(c, h) = 0
        BY <2>4, <3>2
      <4> QED BY <3>1, <4>2, <4>3, ReadersFinite
    <3>3. CASE ~(c = b /\ h \in S)
      <4>1. Readers(c, h)' \subseteq Readers(c, h)
        BY <2>1, <2>2, <2>3, <3>3 DEF Readers
      <4>2. Granted(c, h) + Cardinality(Readers(c, h)) <= Cardinality(Admins)
        BY DEF GrantInv
      <4> QED BY <3>1, <4>1, <4>2, FewerReaders, ReadersFinite
    <3> QED BY <3>2, <3>3
  <2>6. \A c \in Admins : admin'[c].pc = "APPROVING" =>
           DOMAIN admin'[c].payouts \subseteq Holders /\ made'[admin'[c].batch].total # 0
    BY <2>1, <2>2, <2>3, <2>4 DEF GrantInv
  <2>7. \A c \in Batches, h \in Holders :
          /\ row'[c][h].status = "PENDING" => made'[c].total # 0 /\ Granted(c, h)' = 0
          /\ made'[c].total = 0 => Granted(c, h)' = 0
    BY <2>1 DEF GrantInv, Granted
  <2> QED BY <2>5, <2>6, <2>7 DEF GrantInv
<1>3. ASSUME NEW a \in Admins, NEW last \in Holders, ApproveCommit(a, last)
      PROVE  GrantInv'
  <2> DEFINE b == admin[a].batch
             S == DOMAIN admin[a].payouts
  <2>1. /\ admin[a].pc = "APPROVING" /\ b \in Batches /\ S \subseteq Holders
        /\ admin[a].off \subseteq S /\ made[b].total # 0 /\ made' = made
    BY <1>3 DEF ApproveCommit, Typed, GrantInv
  <2>2. \A c \in Batches, h \in Holders :
           /\ credits'[c][h] = IF c = b /\ h \in admin[a].off THEN credits[c][h] + 1
                               ELSE credits[c][h]
           /\ allotments'[c][h] = IF c = b /\ h \in OnChainPart(a) THEN allotments[c][h] + 1
                                  ELSE allotments[c][h]
    BY <1>3, <2>1 DEF ApproveCommit, Typed
  <2>a. OnChainPart(a) = S \ admin[a].off
    BY DEF OnChainPart
  <2> HIDE DEF S
  <2>3. ASSUME NEW c \in Batches, NEW h \in Holders
        PROVE  \/ c = b /\ h \in S /\ Granted(c, h)' = Granted(c, h) + 1
               \/ ~(c = b /\ h \in S) /\ Granted(c, h)' = Granted(c, h)
    <3>1. CASE c = b /\ h \in S
      <4>1. credits[c][h] \in Nat /\ allotments[c][h] \in Nat
        BY DEF Typed
      <4>2. \/ credits'[c][h] = credits[c][h] + 1 /\ allotments'[c][h] = allotments[c][h]
            \/ credits'[c][h] = credits[c][h] /\ allotments'[c][h] = allotments[c][h] + 1
        BY <2>1, <2>2, <2>a, <3>1
      <4> QED BY <3>1, <4>1, <4>2 DEF Granted
    <3>2. CASE c # b \/ h \notin S
      <4>1. credits'[c][h] = credits[c][h] /\ allotments'[c][h] = allotments[c][h]
        BY <2>1, <2>2, <2>a, <3>2
      <4> QED BY <3>2, <4>1 DEF Granted
    <3> QED BY <3>1, <3>2
  <2> USE DEF S
  <2>4. ASSUME NEW h \in S, NEW net, NEW root
        PROVE  SettledRow(a, h, net, root).status # "PENDING"
    BY DEF SettledRow, NoRow
  <2> DEFINE net == NetShares([h \in S |-> admin[a].payouts[h].amount], admin[a].off, last)
             root == [h \in OnChainPart(a) |-> net[h]]
  <2>c. row' = [row EXCEPT ![b] = [h \in Holders |->
                  IF h \in S THEN SettledRow(a, h, net, root) ELSE row[b][h]]]
    BY <1>3 DEF ApproveCommit
  <2> HIDE DEF S, net, root
  <2>5. \A c \in Batches, h \in Holders :
           \/ c = b /\ h \in S /\ row'[c][h].status # "PENDING"
           \/ ~(c = b /\ h \in S) /\ row'[c][h] = row[c][h]
    BY <2>1, <2>4, <2>c DEF Typed
  <2> USE DEF S
  <2>6. admin'[a].pc = "NOTARISING" /\ \A c \in Admins : c # a => admin'[c] = admin[c]
    BY <1>3 DEF ApproveCommit, Typed
  <2>7. ASSUME NEW c \in Batches, NEW h \in Holders
        PROVE  Granted(c, h)' + Cardinality(Readers(c, h)') <= Cardinality(Admins)
    <3>1. Granted(c, h) + Cardinality(Readers(c, h)) <= Cardinality(Admins)
      BY DEF GrantInv
    <3>2. /\ Granted(c, h) \in Nat /\ IsFiniteSet(Readers(c, h))
          /\ Cardinality(Readers(c, h)) \in Nat /\ Cardinality(Admins) \in Nat
      <4>1. Granted(c, h) \in Nat
        BY DEF Granted, Typed
      <4> QED BY <4>1, ReadersFinite
    <3>3. CASE c = b /\ h \in S
      <4>1. a \in Readers(c, h)
        BY <2>1, <3>3 DEF Readers
      <4>2. Readers(c, h)' \subseteq Readers(c, h) \ {a}
        BY <2>6 DEF Readers
      <4>3. /\ IsFiniteSet(Readers(c, h) \ {a})
            /\ Cardinality(Readers(c, h) \ {a}) = Cardinality(Readers(c, h)) - 1
        BY <3>2, <4>1, FS_RemoveElement
      <4>4. Cardinality(Readers(c, h)') \in Nat
            /\ Cardinality(Readers(c, h)') <= Cardinality(Readers(c, h) \ {a})
        BY <4>2, <4>3, FS_Subset, FS_CardinalityType
      <4> QED BY <2>3, <3>1, <3>2, <3>3, <4>3, <4>4
    <3>4. CASE ~(c = b /\ h \in S)
      <4>1. Readers(c, h)' \subseteq Readers(c, h)
        BY <2>6 DEF Readers
      <4>2. Granted(c, h)' = Granted(c, h)
        BY <2>3, <3>4
      <4> QED BY <3>1, <3>2, <4>1, <4>2, FewerReaders
    <3> QED BY <3>3, <3>4
  <2>10. \A c \in Admins : admin'[c].pc = "APPROVING" =>
           DOMAIN admin'[c].payouts \subseteq Holders /\ made'[admin'[c].batch].total # 0
    BY <2>1, <2>6 DEF GrantInv
  <2>8. \A c \in Batches, h \in Holders : row'[c][h].status = "PENDING" =>
           made'[c].total # 0 /\ Granted(c, h)' = 0
    BY <2>1, <2>3, <2>5 DEF GrantInv
  <2>9. \A c \in Batches, h \in Holders : made'[c].total = 0 => Granted(c, h)' = 0
    BY <2>1, <2>3 DEF GrantInv
  <2> QED BY <2>7, <2>8, <2>9, <2>10 DEF GrantInv
<1>4. ASSUME NEW a \in Admins, ApproveAbort(a) \/ Notarise(a) \/ NotaryFailed(a)
      PROVE  GrantInv'
  <2>1. /\ admin' = [admin EXCEPT ![a] = Idle] /\ UNCHANGED <<row, made, credits, allotments>>
    BY <1>4 DEF ApproveAbort, Notarise, NotaryFailed, moneyVars, rowVars
  <2>2. admin'[a].pc # "APPROVING" /\ \A c \in Admins : c # a => admin'[c] = admin[c]
    BY <2>1 DEF Typed, Idle
  <2>3. \A c \in Admins : admin'[c] = admin[c] \/ admin'[c].pc # "APPROVING"
    BY <2>2
  <2>4. \A b \in Batches, h \in Holders :
          Granted(b, h)' + Cardinality(Readers(b, h)') <= Cardinality(Admins)
    BY <2>1, <2>3, CountKept
  <2> QED BY <2>1, <2>3, <2>4 DEF GrantInv, Granted
<1>5. ASSUME NEW b \in Batches, RejectDistributionBatch(b)
      PROVE  GrantInv'
  BY <1>5, CountKept DEF GrantInv, Granted, Typed, RejectDistributionBatch, NoRow, Rows, moneyVars
<1>6. ASSUME NEW h \in Holders, ConfirmSave(h)
      PROVE  GrantInv'
  BY <1>6, CountKept DEF GrantInv, Granted, Typed, ConfirmSave, moneyVars
<1>7. ASSUME NEW b \in Batches, HandleYieldRecorded(b)
      PROVE  GrantInv'
  BY <1>7, CountKept DEF GrantInv, Granted, Typed, HandleYieldRecorded, moneyVars
<1>8. Untouched => GrantInv'
  BY CountKept DEF Untouched, GrantInv, Granted, Typed, moneyVars, rowVars
<1>9. CASE PartnerStep
  BY <1>1, <1>9 DEF PartnerStep, TriggerDistributionFromIncome, Distribute, moneyVars
<1>10. ASSUME NEW h \in Holders, NEW b \in Batches,
              \/ UpdateProfile(h) \/ GetUserMerkleProof(b, h) \/ Claim(b, h)
              \/ ConfirmRead(b, h) \/ HandleYieldClaimed(b, h)
       PROVE  GrantInv'
  BY <1>10, <1>8 DEF Untouched, UpdateProfile, GetUserMerkleProof, Claim, ConfirmRead,
     HandleYieldClaimed
<1> QED
  BY <1>0, <1>2, <1>3, <1>4, <1>5, <1>6, <1>7, <1>8, <1>9, <1>10 DEF Next, PartnerStep,
     ApproveStep, NotaryStep, HolderStep, IndexerStep, Untouched, UpdateProfile

LEMMA GrantInit == Init => GrantInv
<1> SUFFICES ASSUME Init PROVE GrantInv
  OBVIOUS
<1>1. ASSUME NEW b \in Batches, NEW h \in Holders
      PROVE  Granted(b, h) + Cardinality(Readers(b, h)) <= Cardinality(Admins)
  <2>1. Granted(b, h) = 0
    BY DEF Init, Granted
  <2> QED BY <2>1, ReadersFinite
<1> QED BY <1>1 DEF Init, GrantInv, Granted, NoRow, Idle

\* Whatever holders change, confirm or claim and whatever is rejected meanwhile,
\* an approval grants a payout once, and only if it has read it before the first
\* of the others committed (approveDistributionBatch).
THEOREM ApprovalsPayOnceEach == Spec => []PaidOncePerApproval
<1>1. Typed /\ GrantInv => PaidOncePerApproval
  <2> SUFFICES ASSUME Typed, GrantInv, NEW b \in Batches, NEW h \in Holders
               PROVE  credits[b][h] + allotments[b][h] <= Cardinality(Admins)
    BY DEF PaidOncePerApproval
  <2>1. Granted(b, h) + Cardinality(Readers(b, h)) <= Cardinality(Admins)
    BY DEF GrantInv
  <2>2. Granted(b, h) = credits[b][h] + allotments[b][h] /\ Granted(b, h) \in Nat
    BY DEF Granted, Typed
  <2> QED BY <2>1, <2>2, ReadersFinite
<1> QED BY <1>1, GrantInit, GrantStep, TypedInit, TypedStep, PTL DEF Spec

\* While approvals run one at a time, no payout is granted twice.
THEOREM SerialApprovalsPayOnce ==
  ASSUME \A a, c \in Admins : a = c
  PROVE  Spec => []PaidOnce
<1>1. Cardinality(Admins) <= 1
  <2>1. CASE Admins = {}
    BY <2>1, FS_EmptySet
  <2>2. ASSUME NEW a \in Admins PROVE Cardinality(Admins) <= 1
    <3>1. Admins = {a}
      BY <2>2
    <3>2. Cardinality({a}) = 1
      BY FS_Singleton
    <3> QED BY <3>1, <3>2
  <2> QED BY <2>1, <2>2
<1>2. Typed /\ PaidOncePerApproval => PaidOnce
  <2> SUFFICES ASSUME Typed, PaidOncePerApproval, NEW b \in Batches, NEW h \in Holders
               PROVE  credits[b][h] + allotments[b][h] <= 1
    BY DEF PaidOnce
  <2>1. credits[b][h] + allotments[b][h] <= Cardinality(Admins)
    BY DEF PaidOncePerApproval
  <2>2. credits[b][h] \in Nat /\ allotments[b][h] \in Nat /\ Cardinality(Admins) \in Nat
    BY FewApprovals, FS_CardinalityType DEF Typed
  <2> QED BY <1>1, <2>1, <2>2
<1> QED BY <1>2, ApprovalsPayOnceEach, TypedInit, TypedStep, PTL DEF Spec

-----------------------------------------------------------------------------
(* Totals and rounding *)

LEMMA TotalInt ==
  ASSUME NEW S, IsFiniteSet(S), NEW f \in [S -> Int]
  PROVE  Total(f) \in Int
  BY SumInt DEF Total, SumFunction

LEMMA RoundInt ==
  ASSUME NEW num \in Int, NEW den \in Nat \ {0}
  PROVE  Round(num, den) \in Int
  BY DEF Round

LEMMA EligibleFinite == IsFiniteSet(Eligible) /\ Eligible \subseteq Holders
  BY FS_Subset DEF Eligible

LEMMA UnitsTotal ==
  ASSUME NEW last \in Eligible
  PROVE  Total(Units) \in Nat \ {0}
<1>1. last \in Holders /\ Units[last] \in Nat /\ Units[last] > 0
  BY DEF Eligible
<1>2. SumFunctionOnSet(Units, Holders \ {last}) \in Nat
  <2>1. IsFiniteSet(Holders \ {last})
    BY FS_RemoveElement
  <2> QED BY <2>1, SumNat
<1>3. SumFunctionOnSet(Units, Holders) = Units[last] + SumFunctionOnSet(Units, Holders \ {last})
  BY <1>1, SumRemove
<1> QED BY <1>1, <1>2, <1>3 DEF Total, SumFunction

LEMMA GrossSharesInt ==
  ASSUME NEW total \in Int, NEW last \in Eligible
  PROVE  GrossShares(total, last) \in [Eligible -> Int]
<1> DEFINE S == Eligible \ {last}
           share == [h \in S |-> Round(total * Units[h], Total(Units))]
<1>1. share \in [S -> Int]
  <2> SUFFICES ASSUME NEW h \in S PROVE Round(total * Units[h], Total(Units)) \in Int
    OBVIOUS
  <2>1. total * Units[h] \in Int
    <3>1. \A m, n \in Int : m * n \in Int
      OBVIOUS
    <3> QED BY <3>1 DEF Eligible
  <2> QED BY <2>1, UnitsTotal, RoundInt
<1>2. Total(share) \in Int
  <2>1. IsFiniteSet(S)
    BY EligibleFinite, FS_RemoveElement
  <2> HIDE DEF S, share
  <2> QED BY <1>1, <2>1, TotalInt
<1>3. GrossShares(total, last) = [h \in Eligible |-> IF h = last THEN total - Total(share) ELSE share[h]]
  BY DEF GrossShares
<1> HIDE DEF share
<1> QED BY <1>1, <1>2, <1>3

LEMMA NetSharesInt ==
  ASSUME NEW S \in SUBSET Holders, NEW amounts \in [S -> Int], NEW off, NEW last \in S
  PROVE  NetShares(amounts, off, last) \in [S -> Int]
<1> DEFINE net == [h \in S |-> Round(99 * amounts[h], 100)]
           part == [h \in S \ {last} |-> net[h]]
           rest == Total(amounts) - PlatformFee(Total(amounts)) - Total(part)
<1>1. net \in [S -> Int] /\ part \in [S \ {last} -> Int]
  BY RoundInt
<1>2. IsFiniteSet(S) /\ IsFiniteSet(S \ {last})
  BY FS_Subset
<1>3. Total(amounts) \in Int /\ Total(part) \in Int
  <2> HIDE DEF net, part
  <2> QED BY <1>1, <1>2, TotalInt
<1>4. rest \in Int
  BY <1>3, RoundInt DEF PlatformFee
<1>5. NetShares(amounts, off, last) = IF off \in {{}, S} THEN [net EXCEPT ![last] = rest] ELSE net
  BY DEF NetShares
<1> HIDE DEF net, rest
<1> QED BY <1>1, <1>4, <1>5

-----------------------------------------------------------------------------
(* Types *)

Roots == UNION {[D -> Int] : D \in SUBSET Linked}
RowType == [amount : Int, status : {"NONE", "PENDING", "READY", "PAID"}, mode : Modes, proof : Roots]
RecordType == [kind : {"NONE", "PLAIN", "MERKLE"}, root : Roots]
Approving ==
  [pc : {"APPROVING"}, batch : Batches, payouts : UNION {[D -> RowType] : D \in SUBSET Holders},
   off : SUBSET Holders]

Tables ==
  /\ mode \in [Holders -> Modes]
  /\ row \in [Batches -> [Holders -> RowType]]
  /\ held \in [Batches -> [Holders -> RowType]]
  /\ partner \in Nat
  /\ \A a \in Admins :
       \/ admin[a] = Idle
       \/ admin[a] \in Approving
       \/ admin[a] \in [pc : {"NOTARISING"}, batch : Batches, record : RecordType]
  /\ \A h \in Holders :
       \/ confirm[h] = Idle
       \/ confirm[h] \in [pc : {"SAVING"}, batch : Batches, row : RowType]
  /\ confirm = [h \in Holders |-> confirm[h]]
  /\ record \in [Batches -> RecordType]
  /\ claimed \subseteq Batches \X Holders
  /\ indexed \subseteq Batches \X (Holders \cup {Nothing})
  /\ spent \in [Batches -> [debited : Int, fees : Int, granted : Int]]
  /\ eager \subseteq Batches \X Holders

LEMMA NothingTyped ==
  /\ NoRoot \in Roots
  /\ NoRow \in RowType
  /\ NoRecord \in RecordType
<1>1. NoRoot \in [{} -> Int]
  BY DEF NoRoot
<1>2. NoRoot \in Roots
  BY <1>1 DEF Roots
<1> QED BY <1>2 DEF NoRow, RowType, NoRecord, RecordType, Modes

LEMMA TablesInit == Init => Tables
<1> SUFFICES ASSUME Init PROVE Tables
  OBVIOUS
<1> QED BY NothingTyped DEF Init, Tables, Modes

LEMMA TablesStep == Typed /\ Tables /\ [Next]_vars => Tables'
<1> SUFFICES ASSUME Typed, Tables, [Next]_vars PROVE Tables'
  OBVIOUS
<1>0. CASE UNCHANGED vars
  BY <1>0 DEF Tables, vars
<1>1. ASSUME row' \in [Batches -> [Holders -> RowType]], UNCHANGED <<mode, admin, held, record, claimed, partner, spent>>,
             confirm' = confirm \/ \E h \in Holders : confirm' = [confirm EXCEPT ![h] = Idle],
             indexed' \subseteq Batches \X (Holders \cup {Nothing}),
             eager' \subseteq Batches \X Holders
      PROVE  Tables'
  <2>1. /\ \A h \in Holders :
             \/ confirm'[h] = Idle
             \/ confirm'[h] \in [pc : {"SAVING"}, batch : Batches, row : RowType]
        /\ confirm' = [h \in Holders |-> confirm'[h]]
    BY <1>1 DEF Tables
  <2> QED BY <1>1, <2>1 DEF Tables
<1>2. ASSUME NEW b \in Batches, NEW total \in Nat, NEW last \in Eligible, NEW from,
             TriggerYieldDistribution(b, total, last, from)
      PROVE  row' \in [Batches -> [Holders -> RowType]]
  <2>1. \A h \in Eligible :
          [amount |-> GrossShares(total, last)[h], status |-> "PENDING", mode |-> mode[h], proof |-> NoRoot]
            \in RowType
    BY GrossSharesInt, NothingTyped, EligibleFinite DEF RowType, Tables
  <2> QED BY <1>2, <2>1, NothingTyped DEF TriggerYieldDistribution, Tables
<1>3. CASE PartnerStep
  BY <1>1, <1>2, <1>3 DEF PartnerStep, TriggerDistributionFromIncome, Distribute, moneyVars, chainVars, Tables
<1>4. ASSUME NEW b \in Batches, RejectDistributionBatch(b) PROVE Tables'
  <2>1. row' \in [Batches -> [Holders -> RowType]]
    BY <1>4, NothingTyped DEF RejectDistributionBatch, Tables
  <2> QED BY <1>1, <1>4, <2>1 DEF RejectDistributionBatch, moneyVars, chainVars, Tables
<1>5. ASSUME NEW r \in RowType PROVE [r EXCEPT !.status = "PAID"] \in RowType
  BY DEF RowType
<1>6. ASSUME NEW h \in Holders, ConfirmSave(h) PROVE Tables'
  <2>1. confirm[h].batch \in Batches /\ confirm[h].row \in RowType
    BY <1>6 DEF ConfirmSave, Tables, Idle
  <2> DEFINE saved == [confirm[h].row EXCEPT !.status = "PAID"]
  <2>2. saved \in RowType
    BY <1>5, <2>1
  <2> HIDE DEF saved
  <2>3. row' \in [Batches -> [Holders -> RowType]]
    BY <1>6, <2>1, <2>2 DEF ConfirmSave, Tables, saved
  <2>4. eager' \subseteq Batches \X Holders
    BY <1>6, <2>1 DEF ConfirmSave, Tables
  <2> QED BY <1>1, <1>6, <2>3, <2>4 DEF ConfirmSave, chainVars, Tables
<1>7. ASSUME NEW b \in Batches, HandleYieldRecorded(b) PROVE Tables'
  <2>1. row' \in [Batches -> [Holders -> RowType]]
    BY <1>5, <1>7 DEF HandleYieldRecorded, Tables
  <2>2. indexed' \subseteq Batches \X (Holders \cup {Nothing})
    BY <1>7 DEF HandleYieldRecorded, Tables
  <2>3. UNCHANGED <<mode, admin, held, record, claimed, partner, spent, confirm, eager>>
    BY <1>7 DEF HandleYieldRecorded, moneyVars
  <2> QED BY <1>1, <2>1, <2>2, <2>3 DEF Tables
<1>8. ASSUME NEW b \in Batches, NEW h \in Holders, HandleYieldClaimed(b, h) PROVE Tables'
  BY <1>1, <1>8 DEF HandleYieldClaimed, rowVars, moneyVars, Tables
<1>9. ASSUME NEW h \in Holders, UpdateProfile(h) PROVE Tables'
  BY <1>9 DEF UpdateProfile, rowVars, chainVars, moneyVars, Tables, Modes
<1>10. ASSUME NEW h \in Holders, NEW b \in Batches, GetUserMerkleProof(b, h) PROVE Tables'
  BY <1>10 DEF GetUserMerkleProof, rowVars, chainVars, moneyVars, Tables
<1>11. ASSUME NEW h \in Holders, NEW b \in Batches, Claim(b, h) PROVE Tables'
  BY <1>11 DEF Claim, rowVars, moneyVars, Tables
<1>12. ASSUME NEW h \in Holders, NEW b \in Batches, ConfirmRead(b, h) PROVE Tables'
  <2> DEFINE new == [pc |-> "SAVING", batch |-> b, row |-> row[b][h]]
  <2>1. new \in [pc : {"SAVING"}, batch : Batches, row : RowType]
    BY DEF Tables
  <2>2. confirm' = [confirm EXCEPT ![h] = new]
    BY <1>12 DEF ConfirmRead
  <2> HIDE DEF new
  <2>3. /\ \A k \in Holders :
             \/ confirm'[k] = Idle
             \/ confirm'[k] \in [pc : {"SAVING"}, batch : Batches, row : RowType]
        /\ confirm' = [k \in Holders |-> confirm'[k]]
    BY <2>1, <2>2 DEF Tables
  <2> QED BY <1>12, <2>3 DEF ConfirmRead, rowVars, chainVars, moneyVars, Tables
<1>13. ASSUME NEW a \in Admins, NEW new, admin' = [admin EXCEPT ![a] = new],
              \/ new = Idle
              \/ new \in Approving
              \/ new \in [pc : {"NOTARISING"}, batch : Batches, record : RecordType]
       PROVE  \A c \in Admins :
                \/ admin'[c] = Idle
                \/ admin'[c] \in Approving
                \/ admin'[c] \in [pc : {"NOTARISING"}, batch : Batches, record : RecordType]
  BY <1>13 DEF Typed, Tables
<1>14. ASSUME NEW a \in Admins, ApproveAbort(a) \/ NotaryFailed(a) PROVE Tables'
  BY <1>13, <1>14 DEF ApproveAbort, NotaryFailed, rowVars, chainVars, moneyVars, Tables
<1>15. ASSUME NEW a \in Admins, Notarise(a) PROVE Tables'
  <2>1. admin[a].batch \in Batches /\ admin[a].record \in RecordType
    BY <1>15 DEF Notarise, Tables, Idle, Approving
  <2>2. record' \in [Batches -> RecordType]
    BY <1>15, <2>1 DEF Notarise, RecordYield, Tables
  <2> QED BY <1>13, <1>15, <2>2 DEF Notarise, rowVars, moneyVars, Tables
<1>16. ASSUME NEW a \in Admins, NEW b \in Batches, ApproveRead(a, b) PROVE Tables'
  <2> DEFINE S == Rows(b, {"PENDING"})
             new == [pc |-> "APPROVING", batch |-> b, payouts |-> [h \in S |-> row[b][h]],
                     off |-> {h \in S : mode[h] = "OFF_CHAIN"}]
  <2>1. S \in SUBSET Holders
    BY DEF Rows
  <2>2. [h \in S |-> row[b][h]] \in [S -> RowType]
    BY <2>1 DEF Tables
  <2>3. new \in Approving
    BY <2>1, <2>2 DEF Approving
  <2>4. admin' = [admin EXCEPT ![a] = new]
    BY <1>16 DEF ApproveRead
  <2> HIDE DEF new
  <2> QED BY <1>13, <1>16, <2>3, <2>4 DEF ApproveRead, rowVars, chainVars, moneyVars, Tables
<1>17. ASSUME NEW a \in Admins, NEW last \in Holders, ApproveCommit(a, last) PROVE Tables'
  <2> DEFINE b == admin[a].batch
             S == DOMAIN admin[a].payouts
             amounts == [h \in S |-> admin[a].payouts[h].amount]
             net == NetShares(amounts, admin[a].off, last)
             root == [h \in OnChainPart(a) |-> net[h]]
  <2>1. admin[a] \in Approving
    <3>1. /\ admin[a].pc = "APPROVING"
          /\ \/ admin[a] = Idle
             \/ admin[a] \in Approving
             \/ admin[a] \in [pc : {"NOTARISING"}, batch : Batches, record : RecordType]
      BY <1>17 DEF ApproveCommit, Tables
    <3> QED BY <3>1 DEF Idle
  <2>2. /\ b \in Batches /\ S \in SUBSET Holders
        /\ admin[a].payouts \in [S -> RowType]
    BY <2>1 DEF Approving
  <2>3. amounts \in [S -> Int]
    BY <2>2 DEF RowType
  <2>4. IsFiniteSet(S) /\ last \in S
    BY <1>17, <2>2, FS_Subset DEF ApproveCommit
  <2>5. net \in [S -> Int] /\ Gross(a) \in Int
    <3>1. Gross(a) = Total(amounts)
      BY DEF Gross
    <3>2. ASSUME NEW off PROVE NetShares(amounts, off, last) \in [S -> Int]
      <4> HIDE DEF S, amounts
      <4> QED BY <2>2, <2>3, <2>4, NetSharesInt
    <3>3. Total(amounts) \in Int
      <4> HIDE DEF S, amounts
      <4> QED BY <2>3, <2>4, TotalInt
    <3> HIDE DEF S, amounts
    <3> QED BY <3>1, <3>2, <3>3
  <2>6. root \in Roots
    <3>1. OnChainPart(a) \in SUBSET Linked /\ OnChainPart(a) \subseteq S
      BY <1>17 DEF ApproveCommit, Payable, OnChainPart
    <3> HIDE DEF S, net
    <3>2. root \in [OnChainPart(a) -> Int]
      BY <2>5, <3>1
    <3> QED BY <3>1, <3>2 DEF Roots
  <2>7. ASSUME NEW h \in S PROVE SettledRow(a, h, net, root) \in RowType
    <3>1. admin[a].payouts[h] \in RowType /\ net[h] \in Int
      BY <2>2, <2>5
    <3> HIDE DEF net, root
    <3>2. [admin[a].payouts[h] EXCEPT !.amount = net[h], !.status = "PAID"] \in RowType
      BY <3>1 DEF RowType
    <3>3. [amount |-> net[h], status |-> "READY", mode |-> "ON_CHAIN", proof |-> root] \in RowType
      BY <2>6, <3>1 DEF RowType, Modes
    <3> QED BY <3>2, <3>3, NothingTyped DEF SettledRow
  <2>8. row' \in [Batches -> [Holders -> RowType]]
    <3>1. row' = [row EXCEPT ![b] = [h \in Holders |->
                    IF h \in S THEN SettledRow(a, h, net, root) ELSE row[b][h]]]
      BY <1>17 DEF ApproveCommit
    <3> HIDE DEF b, S, net, root
    <3> QED BY <2>2, <2>7, <3>1 DEF Tables
  <2>9. partner' \in Nat
    BY <1>17, <2>5 DEF ApproveCommit, Payable, Tables
  <2>10. Total(net) \in Int /\ PlatformFee(Gross(a)) \in Int
    <3> HIDE DEF S, net
    <3> QED BY <2>4, <2>5, TotalInt, RoundInt DEF PlatformFee
  <2>11. spent' \in [Batches -> [debited : Int, fees : Int, granted : Int]]
    <3>1. spent' = [spent EXCEPT ![b] = [debited |-> spent[b].debited + Gross(a),
                                         fees |-> spent[b].fees + PlatformFee(Gross(a)),
                                         granted |-> spent[b].granted + Total(net)]]
      BY <1>17 DEF ApproveCommit
    <3> HIDE DEF b, net
    <3> QED BY <2>2, <2>5, <2>10, <3>1 DEF Tables
  <2>12. \A c \in Admins :
                \/ admin'[c] = Idle
                \/ admin'[c] \in Approving
                \/ admin'[c] \in [pc : {"NOTARISING"}, batch : Batches, record : RecordType]
    <3> DEFINE new == [pc |-> "NOTARISING", batch |-> b,
                       record |-> IF OnChainPart(a) = {} THEN [kind |-> "PLAIN", root |-> NoRoot]
                                  ELSE [kind |-> "MERKLE", root |-> root]]
    <3>1. admin' = [admin EXCEPT ![a] = new]
      BY <1>17 DEF ApproveCommit
    <3> HIDE DEF b, S, net, root
    <3>2. new \in [pc : {"NOTARISING"}, batch : Batches, record : RecordType]
      BY <2>2, <2>6, NothingTyped DEF RecordType
    <3> HIDE DEF new
    <3> QED BY <1>13, <3>1, <3>2
  <2>13. UNCHANGED <<mode, held, confirm, eager, chainVars>>
    BY <1>17 DEF ApproveCommit
  <2> QED BY <2>8, <2>9, <2>11, <2>12, <2>13 DEF Tables, chainVars
<1> QED
  BY <1>0, <1>3, <1>4, <1>6, <1>7, <1>8, <1>9, <1>10, <1>11, <1>12, <1>14, <1>15, <1>16, <1>17
  DEF Next, ApproveStep, NotaryStep, HolderStep, IndexerStep

\* Every variable has its type: the partner's balance is never negative, though
\* approvals run side by side and a batch reserves nothing (debitAvailable), and
\* a Merkle root has no holder without an address on the chain.
THEOREM DistributionTypes == Spec => []TypeInv
<1>1. Typed /\ Tables => TypeInv
  <2> SUFFICES ASSUME Typed, Tables PROVE TypeInv
    OBVIOUS
  <2>1. \A r \in RowType : RowOK(r)
    BY DEF RowType, RowOK, Roots
  <2>2. /\ \A a \in Admins : admin[a].pc \in {"IDLE", "APPROVING", "NOTARISING"}
        /\ \A h \in Holders : confirm[h].pc \in {"IDLE", "SAVING"}
    BY DEF Tables, Idle, Approving
  <2> QED BY <2>1, <2>2 DEF TypeInv, Typed, Tables, RecordType
<1> QED BY <1>1, TypedInit, TypedStep, TablesInit, TablesStep, PTL DEF Spec

-----------------------------------------------------------------------------
(* Channels *)

\* What an approval pays and commits to.
Net(a, last) ==
  NetShares([h \in DOMAIN admin[a].payouts |-> admin[a].payouts[h].amount], admin[a].off, last)
Root(a, last) == [h \in OnChainPart(a) |-> Net(a, last)[h]]

LEMMA ApprovingTyped ==
  ASSUME Tables, NEW a \in Admins, admin[a].pc = "APPROVING"
  PROVE  admin[a] \in Approving
<1>1. \/ admin[a] = Idle
      \/ admin[a] \in Approving
      \/ admin[a] \in [pc : {"NOTARISING"}, batch : Batches, record : RecordType]
  BY DEF Tables
<1> QED BY <1>1 DEF Idle

\* What the commit of an approval is about, and what it does.
Payees(a) ==
  /\ admin[a].batch \in Batches /\ DOMAIN admin[a].payouts \subseteq Holders
  /\ admin[a].off \subseteq DOMAIN admin[a].payouts
  /\ admin[a].payouts \in [DOMAIN admin[a].payouts -> RowType]
  /\ OnChainPart(a) = DOMAIN admin[a].payouts \ admin[a].off

RowsWritten(a, last) ==
  \A c \in Batches, h \in Holders :
    row'[c][h] = IF c = admin[a].batch /\ h \in DOMAIN admin[a].payouts
                 THEN SettledRow(a, h, Net(a, last), Root(a, last)) ELSE row[c][h]

GrantsMade(a) ==
  \A c \in Batches, h \in Holders :
    /\ credits'[c][h] = IF c = admin[a].batch /\ h \in admin[a].off THEN credits[c][h] + 1
                        ELSE credits[c][h]
    /\ allotments'[c][h] = IF c = admin[a].batch /\ h \in OnChainPart(a) THEN allotments[c][h] + 1
                           ELSE allotments[c][h]

RecordToSend(a, last) ==
  IF OnChainPart(a) = {} THEN [kind |-> "PLAIN", root |-> NoRoot]
  ELSE [kind |-> "MERKLE", root |-> Root(a, last)]

GoesToNotary(a, last) ==
  /\ \A e \in Admins : e # a => admin'[e] = admin[e]
  /\ admin'[a] = [pc |-> "NOTARISING", batch |-> admin[a].batch, record |-> RecordToSend(a, last)]

LEMMA CommitFacts ==
  ASSUME Typed, Tables, NEW a \in Admins, NEW last \in Holders, ApproveCommit(a, last)
  PROVE  Payees(a) /\ RowsWritten(a, last) /\ GrantsMade(a) /\ GoesToNotary(a, last)
<1> DEFINE b == admin[a].batch
           S == DOMAIN admin[a].payouts
<1>1. /\ b \in Batches /\ S \subseteq Holders /\ admin[a].off \subseteq S
      /\ admin[a].payouts \in [S -> RowType]
  <2>1. admin[a] \in Approving
    BY ApprovingTyped DEF ApproveCommit
  <2>2. admin[a].off \subseteq S
    BY DEF ApproveCommit, Typed
  <2> QED BY <2>1, <2>2 DEF Approving
<1>2. OnChainPart(a) = S \ admin[a].off
  BY DEF OnChainPart
<1>3. /\ row' = [row EXCEPT ![b] = [h \in Holders |->
                   IF h \in S THEN SettledRow(a, h, Net(a, last), Root(a, last)) ELSE row[b][h]]]
      /\ credits' = [credits EXCEPT ![b] = [h \in Holders |->
                   IF h \in admin[a].off THEN credits[b][h] + 1 ELSE credits[b][h]]]
      /\ allotments' = [allotments EXCEPT ![b] = [h \in Holders |->
                   IF h \in OnChainPart(a) THEN allotments[b][h] + 1 ELSE allotments[b][h]]]
      /\ admin' = [admin EXCEPT ![a] = [pc |-> "NOTARISING", batch |-> b,
                             record |-> IF OnChainPart(a) = {}
                                        THEN [kind |-> "PLAIN", root |-> NoRoot]
                                        ELSE [kind |-> "MERKLE", root |-> Root(a, last)]]]
  BY DEF ApproveCommit, Net, Root
<1> HIDE DEF b, S
<1>4. \A c \in Batches, h \in Holders :
        /\ row'[c][h] = IF c = b /\ h \in S
                        THEN SettledRow(a, h, Net(a, last), Root(a, last)) ELSE row[c][h]
        /\ credits'[c][h] = IF c = b /\ h \in admin[a].off THEN credits[c][h] + 1
                            ELSE credits[c][h]
        /\ allotments'[c][h] = IF c = b /\ h \in OnChainPart(a) THEN allotments[c][h] + 1
                               ELSE allotments[c][h]
  BY <1>1, <1>3 DEF Typed, Tables
<1>5. /\ \A e \in Admins : e # a => admin'[e] = admin[e]
      /\ admin'[a] = [pc |-> "NOTARISING", batch |-> b,
                             record |-> IF OnChainPart(a) = {}
                                        THEN [kind |-> "PLAIN", root |-> NoRoot]
                                        ELSE [kind |-> "MERKLE", root |-> Root(a, last)]]
  BY <1>3 DEF Typed
<1> QED
  BY <1>1, <1>2, <1>4, <1>5 DEF b, S, Payees, RowsWritten, GrantsMade, GoesToNotary, RecordToSend

\* What is granted stays granted.
LEMMA GrantsStay ==
  Typed /\ Tables /\ [Next]_vars =>
    \A b \in Batches, h \in Holders :
      /\ credits[b][h] > 0 => credits'[b][h] > 0
      /\ allotments[b][h] > 0 => allotments'[b][h] > 0
<1> SUFFICES ASSUME Typed, Tables, [Next]_vars, NEW b \in Batches, NEW h \in Holders
             PROVE  /\ credits[b][h] > 0 => credits'[b][h] > 0
                    /\ allotments[b][h] > 0 => allotments'[b][h] > 0
  OBVIOUS
<1>1. CASE UNCHANGED <<credits, allotments>>
  BY <1>1
<1>2. ASSUME NEW a \in Admins, NEW last \in Holders, ApproveCommit(a, last)
      PROVE  /\ credits[b][h] > 0 => credits'[b][h] > 0
             /\ allotments[b][h] > 0 => allotments'[b][h] > 0
  <2>1. GrantsMade(a)
    BY <1>2, CommitFacts
  <2>2. /\ credits'[b][h] \in {credits[b][h], credits[b][h] + 1}
        /\ allotments'[b][h] \in {allotments[b][h], allotments[b][h] + 1}
    BY <2>1 DEF GrantsMade
  <2>3. credits[b][h] \in Nat /\ allotments[b][h] \in Nat
    BY DEF Typed
  <2> QED BY <2>2, <2>3
<1> QED
  BY <1>1, <1>2 DEF Next, PartnerStep, ApproveStep, NotaryStep, HolderStep, IndexerStep,
     TriggerDistributionFromIncome, Distribute, ApproveRead, ApproveAbort, Notarise, NotaryFailed,
     RejectDistributionBatch, UpdateProfile, GetUserMerkleProof, Claim, ConfirmRead, ConfirmSave,
     HandleYieldRecorded, HandleYieldClaimed, moneyVars, vars

\* Whoever is a leaf of a root, recorded or about to be, was allotted its payout;
\* the contract pays leaves only.
Leaves ==
  /\ \A b \in Batches : \A h \in DOMAIN record[b].root : allotments[b][h] > 0
  /\ \A a \in Admins : admin[a].pc = "NOTARISING" =>
       \A h \in DOMAIN admin[a].record.root : allotments[admin[a].batch][h] > 0
  /\ \A b \in Batches, h \in Holders : <<b, h>> \in claimed => allotments[b][h] > 0

LEMMA LeavesInit == Init => Leaves
  BY DEF Init, Leaves, NoRecord, NoRoot, Idle

LEMMA LeavesStep == Typed /\ Tables /\ Leaves /\ [Next]_vars => Leaves'
<1> SUFFICES ASSUME Typed, Tables, Leaves, [Next]_vars PROVE Leaves'
  OBVIOUS
<1>1. \A b \in Batches, h \in Holders : allotments[b][h] > 0 => allotments'[b][h] > 0
  BY GrantsStay
<1>2. \A b \in Batches : DOMAIN record[b].root \subseteq Holders
  BY DEF Tables, RecordType, Roots
<1>3. \A a \in Admins : admin[a].pc = "NOTARISING" =>
        /\ admin[a].batch \in Batches /\ admin[a].record \in RecordType
        /\ DOMAIN admin[a].record.root \subseteq Holders
  BY DEF Tables, RecordType, Roots, Idle, Approving
<1>4. CASE UNCHANGED <<record, admin, claimed>>
  BY <1>1, <1>2, <1>3, <1>4 DEF Leaves
<1>5. ASSUME NEW a \in Admins, NEW new, admin' = [admin EXCEPT ![a] = new],
             new.pc = "NOTARISING" => \A h \in DOMAIN new.record.root : allotments'[new.batch][h] > 0,
             UNCHANGED <<record, claimed>>
      PROVE  Leaves'
  <2>1. admin'[a] = new /\ \A c \in Admins : c # a => admin'[c] = admin[c]
    BY <1>5 DEF Typed
  <2> QED BY <1>1, <1>2, <1>3, <1>5, <2>1 DEF Leaves
<1>6. ASSUME NEW a \in Admins, ApproveAbort(a) \/ NotaryFailed(a) PROVE Leaves'
  BY <1>5, <1>6 DEF ApproveAbort, NotaryFailed, Idle, chainVars
<1>7. ASSUME NEW a \in Admins, NEW b \in Batches, ApproveRead(a, b) PROVE Leaves'
  <2> DEFINE new == [pc |-> "APPROVING", batch |-> b,
                     payouts |-> [h \in Rows(b, {"PENDING"}) |-> row[b][h]],
                     off |-> {h \in Rows(b, {"PENDING"}) : mode[h] = "OFF_CHAIN"}]
  <2>1. admin' = [admin EXCEPT ![a] = new] /\ new.pc # "NOTARISING" /\ UNCHANGED <<record, claimed>>
    BY <1>7 DEF ApproveRead, chainVars
  <2> HIDE DEF new
  <2> QED BY <1>5, <2>1
<1>8. ASSUME NEW a \in Admins, NEW last \in Holders, ApproveCommit(a, last) PROVE Leaves'
  <2>1. /\ \A c \in Admins : c # a => admin'[c] = admin[c]
        /\ admin'[a].batch = admin[a].batch /\ admin[a].batch \in Batches
        /\ DOMAIN admin'[a].record.root \subseteq OnChainPart(a) /\ OnChainPart(a) \subseteq Holders
    <3>1. Payees(a) /\ GoesToNotary(a, last)
      BY <1>8, CommitFacts
    <3>2. DOMAIN RecordToSend(a, last).root \subseteq OnChainPart(a)
      BY DEF RecordToSend, Root, NoRoot
    <3> QED BY <3>1, <3>2 DEF Payees, GoesToNotary
  <2>2. \A h \in OnChainPart(a) : allotments'[admin[a].batch][h] > 0
    <3>1. GrantsMade(a)
      BY <1>8, CommitFacts
    <3> QED BY <2>1, <3>1 DEF GrantsMade, Typed
  <2>3. UNCHANGED <<record, claimed>>
    BY <1>8 DEF ApproveCommit, chainVars
  <2> QED BY <1>1, <1>2, <1>3, <2>1, <2>2, <2>3 DEF Leaves
<1>9. ASSUME NEW a \in Admins, Notarise(a) PROVE Leaves'
  <2>1. \A b \in Batches : \A h \in DOMAIN record'[b].root : allotments'[b][h] > 0
    <3> DEFINE b == admin[a].batch
    <3>1. /\ b \in Batches
          /\ \A h \in DOMAIN admin[a].record.root : h \in Holders /\ allotments[b][h] > 0
      BY <1>3, <1>9 DEF Notarise, Leaves
    <3>2. \A c \in Batches : record'[c] = record[c] \/ (c = b /\ record'[c] = admin[a].record)
      BY <1>9, <3>1 DEF Notarise, RecordYield, Tables
    <3> HIDE DEF b
    <3> QED BY <1>1, <1>2, <3>1, <3>2 DEF Leaves
  <2>2. admin'[a].pc = "IDLE" /\ \A c \in Admins : c # a => admin'[c] = admin[c]
    BY <1>9 DEF Notarise, Typed, Idle
  <2>3. claimed' = claimed
    BY <1>9 DEF Notarise
  <2> QED BY <1>1, <1>3, <2>1, <2>2, <2>3 DEF Leaves
<1>10. ASSUME NEW h \in Holders, NEW b \in Batches, Claim(b, h) PROVE Leaves'
  <2>1. allotments[b][h] > 0
    BY <1>10 DEF Claim, ProofIsValid, Leaves
  <2> QED BY <1>1, <1>2, <1>3, <1>10, <2>1 DEF Claim, Leaves
<1> QED
  BY <1>4, <1>6, <1>7, <1>8, <1>9, <1>10 DEF Next, PartnerStep, ApproveStep, NotaryStep, HolderStep,
     IndexerStep, TriggerDistributionFromIncome, Distribute, RejectDistributionBatch, UpdateProfile,
     GetUserMerkleProof, ConfirmRead, ConfirmSave, HandleYieldRecorded, HandleYieldClaimed,
     chainVars, vars

\* The handler of the notary's events finds no batch: it looks for a hash.
LEMMA HashFindsNothing ==
  ASSUME NEW b \in Batches
  PROVE  Found(b) = {}
<1>1. ~ \E c \in Batches : <<"keccak256", b>> = <<"bytes32", c>>
  OBVIOUS
<1>2. SafeDecodeBatchId(<<"keccak256", b>>) = <<"keccak256", b>>
  BY <1>1 DEF SafeDecodeBatchId
<1> QED BY <1>2, IdsAreNoHashes DEF Found, FormatBatchIdToBytes32

\* A credit is never hidden, and a row is marked by an approval, after a claim
\* or by its holder.
RowTells(b, h) ==
  /\ credits[b][h] > 0 => \/ row[b][h].status = "PAID"
                          \/ row[b][h].status = "READY" /\ allotments[b][h] > 0
  /\ row[b][h].status = "PAID" => credits[b][h] > 0 \/ <<b, h>> \in claimed \cup eager

Marked == \A b \in Batches, h \in Holders : RowTells(b, h)

LEMMA MarkedStep ==
  ASSUME Typed, Tables, GrantInv, Marked, [Next]_vars
  PROVE  Marked'
<1>1. \A b \in Batches, h \in Holders :
         /\ credits[b][h] > 0 => credits'[b][h] > 0
         /\ allotments[b][h] > 0 => allotments'[b][h] > 0
  BY GrantsStay
<1>2. claimed \subseteq claimed' /\ eager \subseteq eager'
  BY DEF Next, PartnerStep, ApproveStep, NotaryStep, HolderStep, IndexerStep,
     TriggerDistributionFromIncome, Distribute, ApproveRead, ApproveCommit, ApproveAbort, Notarise,
     NotaryFailed, RejectDistributionBatch, UpdateProfile, GetUserMerkleProof, Claim, ConfirmRead,
     ConfirmSave, HandleYieldRecorded, HandleYieldClaimed, chainVars, moneyVars, vars
\* A row may change if its holder has no credit and it is not marked, or if it is
\* marked after a claim or by its holder.
<1>3. ASSUME UNCHANGED credits,
             \A b \in Batches, h \in Holders :
               \/ row'[b][h] = row[b][h]
               \/ row'[b][h].status # "PAID" /\ credits[b][h] = 0
               \/ row'[b][h].status = "PAID" /\ <<b, h>> \in (claimed \cup eager)'
      PROVE  Marked'
  <2> SUFFICES ASSUME NEW b \in Batches, NEW h \in Holders PROVE RowTells(b, h)'
    BY DEF Marked
  <2>1. RowTells(b, h)
    BY DEF Marked
  <2>2. \/ row'[b][h] = row[b][h]
        \/ row'[b][h].status # "PAID" /\ credits[b][h] = 0
        \/ row'[b][h].status = "PAID" /\ <<b, h>> \in (claimed \cup eager)'
    BY <1>3
  <2> QED BY <1>1, <1>2, <1>3, <2>1, <2>2 DEF RowTells
<1>4. CASE UNCHANGED <<row, credits>>
  BY <1>3, <1>4
<1>5. ASSUME NEW b \in Batches, NEW total, NEW last \in Eligible, NEW from,
             TriggerYieldDistribution(b, total, last, from), UNCHANGED credits
      PROVE  Marked'
  <2>1. \A h \in Holders : credits[b][h] = 0
    BY <1>5 DEF TriggerYieldDistribution, Unused, GrantInv, Granted, Typed
  <2>2. \A c \in Batches, h \in Holders :
          \/ row'[c][h] = row[c][h]
          \/ row'[c][h].status # "PAID" /\ credits[c][h] = 0
    BY <1>5, <2>1 DEF TriggerYieldDistribution, Typed, NoRow
  <2> QED BY <1>3, <1>5, <2>2
<1>6. CASE PartnerStep
  BY <1>5, <1>6 DEF PartnerStep, TriggerDistributionFromIncome, Distribute, moneyVars
<1>7. ASSUME NEW b \in Batches, RejectDistributionBatch(b) PROVE Marked'
  <2>1. \A h \in Holders : h \in Rows(b, {"PENDING"}) => credits[b][h] = 0
    BY DEF Rows, GrantInv, Granted, Typed
  <2>2. \A c \in Batches, h \in Holders :
          \/ row'[c][h] = row[c][h]
          \/ row'[c][h].status # "PAID" /\ credits[c][h] = 0
    BY <1>7, <2>1 DEF RejectDistributionBatch, Typed, NoRow
  <2> QED BY <1>3, <1>7, <2>2 DEF RejectDistributionBatch, moneyVars
<1>8. ASSUME NEW h \in Holders, ConfirmSave(h) PROVE Marked'
  <2> DEFINE b == confirm[h].batch
             saved == [confirm[h].row EXCEPT !.status = "PAID"]
  <2>1. <<b, h>> \in (claimed \cup eager)' /\ b \in Batches
    BY <1>8 DEF ConfirmSave, Tables, Idle, chainVars
  <2>2. saved.status = "PAID"
    BY <1>8 DEF ConfirmSave, Tables, Idle, RowType
  <2>3. row' = [row EXCEPT ![b][h] = saved] /\ UNCHANGED credits
    BY <1>8 DEF ConfirmSave
  <2> HIDE DEF b, saved
  <2>4. \A c \in Batches, k \in Holders :
          \/ row'[c][k] = row[c][k]
          \/ row'[c][k].status = "PAID" /\ <<c, k>> \in (claimed \cup eager)'
    BY <2>1, <2>2, <2>3 DEF Tables
  <2> QED BY <1>3, <2>3, <2>4
\* The handler marks nothing.
<1>9. ASSUME NEW b \in Batches, HandleYieldRecorded(b) PROVE Marked'
  <2>1. \A c \in Batches, h \in Holders : row'[c][h] = row[c][h]
    BY <1>9, HashFindsNothing DEF HandleYieldRecorded
  <2> QED BY <1>3, <1>9, <2>1 DEF HandleYieldRecorded, moneyVars
<1>10. ASSUME NEW a \in Admins, NEW last \in Holders, ApproveCommit(a, last) PROVE Marked'
  <2> DEFINE b == admin[a].batch
             S == DOMAIN admin[a].payouts
  <2>1. Payees(a) /\ RowsWritten(a, last) /\ GrantsMade(a) /\ UNCHANGED <<claimed, eager>>
    BY <1>10, CommitFacts DEF ApproveCommit, chainVars
  <2> SUFFICES ASSUME NEW c \in Batches, NEW h \in Holders PROVE RowTells(c, h)'
    BY DEF Marked
  <2>2. /\ RowTells(c, h) /\ credits[c][h] \in Nat /\ allotments[c][h] \in Nat
    BY DEF Marked, Typed
  <2>3. CASE ~(c = b /\ h \in S)
    <3>1. row'[c][h] = row[c][h]
      BY <2>1, <2>3 DEF RowsWritten
    <3>2. credits'[c][h] = credits[c][h] /\ allotments'[c][h] = allotments[c][h]
      BY <2>1, <2>3 DEF GrantsMade, Payees
    <3> QED BY <2>1, <2>2, <3>1, <3>2 DEF RowTells
  <2>4. CASE c = b /\ h \in admin[a].off
    <3>1. row'[c][h] = SettledRow(a, h, Net(a, last), Root(a, last)) /\ credits'[c][h] > 0
          /\ admin[a].payouts[h] \in RowType
      BY <2>1, <2>2, <2>4 DEF RowsWritten, GrantsMade, Payees
    <3>2. row'[c][h].status = "PAID"
      BY <2>4, <3>1 DEF SettledRow, RowType
    <3> QED BY <3>1, <3>2 DEF RowTells
  <2>5. CASE c = b /\ h \in S /\ h \notin admin[a].off
    <3>1. /\ row'[c][h] = SettledRow(a, h, Net(a, last), Root(a, last))
          /\ credits'[c][h] = credits[c][h] /\ allotments'[c][h] = allotments[c][h] + 1
      BY <2>1, <2>5 DEF RowsWritten, GrantsMade, Payees
    <3>2. \/ row[c][h] = NoRow /\ row'[c][h] = NoRow
          \/ row'[c][h].status = "READY"
      BY <2>5, <3>1 DEF SettledRow
    <3>3. allotments'[c][h] > 0
      BY <2>2, <3>1
    <3>4. CASE row[c][h] = NoRow /\ row'[c][h] = NoRow
      BY <2>2, <3>1, <3>4 DEF RowTells, NoRow
    <3> QED BY <3>1, <3>2, <3>3, <3>4 DEF RowTells
  <2> QED BY <2>1, <2>3, <2>4, <2>5 DEF Payees
<1> QED
  BY <1>4, <1>6, <1>7, <1>8, <1>9, <1>10 DEF Next, ApproveStep, NotaryStep, HolderStep,
     IndexerStep, ApproveRead, ApproveAbort, Notarise, NotaryFailed, UpdateProfile,
     GetUserMerkleProof, Claim, ConfirmRead, HandleYieldClaimed, rowVars, moneyVars, vars

\* However approvals, rejections and confirmations overlap and whoever changes
\* its mode, a row tells how its holder was paid: a credit is never hidden, what
\* the contract paid was put under a root, and a row that is PAID without either
\* was marked by its holder (approveDistributionBatch, confirmOnChainClaim, the
\* yield handler).
THEOREM PaymentsHappen == Spec => []PaymentsAreReal
<1> DEFINE IInv == Typed /\ Tables /\ GrantInv /\ Leaves /\ Marked
<1>1. Init => IInv
  <2>1. Init => Marked
    BY DEF Init, Marked, RowTells, NoRow
  <2> QED BY <2>1, GrantInit, TypedInit, TablesInit, LeavesInit
<1>2. IInv /\ [Next]_vars => IInv'
  BY TypedStep, TablesStep, GrantStep, LeavesStep, MarkedStep
<1>3. IInv => PaymentsAreReal
  BY DEF Leaves, Marked, RowTells, PaymentsAreReal
<1> HIDE DEF IInv
<1> QED BY <1>1, <1>2, <1>3, PTL DEF Spec

-----------------------------------------------------------------------------
(* Proofs and roots *)

Approved(b) == \E h \in Holders : Granted(b, h) # 0

\* The rows a holder may claim are leaves of this root.
Matches(b, r) ==
  \A h \in Rows(b, {"READY"}) : row[b][h].proof = r.root /\ row[b][h].amount = r.root[h]

\* A batch is approved once, and everything that waits in it at once; so the one
\* record that is sent, the first, is of the root that its rows are under.
Recording ==
  /\ \A b \in Batches :
       /\ Rows(b, {"PENDING"}) # {} => ~Approved(b)
       /\ Rows(b, {"READY"}) # {} \/ record[b] # NoRecord => Approved(b)
       /\ record[b] # NoRecord => record[b].kind # "NONE" /\ Matches(b, record[b])
  /\ \A a \in Admins :
       /\ admin[a].pc = "APPROVING" =>
            /\ ~Approved(admin[a].batch)
            /\ Rows(admin[a].batch, {"PENDING"}) \subseteq DOMAIN admin[a].payouts
       /\ admin[a].pc = "NOTARISING" =>
            /\ Approved(admin[a].batch) /\ record[admin[a].batch] = NoRecord
            /\ admin[a].record.kind # "NONE" /\ Matches(admin[a].batch, admin[a].record)

LEMMA RecordingInit == Init => Recording
  BY DEF Init, Recording, Rows, NoRow, Idle

LEMMA RecordingStep ==
  ASSUME \A a, c \in Admins : a = c, Typed, Tables, GrantInv, Recording, [Next]_vars
  PROVE  Recording'
<1>0. \A a \in Admins : /\ admin[a].pc = "APPROVING" => admin[a].batch \in Batches
                        /\ admin[a].pc = "NOTARISING" => admin[a].batch \in Batches
  BY DEF Tables, Idle, Approving
\* Rows may be paid or deleted.
<1>1. ASSUME UNCHANGED <<record, admin, credits, allotments>>,
             \A b \in Batches, h \in Holders :
               row'[b][h] = row[b][h] \/ row'[b][h].status \in {"PAID", "NONE"}
      PROVE  Recording'
  <2>1. \A b \in Batches : Approved(b)' = Approved(b)
    BY <1>1 DEF Approved, Granted
  <2>2. ASSUME NEW b \in Batches, NEW status \in {"PENDING", "READY"}
        PROVE  /\ Rows(b, {status})' \subseteq Rows(b, {status})
               /\ \A h \in Rows(b, {status})' : row'[b][h] = row[b][h]
    BY <1>1 DEF Rows
  <2>3. \A b \in Batches : \A r : Matches(b, r) => Matches(b, r)'
    BY <2>2 DEF Matches
  <2> QED BY <1>0, <1>1, <2>1, <2>2, <2>3 DEF Recording
<1>2. CASE UNCHANGED <<row, record, admin, credits, allotments>>
  BY <1>1, <1>2
<1>3. ASSUME NEW b \in Batches, NEW total \in Nat, NEW last \in Eligible, NEW from,
             TriggerYieldDistribution(b, total, last, from),
             UNCHANGED <<record, admin, credits, allotments>>
      PROVE  Recording'
  <2>1. \A d \in Batches : Approved(d)' = Approved(d)
    BY <1>3 DEF Approved, Granted
  <2>2. ~Approved(b) /\ Rows(b, {"READY"})' = {}
    BY <1>3 DEF TriggerYieldDistribution, Unused, GrantInv, Approved, Rows, Typed, NoRow
  <2>3. \A d \in Batches : d # b => row'[d] = row[d]
    BY <1>3 DEF TriggerYieldDistribution, Typed
  <2>4. \A a \in Admins : admin[a].pc \in {"APPROVING", "NOTARISING"} => admin[a].batch # b
    BY <1>3, <2>2 DEF TriggerYieldDistribution, Unused, GrantInv, Recording
  <2>5. \A d \in Batches : d # b => /\ \A S : Rows(d, S)' = Rows(d, S)
                                    /\ \A r : Matches(d, r)' = Matches(d, r)
    BY <2>3 DEF Rows, Matches
  <2> QED BY <1>0, <1>3, <2>1, <2>2, <2>4, <2>5 DEF Recording
<1>4. CASE PartnerStep
  BY <1>3, <1>4 DEF PartnerStep, TriggerDistributionFromIncome, Distribute, moneyVars, chainVars
<1>5. ASSUME NEW b \in Batches, RejectDistributionBatch(b) PROVE Recording'
  <2>1. \A d \in Batches, h \in Holders : row'[d][h] = row[d][h] \/ row'[d][h].status \in {"PAID", "NONE"}
    BY <1>5 DEF RejectDistributionBatch, Typed, NoRow
  <2> QED BY <1>1, <1>5, <2>1 DEF RejectDistributionBatch, chainVars, moneyVars
<1>6. ASSUME NEW h \in Holders, ConfirmSave(h) PROVE Recording'
  <2> DEFINE saved == [confirm[h].row EXCEPT !.status = "PAID"]
             b == confirm[h].batch
  <2>1. saved.status = "PAID" /\ b \in Batches
    BY <1>6 DEF ConfirmSave, Tables, Idle, RowType
  <2>2. row' = [row EXCEPT ![b][h] = saved]
    BY <1>6 DEF ConfirmSave
  <2> HIDE DEF saved, b
  <2>3. \A d \in Batches, k \in Holders : row'[d][k] = row[d][k] \/ row'[d][k].status \in {"PAID", "NONE"}
    BY <2>1, <2>2 DEF Tables
  <2> QED BY <1>1, <1>6, <2>3 DEF ConfirmSave, chainVars, moneyVars
<1>7. ASSUME NEW b \in Batches, HandleYieldRecorded(b) PROVE Recording'
  <2>1. \A d \in Batches, h \in Holders : row'[d][h] = row[d][h]
    BY <1>7, HashFindsNothing DEF HandleYieldRecorded
  <2> QED BY <1>1, <1>7, <2>1 DEF HandleYieldRecorded, moneyVars
<1>8. ASSUME NEW a \in Admins, NEW b \in Batches, ApproveRead(a, b) PROVE Recording'
  <2> DEFINE S == Rows(b, {"PENDING"})
             new == [pc |-> "APPROVING", batch |-> b, payouts |-> [h \in S |-> row[b][h]],
                     off |-> {h \in S : mode[h] = "OFF_CHAIN"}]
  <2>1. /\ admin' = [admin EXCEPT ![a] = new] /\ S # {}
        /\ UNCHANGED <<row, record, credits, allotments>>
    BY <1>8 DEF ApproveRead, rowVars, chainVars, moneyVars
  <2>2. new.pc = "APPROVING" /\ new.batch = b /\ DOMAIN new.payouts = S
    OBVIOUS
  <2> HIDE DEF new
  <2>3. \A c \in Admins : admin'[c] = new
    BY <2>1 DEF Typed
  <2>4. \A d \in Batches : /\ Approved(d)' = Approved(d)
                           /\ \A T : Rows(d, T)' = Rows(d, T)
                           /\ \A r : Matches(d, r)' = Matches(d, r)
    BY <2>1 DEF Approved, Granted, Rows, Matches
  <2>5. ~Approved(b)
    BY <2>1 DEF Recording
  <2> QED BY <2>1, <2>2, <2>3, <2>4, <2>5 DEF Recording
<1>9. ASSUME NEW a \in Admins, UNCHANGED <<row, credits, allotments>>, admin' = [admin EXCEPT ![a] = Idle],
             \/ UNCHANGED record
             \/ /\ admin[a].pc = "NOTARISING"
                /\ record' = RecordYield(admin[a].batch, admin[a].record)
      PROVE  Recording'
  <2>1. \A c \in Admins : admin'[c].pc = "IDLE"
    BY <1>9 DEF Typed, Idle
  <2>2. \A d \in Batches : /\ Approved(d)' = Approved(d)
                           /\ \A T : Rows(d, T)' = Rows(d, T)
                           /\ \A r : Matches(d, r)' = Matches(d, r)
    BY <1>9 DEF Approved, Granted, Rows, Matches
  <2>3. \A d \in Batches :
          \/ record'[d] = record[d]
          \/ /\ Approved(d) /\ record'[d].kind # "NONE" /\ Matches(d, record'[d])
    <3>1. CASE UNCHANGED record
      BY <3>1
    <3>2. CASE admin[a].pc = "NOTARISING" /\ record' = RecordYield(admin[a].batch, admin[a].record)
      <4> DEFINE b == admin[a].batch
                 r == admin[a].record
      <4>1. Approved(b) /\ r.kind # "NONE" /\ Matches(b, r) /\ b \in Batches
        BY <1>0, <3>2 DEF Recording
      <4>2. \A d \in Batches : record'[d] = record[d] \/ (d = b /\ record'[d] = r)
        BY <3>2, <4>1 DEF RecordYield, Tables
      <4> HIDE DEF b, r
      <4> QED BY <4>1, <4>2
    <3> QED BY <1>9, <3>1, <3>2
  <2> QED BY <2>1, <2>2, <2>3 DEF Recording
<1>10. ASSUME NEW a \in Admins, ApproveAbort(a) \/ Notarise(a) \/ NotaryFailed(a) PROVE Recording'
  BY <1>9, <1>10 DEF ApproveAbort, Notarise, NotaryFailed, rowVars, chainVars, moneyVars
<1>11. ASSUME NEW a \in Admins, NEW last \in Holders, ApproveCommit(a, last) PROVE Recording'
  <2> PICK b \in Batches : b = admin[a].batch
    BY <1>0, <1>11 DEF ApproveCommit
  <2> PICK r : r = RecordToSend(a, last)
    OBVIOUS
  <2> DEFINE S == DOMAIN admin[a].payouts
  <2>1. /\ Payees(a) /\ RowsWritten(a, last) /\ GrantsMade(a) /\ GoesToNotary(a, last)
        /\ admin[a].pc = "APPROVING" /\ last \in S /\ UNCHANGED record
    BY <1>11, CommitFacts DEF ApproveCommit, chainVars
  <2>2. ~Approved(b) /\ Rows(b, {"PENDING"}) \subseteq S
        /\ Rows(b, {"READY"}) = {} /\ record[b] = NoRecord
    BY <2>1 DEF Recording, Payees
  <2>3. \A c \in Admins : admin'[c] = [pc |-> "NOTARISING", batch |-> b, record |-> r]
    BY <2>1 DEF GoesToNotary
  <2>4. \A d \in Batches : d # b => /\ Approved(d)' = Approved(d)
                                    /\ \A T : Rows(d, T)' = Rows(d, T)
                                    /\ \A q : Matches(d, q)' = Matches(d, q)
    <3> SUFFICES ASSUME NEW d \in Batches, d # b
                 PROVE  /\ Approved(d)' = Approved(d)
                        /\ \A T : Rows(d, T)' = Rows(d, T)
                        /\ \A q : Matches(d, q)' = Matches(d, q)
      OBVIOUS
    <3>1. \A h \in Holders : /\ row'[d][h] = row[d][h] /\ credits'[d][h] = credits[d][h]
                             /\ allotments'[d][h] = allotments[d][h]
      BY <2>1 DEF RowsWritten, GrantsMade
    <3>2. Approved(d)' = Approved(d)
      BY <3>1 DEF Approved, Granted
    <3>3. \A T : Rows(d, T)' = Rows(d, T)
      BY <3>1 DEF Rows
    <3>4. \A h \in Rows(d, {"READY"}) : row'[d][h] = row[d][h]
      BY <3>1 DEF Rows
    <3> QED BY <3>2, <3>3, <3>4 DEF Matches
  <2>5. Approved(b)'
    <3>1. last \in Holders /\ credits[b][last] \in Nat /\ allotments[b][last] \in Nat
      BY <2>2 DEF Typed
    <3>2. \/ credits'[b][last] = credits[b][last] + 1 /\ allotments'[b][last] \in {allotments[b][last], allotments[b][last] + 1}
          \/ allotments'[b][last] = allotments[b][last] + 1 /\ credits'[b][last] \in {credits[b][last], credits[b][last] + 1}
      BY <2>1, <3>1 DEF GrantsMade, Payees
    <3> QED BY <3>1, <3>2 DEF Approved, Granted
  <2>6. ASSUME NEW h \in Holders
        PROVE  \/ row'[b][h].status \in {"PAID", "NONE"}
               \/ /\ row'[b][h].status = "READY" /\ r.kind = "MERKLE"
                  /\ row'[b][h].proof = r.root /\ row'[b][h].amount = r.root[h]
    <3>1. CASE h \notin S
      <4>1. row'[b][h] = row[b][h] /\ h \notin Rows(b, {"PENDING"}) /\ h \notin Rows(b, {"READY"})
        BY <2>1, <2>2, <3>1 DEF RowsWritten
      <4>2. row[b][h].status \in {"NONE", "PENDING", "READY", "PAID"}
        BY <2>2 DEF Tables, RowType
      <4> QED BY <4>1, <4>2 DEF Rows
    <3>2. CASE h \in admin[a].off
      <4>1. row'[b][h] = SettledRow(a, h, Net(a, last), Root(a, last)) /\ admin[a].payouts[h] \in RowType
        BY <2>1, <2>2, <3>2 DEF RowsWritten, Payees
      <4>2. row'[b][h].status = "PAID"
        BY <3>2, <4>1 DEF SettledRow, RowType
      <4> QED BY <4>2
    <3>3. CASE h \in OnChainPart(a)
      <4>1. row'[b][h] = SettledRow(a, h, Net(a, last), Root(a, last)) /\ h \notin admin[a].off
        BY <2>1, <2>2, <3>3 DEF RowsWritten, Payees
      <4>2. Root(a, last)[h] = Net(a, last)[h]
        BY <3>3 DEF Root
      <4>3. r = [kind |-> "MERKLE", root |-> Root(a, last)]
        BY <3>3 DEF RecordToSend
      <4> QED BY <4>1, <4>2, <4>3 DEF SettledRow, NoRow
    <3> QED BY <2>1, <3>1, <3>2, <3>3 DEF Payees
  <2>7. r.kind # "NONE"
    BY DEF RecordToSend
  <2>8. Rows(b, {"PENDING"})' = {} /\ Matches(b, r)'
    BY <2>6 DEF Rows, Matches
  <2> QED BY <2>1, <2>2, <2>3, <2>4, <2>5, <2>7, <2>8 DEF Recording
<1> QED
  BY <1>2, <1>4, <1>5, <1>6, <1>7, <1>8, <1>10, <1>11 DEF Next, ApproveStep, NotaryStep, HolderStep,
     IndexerStep, UpdateProfile, GetUserMerkleProof, Claim, ConfirmRead, HandleYieldClaimed, rowVars,
     chainVars, moneyVars, vars

\* While approvals run one at a time, every proof that is served is accepted by
\* the contract once the batch is recorded: the record that is kept, the first,
\* is of the root the rows were put under (approveDistributionBatch,
\* recordYieldWithMerkleOnChain, getUserMerkleProof).
THEOREM ProofsAreAccepted ==
  ASSUME \A a, c \in Admins : a = c
  PROVE  Spec => []ReadyProofIsValid
<1> DEFINE IInv == Typed /\ Tables /\ GrantInv /\ Recording
<1>1. Init => IInv
  BY GrantInit, TypedInit, TablesInit, RecordingInit
<1>2. IInv /\ [Next]_vars => IInv'
  BY TypedStep, TablesStep, GrantStep, RecordingStep
<1>3. IInv => ReadyProofIsValid
  BY DEF Recording, Matches, ReadyProofIsValid, NoRecord
<1> HIDE DEF IInv
<1> QED BY <1>1, <1>2, <1>3, PTL DEF Spec

-----------------------------------------------------------------------------
(* Amounts *)

\* Rounding is off by half a unit at most.
LEMMA RoundNear ==
  ASSUME NEW num \in Int, NEW den \in Nat \ {0}
  PROVE  LET d == 2 * (den * Round(num, den) - num) IN -den <= d /\ d <= den
<1> DEFINE q == (2 * num + den) \div (2 * den)
<1>1. \A n \in Int, k \in Nat \ {0} : k * (n \div k) <= n /\ n < k * (n \div k) + k
  OBVIOUS
<1>2. 2 * num + den \in Int /\ 2 * den \in Nat \ {0}
  OBVIOUS
<1>3. (2 * den) * q <= 2 * num + den /\ 2 * num + den < (2 * den) * q + 2 * den
  BY <1>1, <1>2
<1>4. q \in Int
  BY <1>2
<1>5. Round(num, den) = q
  BY DEF Round
<1> HIDE DEF q
<1>6. (2 * den) * q = 2 * (den * q) /\ den * q \in Int
  <2>1. \A m, n \in Int : (2 * m) * n = 2 * (m * n) /\ m * n \in Int
    OBVIOUS
  <2> QED BY <1>4, <2>1
<1> QED BY <1>3, <1>5, <1>6

\* What an approval takes is its fee and what it grants, but for the rounding
\* of the payouts when its modes are mixed.
LEMMA ApprovalDrift ==
  ASSUME NEW S \in SUBSET Holders, NEW amounts \in [S -> Int], NEW off \in SUBSET S, NEW last \in S
  PROVE  LET d == Total(amounts) - PlatformFee(Total(amounts)) - Total(NetShares(amounts, off, last))
         IN  /\ d \in Int
             /\ off \in {{}, S} => d = 0
             /\ -Cardinality(S) <= d /\ d <= Cardinality(S)
<1> DEFINE net == [h \in S |-> Round(99 * amounts[h], 100)]
           part == [h \in S \ {last} |-> net[h]]
           shares == NetShares(amounts, off, last)
           G == Total(amounts)
           rest == G - PlatformFee(G) - Total(part)
<1>1. IsFiniteSet(S) /\ IsFiniteSet(S \ {last})
  BY FS_Subset
<1>2. net \in [S -> Int] /\ part \in [S \ {last} -> Int]
  BY RoundInt
<1>3. shares \in [S -> Int]
  BY NetSharesInt
<1>4. shares = IF off \in {{}, S} THEN [net EXCEPT ![last] = rest] ELSE net
  BY DEF NetShares
<1>5. G \in Int /\ PlatformFee(G) \in Int
  <2>1. G \in Int
    BY <1>1, TotalInt
  <2> HIDE DEF G
  <2> QED BY <2>1, RoundInt DEF PlatformFee
<1>6. Cardinality(S) \in Nat /\ Cardinality(S) >= 1
  <2>1. Cardinality(S) \in Nat /\ Cardinality(S) # 0
    BY <1>1, FS_CardinalityType, FS_EmptySet
  <2> QED BY <2>1
<1>7. CASE off \in {{}, S}
  <2>1. /\ Total(shares) = shares[last] + SumFunctionOnSet(shares, S \ {last})
        /\ Total(part) \in Int
    <3> HIDE DEF shares, part
    <3>1. SumFunctionOnSet(shares, S) = shares[last] + SumFunctionOnSet(shares, S \ {last})
      BY <1>1, <1>3, SumRemove
    <3> QED BY <1>1, <1>2, <1>3, <3>1, TotalInt DEF Total, SumFunction
  <2>2. shares[last] = rest
    BY <1>2, <1>4, <1>7
  <2>3. SumFunctionOnSet(shares, S \ {last}) = Total(part)
    <3>1. \A h \in S \ {last} : shares[h] = part[h]
      BY <1>2, <1>4, <1>7
    <3>2. DOMAIN part = S \ {last}
      OBVIOUS
    <3> HIDE DEF shares, part
    <3> QED BY <1>1, <3>1, <3>2, SumSame DEF Total, SumFunction
  <2> HIDE DEF shares, part, G
  <2> QED BY <1>5, <1>6, <2>1, <2>2, <2>3 DEF shares, G
<1>8. CASE off \notin {{}, S}
  <2> DEFINE err == [h \in S |-> 100 * net[h] - 99 * amounts[h]]
             N == Total(net)
  <2>1. shares = net
    BY <1>4, <1>8
  <2>2. \A h \in S : err[h] \in Int /\ -50 <= err[h] /\ err[h] <= 50
    <3> SUFFICES ASSUME NEW h \in S
                 PROVE  err[h] \in Int /\ -50 <= err[h] /\ err[h] <= 50
      OBVIOUS
    <3>1. amounts[h] \in Int /\ 99 * amounts[h] \in Int
      OBVIOUS
    <3>2. LET d == 2 * (100 * Round(99 * amounts[h], 100) - 99 * amounts[h]) IN -100 <= d /\ d <= 100
      BY <3>1, RoundNear
    <3>3. Round(99 * amounts[h], 100) \in Int
      BY <3>1, RoundInt
    <3>4. err[h] = 100 * Round(99 * amounts[h], 100) - 99 * amounts[h]
      OBVIOUS
    <3> HIDE DEF err
    <3> QED BY <3>1, <3>2, <3>3, <3>4
  <2>3. SumFunctionOnSet(err, S) = 100 * N - 99 * G
    <3>1. \A h \in S : /\ net[h] \in Int /\ amounts[h] \in Int
                      /\ err[h] = Times(100, net[h]) + Times(-99, amounts[h])
      BY <1>2 DEF Times
    <3>2. DOMAIN net = S /\ DOMAIN amounts = S
      OBVIOUS
    <3>3. N \in Int
      <4> HIDE DEF net
      <4> QED BY <1>1, <1>2, TotalInt
    <3> HIDE DEF net, err
    <3>4. SumFunctionOnSet(err, S)
            = Times(100, SumFunctionOnSet(net, S)) + Times(-99, SumFunctionOnSet(amounts, S))
      <4>1. 100 \in Int /\ -99 \in Int
        OBVIOUS
      <4> QED BY <1>1, <3>1, <4>1, SumLinear
    <3> QED BY <1>5, <3>2, <3>3, <3>4 DEF Total, SumFunction, Times
  <2>4. /\ -(50 * Cardinality(S)) <= SumFunctionOnSet(err, S)
        /\ SumFunctionOnSet(err, S) <= 50 * Cardinality(S)
    <3> HIDE DEF err
    <3> QED BY <1>1, <2>2, SumBound
  <2>5. LET d == 2 * (100 * Round(G, 100) - G) IN -100 <= d /\ d <= 100
    <3> HIDE DEF G
    <3> QED BY <1>5, RoundNear
  <2>6. N \in Int
    <3> HIDE DEF net
    <3> QED BY <1>1, <1>2, TotalInt
  <2>7. PlatformFee(G) = Round(G, 100)
    BY DEF PlatformFee
  <2>8. Total(shares) = N
    BY <2>1
  <2> HIDE DEF G, N, shares, err
  <2>9. LET d == G - PlatformFee(G) - Total(shares)
        IN  d \in Int /\ -Cardinality(S) <= d /\ d <= Cardinality(S)
    BY <1>5, <1>6, <2>3, <2>4, <2>5, <2>6, <2>7, <2>8
  <2> QED BY <1>8, <2>9 DEF G, shares
<1> QED BY <1>7, <1>8

\* A commit changes the money of its batch alone.
MoneyMoved(a, last) ==
  /\ partner' = partner - Gross(a)
  /\ \A c \in Batches :
       spent'[c] = IF c = admin[a].batch
                   THEN [debited |-> spent[c].debited + Gross(a),
                         fees    |-> spent[c].fees + PlatformFee(Gross(a)),
                         granted |-> spent[c].granted + Total(Net(a, last))]
                   ELSE spent[c]

LEMMA CommitMoney ==
  ASSUME Typed, Tables, NEW a \in Admins, NEW last \in Holders, ApproveCommit(a, last)
  PROVE  MoneyMoved(a, last)
<1> DEFINE b == admin[a].batch
           new == [debited |-> spent[b].debited + Gross(a),
                   fees    |-> spent[b].fees + PlatformFee(Gross(a)),
                   granted |-> spent[b].granted + Total(Net(a, last))]
<1>1. partner' = partner - Gross(a) /\ spent' = [spent EXCEPT ![b] = new]
  BY DEF ApproveCommit, Net
<1>2. b \in Batches
  BY DEF ApproveCommit, Typed
<1>3. \A c \in Batches : spent'[c] = IF c = b THEN new ELSE spent[c]
  <2> HIDE DEF b, new
  <2> QED BY <1>1, <1>2 DEF Tables
<1> QED BY <1>1, <1>3 DEF MoneyMoved

\* The totals of the payouts that are granted.
LEMMA GrantTotals ==
  ASSUME Typed, NEW b \in Batches
  PROVE  Total(credits[b]) \in Nat /\ Total(allotments[b]) \in Nat
<1>1. credits[b] \in [Holders -> Nat] /\ allotments[b] \in [Holders -> Nat]
  BY DEF Typed
<1> QED BY <1>1, SumNat DEF Total, SumFunction

LEMMA GrantTotalsGrow ==
  ASSUME Typed, Typed', NEW a \in Admins, Payees(a), GrantsMade(a),
         NEW b \in Batches, b = admin[a].batch
  PROVE  /\ Total(credits'[b]) = Total(credits[b]) + Cardinality(admin[a].off)
         /\ Total(allotments'[b]) = Total(allotments[b]) + Cardinality(OnChainPart(a))
<1>1. /\ credits[b] \in [Holders -> Nat] /\ allotments[b] \in [Holders -> Nat]
      /\ credits'[b] \in [Holders -> Nat] /\ allotments'[b] \in [Holders -> Nat]
  BY DEF Typed
<1>2. admin[a].off \in SUBSET Holders /\ OnChainPart(a) \in SUBSET Holders
  BY DEF Payees
<1>3. \A h \in Holders :
        /\ credits'[b][h] = IF h \in admin[a].off THEN credits[b][h] + 1 ELSE credits[b][h]
        /\ allotments'[b][h] = IF h \in OnChainPart(a) THEN allotments[b][h] + 1
                               ELSE allotments[b][h]
  BY DEF GrantsMade
<1>4. SumFunctionOnSet(credits'[b], Holders)
        = SumFunctionOnSet(credits[b], Holders) + Cardinality(admin[a].off)
  BY <1>1, <1>2, <1>3, SumCount
<1>5. SumFunctionOnSet(allotments'[b], Holders)
        = SumFunctionOnSet(allotments[b], Holders) + Cardinality(OnChainPart(a))
  BY <1>1, <1>2, <1>3, SumCount
<1> QED BY <1>1, <1>4, <1>5 DEF Total, SumFunction

\* A batch whose money adds up, and the sum over the batches.
BatchAddsUp(b) ==
  /\ (Total(credits[b]) = 0 \/ Total(allotments[b]) = 0) => Drift(b) = 0
  /\ Drift(b) \in -Payouts(b) .. Payouts(b)

Debited == [b \in Batches |-> spent[b].debited]

LEMMA MoneyStep ==
  ASSUME Typed, Typed', Tables, MoneyAddsUp, [Next]_vars
  PROVE  MoneyAddsUp'
<1>1. CASE UNCHANGED <<partner, spent, credits, allotments>>
  BY <1>1 DEF MoneyAddsUp, Drift, Payouts
<1>2. ASSUME NEW a \in Admins, NEW last \in Holders, ApproveCommit(a, last)
      PROVE  MoneyAddsUp'
  <2>1. PICK b \in Batches : b = admin[a].batch
    BY <1>2 DEF ApproveCommit, Typed
  <2> DEFINE S == DOMAIN admin[a].payouts
             off == admin[a].off
             amounts == [h \in S |-> admin[a].payouts[h].amount]
  <2>2. Payees(a) /\ GrantsMade(a) /\ MoneyMoved(a, last)
    BY <1>2, CommitFacts, CommitMoney
  <2>3. S \in SUBSET Holders /\ off \in SUBSET S /\ amounts \in [S -> Int] /\ last \in S
    BY <1>2, <2>2 DEF Payees, RowType, ApproveCommit
  <2>4. Net(a, last) = NetShares(amounts, off, last) /\ Gross(a) = Total(amounts)
    BY DEF Net, Gross
  <2>5. IsFiniteSet(S) /\ Gross(a) \in Int /\ Total(Net(a, last)) \in Int /\ PlatformFee(Gross(a)) \in Int
    <3>1. IsFiniteSet(S)
      BY <2>3, FS_Subset
    <3>2. NetShares(amounts, off, last) \in [S -> Int]
      <4> HIDE DEF S, amounts, off
      <4> QED BY <2>3, NetSharesInt
    <3>3. Gross(a) \in Int /\ Total(Net(a, last)) \in Int
      <4> HIDE DEF S, amounts, off
      <4> QED BY <2>3, <2>4, <3>1, <3>2, TotalInt
    <3> QED BY <3>1, <3>3, RoundInt DEF PlatformFee
  <2>6. LET d == Gross(a) - PlatformFee(Gross(a)) - Total(Net(a, last))
        IN  /\ d \in Int
            /\ off \in {{}, S} => d = 0
            /\ -Cardinality(S) <= d /\ d <= Cardinality(S)
    <3> HIDE DEF S, amounts, off
    <3> QED BY <2>3, <2>4, ApprovalDrift
  <2>7. /\ \A c \in Batches : spent[c] \in [debited : Int, fees : Int, granted : Int]
        /\ partner \in Nat
    BY DEF Tables
  <2>8. spent'[b] = [debited |-> spent[b].debited + Gross(a),
                      fees    |-> spent[b].fees + PlatformFee(Gross(a)),
                      granted |-> spent[b].granted + Total(Net(a, last))]
    BY <2>1, <2>2 DEF MoneyMoved
  <2>9. PartnerFunds - partner' = Total(Debited')
    <3>1. PartnerFunds - partner = Total(Debited)
      BY DEF MoneyAddsUp, Debited
    <3>2. /\ \A c \in Batches : Debited[c] \in Int /\ Debited'[c] \in Int
          /\ \A c \in Batches \ {b} : Debited[c] = Debited'[c]
          /\ Debited'[b] = Debited[b] + Gross(a)
      <4>1. \A c \in Batches : Debited[c] = spent[c].debited /\ Debited'[c] = spent'[c].debited
        BY DEF Debited
      <4>2. \A c \in Batches \ {b} : spent'[c] = spent[c]
        BY <2>1, <2>2 DEF MoneyMoved
      <4>3. spent'[b].debited = spent[b].debited + Gross(a)
        BY <2>8
      <4>4. \A c \in Batches : spent[c].debited \in Int
        BY <2>7
      <4> QED BY <2>5, <4>1, <4>2, <4>3, <4>4
    <3>3. DOMAIN Debited = Batches /\ DOMAIN Debited' = Batches
      BY DEF Debited
    <3>4. SumFunctionOnSet(Debited', Batches)
            = SumFunctionOnSet(Debited, Batches) + Debited'[b] - Debited[b]
      BY <3>2, SumChange
    <3>5. SumFunctionOnSet(Debited, Batches) \in Int
      BY <3>2, SumInt
    <3>6. Total(Debited') = Total(Debited) + Gross(a)
      BY <2>5, <3>2, <3>3, <3>4, <3>5 DEF Total, SumFunction
    <3>7. Total(Debited) \in Int
      BY <3>3, <3>5 DEF Total, SumFunction
    <3> QED BY <2>2, <2>5, <2>7, <3>1, <3>6, <3>7 DEF MoneyMoved
  <2>10. ASSUME NEW c \in Batches, c # b PROVE BatchAddsUp(c)'
    <3>1. credits[c] \in [Holders -> Nat] /\ credits'[c] \in [Holders -> Nat]
          /\ allotments[c] \in [Holders -> Nat] /\ allotments'[c] \in [Holders -> Nat]
      BY DEF Typed
    <3>2. \A h \in Holders : credits'[c][h] = credits[c][h] /\ allotments'[c][h] = allotments[c][h]
      BY <2>1, <2>2, <2>10 DEF GrantsMade
    <3>3. credits'[c] = credits[c] /\ allotments'[c] = allotments[c]
      BY <3>1, <3>2
    <3>4. spent'[c] = spent[c]
      BY <2>1, <2>2, <2>10 DEF MoneyMoved
    <3> QED BY <3>3, <3>4 DEF BatchAddsUp, MoneyAddsUp, Drift, Payouts
  <2>11. BatchAddsUp(b)'
    <3> DEFINE C == Total(credits[b])
               A == Total(allotments[b])
    <3>1. C \in Nat /\ A \in Nat
      BY GrantTotals
    <3>2. /\ Total(credits'[b]) = C + Cardinality(off)
          /\ Total(allotments'[b]) = A + Cardinality(S \ off)
      BY <2>1, <2>2, GrantTotalsGrow DEF Payees
    <3>3. /\ Cardinality(off) \in Nat /\ Cardinality(S \ off) \in Nat /\ Cardinality(S) \in Nat
          /\ Cardinality(S) = Cardinality(off) + Cardinality(S \ off)
          /\ Cardinality(off) = 0 => off = {}
          /\ Cardinality(S \ off) = 0 => off = S
      <4>1. IsFiniteSet(off) /\ IsFiniteSet(S \ off) /\ S \cap off = off
        BY <2>3, <2>5, FS_Subset
      <4>2. Cardinality(S \ off) = Cardinality(S) - Cardinality(off)
        BY <2>5, <4>1, FS_Difference
      <4>3. /\ Cardinality(off) \in Nat /\ Cardinality(S \ off) \in Nat /\ Cardinality(S) \in Nat
            /\ Cardinality(off) = 0 => off = {}
            /\ Cardinality(S \ off) = 0 => S \ off = {}
        BY <2>5, <4>1, FS_CardinalityType, FS_EmptySet
      <4>4. S \ off = {} => off = S
        BY <2>3
      <4> HIDE DEF S, off
      <4> QED BY <4>2, <4>3, <4>4
    <3>5. /\ C = 0 \/ A = 0 => Drift(b) = 0
          /\ Drift(b) \in -(C + A) .. (C + A)
      BY DEF MoneyAddsUp, Payouts
    <3> DEFINE d == Gross(a) - PlatformFee(Gross(a)) - Total(Net(a, last))
               New == spent'[b].debited - spent'[b].fees - spent'[b].granted
    <3>6. d \in Int /\ New = Drift(b) + d /\ Drift(b) \in Int
      BY <2>5, <2>7, <2>8 DEF Drift
    <3>7. /\ off \in {{}, S} => d = 0
          /\ -Cardinality(S) <= d /\ d <= Cardinality(S)
      BY <2>6
    <3> HIDE DEF C, A, S, off, d, New
    <3>8. /\ (C + Cardinality(off) = 0 \/ A + Cardinality(S \ off) = 0) => New = 0
          /\ New \in -(C + Cardinality(off) + (A + Cardinality(S \ off))) ..
                       (C + Cardinality(off) + (A + Cardinality(S \ off)))
      BY <3>1, <3>3, <3>5, <3>6, <3>7
    <3> QED BY <3>2, <3>8 DEF BatchAddsUp, Drift, Payouts, New
  <2> QED BY <2>1, <2>9, <2>10, <2>11 DEF MoneyAddsUp, BatchAddsUp, Debited
<1> QED
  BY <1>1, <1>2 DEF Next, PartnerStep, ApproveStep, NotaryStep, HolderStep, IndexerStep,
     TriggerDistributionFromIncome, Distribute, ApproveRead, ApproveAbort, Notarise, NotaryFailed,
     RejectDistributionBatch, UpdateProfile, GetUserMerkleProof, Claim, ConfirmRead, ConfirmSave,
     HandleYieldRecorded, HandleYieldClaimed, vars, moneyVars

\* The units of all the holders are those of the last one and of the others.
LEMMA UnitsOfTheOthers ==
  ASSUME NEW last \in Eligible
  PROVE  /\ SumFunctionOnSet(Units, Eligible \ {last}) \in Int
         /\ Total(Units) = Units[last] + SumFunctionOnSet(Units, Eligible \ {last})
<1>1. IsFiniteSet(Eligible) /\ Eligible \in SUBSET Holders /\ IsFiniteSet(Eligible \ {last})
  BY EligibleFinite, FS_RemoveElement
<1>2. \A h \in Holders : Units[h] \in Nat
  OBVIOUS
<1>3. \A h \in Holders \ Eligible : Units[h] = 0
  BY <1>2 DEF Eligible
<1>4. SumFunctionOnSet(Units, Holders) = SumFunctionOnSet(Units, Eligible)
  BY <1>1, <1>2, <1>3, SumSupport
<1>5. SumFunctionOnSet(Units, Eligible) = Units[last] + SumFunctionOnSet(Units, Eligible \ {last})
  BY <1>1, <1>2, SumRemove
<1>6. SumFunctionOnSet(Units, Eligible \ {last}) \in Int
  BY <1>1, <1>2, SumInt
<1>7. DOMAIN Units = Holders
  OBVIOUS
<1> QED BY <1>4, <1>5, <1>6, <1>7 DEF Total, SumFunction

\* How far a share of the total is from the exact one, in halves of a unit.
Off(amount, total, h) == 2 * (amount * Total(Units) - total * Units[h])

LEMMA GrossSharesFair ==
  ASSUME NEW total \in Nat, NEW last \in Eligible, NEW h \in Eligible
  PROVE  LET n == Cardinality(Eligible) * Total(Units)
         IN  Off(GrossShares(total, last)[h], total, h) \in -n .. n
<1> DEFINE S == Eligible \ {last}
           share == [k \in S |-> Round(total * Units[k], Total(Units))]
           err == [k \in S |-> Off(share[k], total, k)]
           N == Total(Units)
           C == Cardinality(S)
<1>1. N \in Nat \ {0}
  BY UnitsTotal
<1>2. \A m, n \in Int : m * n \in Int /\ m * n = n * m
  OBVIOUS
<1>3. \A k \in Eligible : Units[k] \in Nat
  BY DEF Eligible
<1>4. IsFiniteSet(S) /\ C \in Nat /\ Cardinality(Eligible) = C + 1
  <2>1. IsFiniteSet(S) /\ Cardinality(S) = Cardinality(Eligible) - 1
    BY EligibleFinite, FS_RemoveElement
  <2>2. Cardinality(S) \in Nat /\ Cardinality(Eligible) \in Nat
    BY <2>1, EligibleFinite, FS_CardinalityType
  <2> QED BY <2>1, <2>2
<1>5. ASSUME NEW k \in S
      PROVE  share[k] \in Int /\ err[k] \in Int /\ -N <= err[k] /\ err[k] <= N
  <2> DEFINE num == total * Units[k]
  <2>1. num \in Int
    BY <1>2, <1>3
  <2>2. share[k] = Round(num, N)
    OBVIOUS
  <2> HIDE DEF num, N, share
  <2>3. Round(num, N) \in Int
    BY <1>1, <2>1, RoundInt
  <2>4. LET d == 2 * (N * Round(num, N) - num) IN -N <= d /\ d <= N
    BY <1>1, <2>1, RoundNear
  <2>5. Off(share[k], total, k) = 2 * (N * share[k] - num)
    BY <1>1, <1>2, <2>2, <2>3 DEF Off, N, num
  <2>6. N * share[k] \in Int
    BY <1>1, <1>2, <2>2, <2>3
  <2> QED BY <1>1, <2>1, <2>2, <2>3, <2>4, <2>5, <2>6
<1>6. (C + 1) * N = C * N + N /\ C * N \in Nat /\ N * C = C * N
  <2>1. \A m, n \in Nat : (m + 1) * n = m * n + n /\ m * n \in Nat /\ n * m = m * n
    OBVIOUS
  <2> HIDE DEF C, N
  <2> QED BY <1>1, <1>4, <2>1
<1>7. GrossShares(total, last) = [k \in Eligible |-> IF k = last THEN total - Total(share) ELSE share[k]]
  BY DEF GrossShares
<1>8. CASE h # last
  <2>1. h \in S /\ GrossShares(total, last)[h] = share[h]
    BY <1>7, <1>8
  <2>2. Off(share[h], total, h) = err[h]
    BY <2>1
  <2> HIDE DEF S, share, err, N, C
  <2>3. Off(GrossShares(total, last)[h], total, h) \in -((C + 1) * N) .. ((C + 1) * N)
    BY <1>1, <1>5, <1>6, <2>1, <2>2
  <2> QED BY <1>4, <2>3 DEF N
<1>9. CASE h = last
  <2> DEFINE A == Total(share)
             E == SumFunctionOnSet(err, S)
             U == SumFunctionOnSet(Units, S)
  <2>1. GrossShares(total, last)[h] = total - A
    BY <1>7, <1>9
  <2>2. A = SumFunctionOnSet(share, S) /\ A \in Int
    <3>1. share \in [S -> Int] /\ DOMAIN share = S
      BY <1>5
    <3> HIDE DEF share, S
    <3> QED BY <1>4, <3>1, TotalInt DEF Total, SumFunction
  <2>3. E \in Int /\ -(N * C) <= E /\ E <= N * C
    <3> HIDE DEF share, S, err, N
    <3>1. \A k \in S : err[k] \in Int /\ -N <= err[k] /\ err[k] <= N
      BY <1>5
    <3>2. N \in Nat
      BY <1>1
    <3> QED BY <1>4, <3>1, <3>2, SumBound, SumInt
  <2>4. E = Times(2 * N, A) + Times(-(2 * total), U)
    <3>1. \A k \in S : /\ share[k] \in Int /\ Units[k] \in Int
                       /\ err[k] = Times(2 * N, share[k]) + Times(-(2 * total), Units[k])
      <4> SUFFICES ASSUME NEW k \in S
                   PROVE  /\ share[k] \in Int /\ Units[k] \in Int
                          /\ err[k] = Times(2 * N, share[k]) + Times(-(2 * total), Units[k])
        OBVIOUS
      <4>1. share[k] \in Int /\ Units[k] \in Int
        BY <1>3, <1>5
      <4>2. err[k] = 2 * (share[k] * N - total * Units[k])
        BY DEF Off
      <4>3. \A s, u, n \in Int : \A t \in Nat : 2 * (s * n - t * u) = (2 * n) * s + (-(2 * t)) * u
        OBVIOUS
      <4> HIDE DEF share, err, N
      <4> QED BY <1>1, <4>1, <4>2, <4>3 DEF Times
    <3>2. 2 * N \in Int /\ -(2 * total) \in Int
      BY <1>1
    <3> HIDE DEF share, S, err, N
    <3>3. E = Times(2 * N, SumFunctionOnSet(share, S)) + Times(-(2 * total), SumFunctionOnSet(Units, S))
      BY <1>4, <3>1, <3>2, SumLinear
    <3> QED BY <2>2, <3>3
  <2>5. U \in Int /\ N = Units[last] + U
    BY UnitsOfTheOthers
  <2>6. Off(total - A, total, last) = -E
    <3>1. Units[last] \in Int
      BY <1>3
    <3>2. \A t \in Nat : \A a, u, v \in Int :
            2 * ((t - a) * (v + u) - t * v) = -((2 * (v + u)) * a + (-(2 * t)) * u)
      OBVIOUS
    <3>3. Off(total - A, total, last) = 2 * ((total - A) * N - total * Units[last])
      BY DEF Off
    <3> HIDE DEF A, E, U, N
    <3> QED BY <2>2, <2>4, <2>5, <3>1, <3>2, <3>3 DEF Times
  <2> HIDE DEF A, E, U, N, C, S
  <2>7. Off(GrossShares(total, last)[h], total, h) \in -((C + 1) * N) .. ((C + 1) * N)
    BY <1>1, <1>6, <1>9, <2>1, <2>3, <2>6
  <2> QED BY <1>4, <2>7 DEF N
<1> QED BY <1>8, <1>9

\* A pending payout is as it was made.
PendingAsMade ==
  \A b \in Batches, h \in Holders : row[b][h].status = "PENDING" =>
    h \in Eligible /\ \E last \in Eligible : row[b][h].amount = GrossShares(made[b].total, last)[h]

LEMMA PendingStep ==
  ASSUME Typed, Tables, PendingAsMade, [Next]_vars
  PROVE  PendingAsMade'
<1>1. ASSUME UNCHANGED made,
             \A b \in Batches, h \in Holders :
               row'[b][h] = row[b][h] \/ row'[b][h].status # "PENDING"
      PROVE  PendingAsMade'
  BY <1>1 DEF PendingAsMade
<1>2. ASSUME NEW b \in Batches, NEW total, NEW last \in Eligible, NEW from,
             TriggerYieldDistribution(b, total, last, from)
      PROVE  PendingAsMade'
  <2>1. \A c \in Batches : c # b => row'[c] = row[c] /\ made'[c] = made[c]
    BY <1>2 DEF TriggerYieldDistribution, Typed, Tables
  <2>2. made'[b].total = total
    BY <1>2 DEF TriggerYieldDistribution, Typed
  <2>3. \A h \in Holders :
          row'[b][h].status = "PENDING" =>
            h \in Eligible /\ row'[b][h].amount = GrossShares(total, last)[h]
    BY <1>2 DEF TriggerYieldDistribution, Tables, NoRow
  <2> QED BY <2>1, <2>2, <2>3 DEF PendingAsMade
<1>3. CASE PartnerStep
  BY <1>2, <1>3 DEF PartnerStep, TriggerDistributionFromIncome, Distribute
<1>4. ASSUME NEW b \in Batches, RejectDistributionBatch(b) PROVE PendingAsMade'
  <2>1. \A c \in Batches, h \in Holders : row'[c][h] = row[c][h] \/ row'[c][h].status # "PENDING"
    BY <1>4 DEF RejectDistributionBatch, Tables, NoRow
  <2> QED BY <1>1, <1>4, <2>1 DEF RejectDistributionBatch
<1>5. ASSUME NEW h \in Holders, ConfirmSave(h) PROVE PendingAsMade'
  <2> DEFINE b == confirm[h].batch
             saved == [confirm[h].row EXCEPT !.status = "PAID"]
  <2>1. b \in Batches /\ saved.status = "PAID"
    BY <1>5 DEF ConfirmSave, Tables, Idle, RowType
  <2>2. row' = [row EXCEPT ![b][h] = saved] /\ UNCHANGED made
    BY <1>5 DEF ConfirmSave
  <2> HIDE DEF b, saved
  <2>3. \A c \in Batches, k \in Holders : row'[c][k] = row[c][k] \/ row'[c][k].status # "PENDING"
    BY <2>1, <2>2 DEF Tables
  <2> QED BY <1>1, <2>2, <2>3
<1>6. ASSUME NEW b \in Batches, HandleYieldRecorded(b) PROVE PendingAsMade'
  <2>1. \A c \in Batches, h \in Holders : row'[c][h] = row[c][h]
    BY <1>6, HashFindsNothing DEF HandleYieldRecorded
  <2> QED BY <1>1, <1>6, <2>1 DEF HandleYieldRecorded
<1>7. ASSUME NEW a \in Admins, NEW last \in Holders, ApproveCommit(a, last) PROVE PendingAsMade'
  <2>1. Payees(a) /\ RowsWritten(a, last) /\ UNCHANGED made
    BY <1>7, CommitFacts DEF ApproveCommit
  <2>2. ASSUME NEW h \in DOMAIN admin[a].payouts, NEW net, NEW root
        PROVE  SettledRow(a, h, net, root).status # "PENDING"
    <3>1. admin[a].payouts[h] \in RowType
      BY <2>1 DEF Payees
    <3> QED BY <3>1 DEF SettledRow, RowType, NoRow
  <2>3. \A c \in Batches, h \in Holders : row'[c][h] = row[c][h] \/ row'[c][h].status # "PENDING"
    BY <2>1, <2>2 DEF RowsWritten
  <2> QED BY <1>1, <2>1, <2>3
<1>8. CASE UNCHANGED <<row, made>>
  BY <1>1, <1>8
<1> QED
  BY <1>3, <1>4, <1>5, <1>6, <1>7, <1>8 DEF Next, ApproveStep, NotaryStep, HolderStep,
     IndexerStep, ApproveRead, ApproveAbort, Notarise, NotaryFailed, UpdateProfile,
     GetUserMerkleProof, Claim, ConfirmRead, HandleYieldClaimed, rowVars, vars

LEMMA PendingIsFair == Typed /\ PendingAsMade => SharesAreFair
<1> SUFFICES ASSUME Typed, PendingAsMade, NEW b \in Batches, NEW h \in Rows(b, {"PENDING"})
             PROVE  LET d == 2 * (row[b][h].amount * Total(Units) - made[b].total * Units[h])
                        n == Cardinality(Eligible) * Total(Units)
                    IN  d \in -n .. n
  BY DEF SharesAreFair
<1>1. PICK last \in Eligible :
        h \in Eligible /\ row[b][h].amount = GrossShares(made[b].total, last)[h]
  BY DEF PendingAsMade, Rows
<1>2. made[b].total \in Nat
  BY DEF Typed
<1> QED BY <1>1, <1>2, GrossSharesFair DEF Off

\* However many holders share a total, and in whatever order, no pending payout
\* is further than half a halala per holder from its exact share; and however
\* approvals run, what they take from the partner is the platform's fee and
\* what they grant, to the halala in a batch of one mode and to one halala per
\* payout in a mixed one (triggerYieldDistribution, approveDistributionBatch).
THEOREM AmountsAddUp == Spec => []AmountsAreRight
<1> DEFINE IInv == Typed /\ Tables /\ PendingAsMade /\ MoneyAddsUp
<1>1. Init => IInv
  <2>1. Init => PendingAsMade
    BY DEF Init, PendingAsMade, NoRow
  <2>2. ASSUME Init PROVE MoneyAddsUp
    <3>1. Total([b \in Batches |-> spent[b].debited]) = 0
      <4> DEFINE D == [b \in Batches |-> spent[b].debited]
      <4>1. DOMAIN D = Batches /\ \A b \in Batches : D[b] = 0
        BY <2>2 DEF Init
      <4> HIDE DEF D
      <4>2. Total(D) = 0
        BY <4>1, SumZero DEF Total, SumFunction
      <4> QED BY <4>2 DEF D
    <3>2. ASSUME NEW b \in Batches
          PROVE Drift(b) = 0 /\ Total(credits[b]) = 0 /\ Total(allotments[b]) = 0
      <4>1. /\ DOMAIN credits[b] = Holders /\ DOMAIN allotments[b] = Holders
            /\ \A h \in Holders : credits[b][h] = 0 /\ allotments[b][h] = 0
        BY <2>2 DEF Init
      <4>2. Total(credits[b]) = 0 /\ Total(allotments[b]) = 0
        BY <4>1, SumZero DEF Total, SumFunction
      <4>3. Drift(b) = 0
        BY <2>2 DEF Init, Drift
      <4> QED BY <4>2, <4>3
    <3>3. PartnerFunds - partner = 0
      BY <2>2 DEF Init
    <3> QED BY <3>1, <3>2, <3>3 DEF MoneyAddsUp, Payouts
  <2> QED BY <2>1, <2>2, TypedInit, TablesInit
<1>2. IInv /\ [Next]_vars => IInv'
  <2>1. Typed /\ Tables /\ MoneyAddsUp /\ [Next]_vars /\ Typed' => MoneyAddsUp'
    BY MoneyStep
  <2> QED BY <2>1, TypedStep, TablesStep, PendingStep
<1>3. IInv => AmountsAreRight
  BY PendingIsFair DEF AmountsAreRight
<1> HIDE DEF IInv
<1> QED BY <1>1, <1>2, <1>3, PTL DEF Spec
=============================================================================
