-------------------------------- MODULE Identity --------------------------------
(* One user's row and everything that writes it: KYC decisions and freezes by   *)
(* administrators, wallets linked by the user or provisioned at Privy, wallet   *)
(* recovery, and the indexer's identity handler.  Each reads the whole row,     *)
(* goes to the chain or to Privy, and saves the row it has read.  Sources:      *)
(* admin/, kyc/, user/, auth/, Recovery/, blockchain/ and its identity handler. *)
EXTENDS Integers, Sequences, FiniteSets, SequencesExt, Functions

CONSTANTS
  Clerks,        \* bound: the requests ever made about KYC, freezes and wallets
  Operators,     \* bound: those about recoveries
  Indexer,       \* the process that polls the chain
  Wallets,       \* bound: the wallets there can be, as they may be written
  Address,       \* each wallet as the chain, Privy and ethers.getAddress write it
  Home,          \* the wallet the user has and holds its tokens in at first
  Named,         \* the wallets outside Privy the user may name
  Taken,         \* those of them linked to another account
  Tokens,
  Holding,       \* units of each token in Home at first
  Recoveries,    \* bound: the recovery requests ever made
  MaxLag         \* bound: identity events the indexer has not handled yet

ASSUME IdentityAssumption ==
  /\ Indexer \notin Clerks \cup Operators
  /\ Home \in Wallets
  /\ Named \subseteq Wallets \ {Home}
  /\ Taken \subseteq Named
  /\ Holding \in [Tokens -> Nat]
  /\ "NONE" \notin Wallets
  /\ MaxLag \in Nat
  /\ IsFiniteSet(Wallets)

\* What Privy makes is stored as the chain writes it; what a user names may not be.
ASSUME AddressAssumption ==
  /\ Address \in [Wallets -> Wallets]
  /\ \A w \in Wallets : Address[Address[w]] = Address[w]
  /\ \A w \in Named : Address[w] \in Named
  /\ \A w \in Wallets \ Named : Address[w] = w

VARIABLES
  user,        \* the users row: wallet, privy, verified, active
  kyc,         \* status of its KycProfile
  registry,    \* the identity registry on the chain, per wallet
  events,      \* IdentityUpdated logs not handled yet, oldest first
  container,   \* the Ethereum wallets of the user at Privy, oldest first
  recovery,    \* the recovery requests
  balance,     \* the tokens on the chain
  call,        \* what each request, and the indexer, is doing
  registered,  \* ghost: the wallets that have ever been registered
  received,    \* ghost: the wallets a recovery has ever moved units to
  calm         \* ghost: no two calls have overlapped, no event was lost, and
               \* the user has not replaced its wallet by itself

vars == <<user, kyc, registry, events, container, recovery, balance, call, registered, received, calm>>
chainVars == <<registry, events, registered>>
tokenVars == <<balance, received>>
assetVars == <<container, recovery, tokenVars>>

None == "NONE"
Idle == [pc |-> "IDLE"]
Done == [pc |-> "DONE"]
Procs == Clerks \cup Operators \cup {Indexer}
Columns == {"wallet", "privy", "verified", "active"}
Open == {"PENDING_DOCUMENTS", "UNDER_REVIEW", "APPROVED"}

\* What goes to the chain is written as the chain writes it.
NormalizeAddress(w) == IF w = None THEN None ELSE Address[w]

-----------------------------------------------------------------------------
(* An account that holds tokens, or one that has just registered. *)
Init ==
  /\ \/ /\ user = [wallet |-> Home, privy |-> TRUE, verified |-> TRUE, active |-> TRUE]
        /\ kyc = "APPROVED"
        /\ container = <<Home>>
        /\ registered = {Home}
     \/ /\ user = [wallet |-> None, privy |-> FALSE, verified |-> FALSE, active |-> TRUE]
        /\ kyc = "PENDING"
        /\ container = <<>>
        /\ registered = {}
  /\ registry = [w \in Wallets |-> [verified |-> w \in registered, frozen |-> FALSE]]
  /\ events = <<>>
  /\ recovery = [r \in Recoveries |-> [status |-> None]]
  /\ balance = [t \in Tokens |-> [w \in Wallets |-> IF w \in registered THEN Holding[t] ELSE 0]]
  /\ call = [p \in Procs |-> Idle]
  /\ received = {}
  /\ calm = TRUE

-----------------------------------------------------------------------------
(* Reading and saving the row *)

Alone == \A p \in Procs : call[p] \in {Idle, Done}

\* A call starts by reading the row; mine is the entity it will save.
Begin(p, c) ==
  /\ call[p] = Idle
  /\ call' = [call EXCEPT ![p] = c]
  /\ calm' = (calm /\ Alone)

Step(p, pc) == call' = [call EXCEPT ![p].pc = pc]
End(p) == call' = [call EXCEPT ![p] = IF p = Indexer THEN Idle ELSE Done]

\* save(): TypeORM selects the row and notes the columns in which it differs.
SaveSelect(p) ==
  /\ call[p].pc = "SELECT"
  /\ call' = [call EXCEPT ![p] = [@ EXCEPT !.pc = "WRITE",
                                  !.columns = {f \in Columns : call[p].mine[f] # user[f]}]]
  /\ UNCHANGED <<user, kyc, chainVars, assetVars, calm>>

Written(c) == [f \in Columns |-> IF f \in c.columns THEN c.mine[f] ELSE user[f]]

\* The row is locked while handleKycAction's transaction has written it.
RowFree == \A p \in Procs : call[p].pc \in {"HELD", "SENT"} => call[p].columns = {}

\* Mistake: walletAddress is not unique.
SharedWallets(w) == w \in Wallets

\* The unique index on walletAddress, of the text as it is stored.
Unique(w) == w \notin Taken

\* ... and updates those columns, in the transaction that decides the KYC if
\* the call is approveKyc or rejectKyc.
SaveWrite(p) ==
  /\ call[p].pc = "WRITE"
  /\ call[p].op # "HANDLE"
  /\ RowFree
  /\ Unique(Written(call[p]).wallet)
  /\ user' = Written(call[p])
  /\ kyc' = IF call[p].op = "DECIDE" THEN call[p].decision ELSE kyc
  /\ End(p)
  /\ events' = IF p = Indexer THEN Tail(events) ELSE events
  /\ UNCHANGED <<registry, registered, assetVars, calm>>

\* The transaction fails, or the indexer's error is swallowed with its log.
SaveFails(p) ==
  /\ call[p].pc = "WRITE"
  /\ End(p)
  /\ events' = IF p = Indexer THEN Tail(events) ELSE events
  /\ calm' = (calm /\ p # Indexer)
  /\ UNCHANGED <<user, kyc, registry, registered, assetVars>>

-----------------------------------------------------------------------------
(* The chain and Privy *)

RegisterIdentity(w, status) ==
  /\ Len(events) < MaxLag
  /\ registry' = [registry EXCEPT ![w].verified = status]
  /\ events' = Append(events, [wallet |-> w, verified |-> status])
  /\ registered' = IF status THEN registered \cup {w} ELSE registered

\* A transaction that p sends is mined and p goes on; or is mined and the reply
\* is lost; or is not mined.
Sends(p, effect, next, failed) ==
  \/ effect /\ Step(p, next)
  \/ effect /\ failed
  \/ UNCHANGED chainVars /\ failed

IsClearToTrade(w) == registry[w].verified /\ ~registry[w].frozen

\* Privy makes a wallet nobody has seen.
Fresh == Wallets \ ({Home} \cup Named \cup ToSet(container))

-----------------------------------------------------------------------------
(* KYC and freezes *)

Entity(op, pc, row) ==
  [op |-> op, pc |-> pc, mine |-> row, columns |-> {}, decision |-> None]

\* approveKyc and rejectKyc read the user and register its wallet, if any.
Decide(p, status) ==
  /\ Begin(p, [Entity("DECIDE", IF user.wallet = None THEN "SELECT" ELSE "REGISTER",
                      [user EXCEPT !.verified = (status = "APPROVED")])
               EXCEPT !.decision = status])
  /\ UNCHANGED <<user, kyc, chainVars, assetVars>>

DecideRegister(p) ==
  /\ call[p].pc = "REGISTER"
  /\ Sends(p, RegisterIdentity(NormalizeAddress(call[p].mine.wallet), call[p].mine.verified),
           "SELECT", End(p))
  /\ UNCHANGED <<user, kyc, assetVars, calm>>

\* toggleAccountFreeze: the registry's freeze event changes nothing in the
\* database, whose rows have no isFrozen.
Freeze(p) ==
  /\ Begin(p, Entity("FREEZE", IF user.wallet = None THEN "SELECT" ELSE "TOGGLE",
                     [user EXCEPT !.active = ~@]))
  /\ UNCHANGED <<user, kyc, chainVars, assetVars>>

ToggleFreeze(w, frozen) ==
  /\ registry' = [registry EXCEPT ![w].frozen = frozen]
  /\ UNCHANGED <<events, registered>>

FreezeToggle(p) ==
  /\ call[p].pc = "TOGGLE"
  /\ Sends(p, ToggleFreeze(NormalizeAddress(call[p].mine.wallet), ~call[p].mine.active), "SELECT", End(p))
  /\ UNCHANGED <<user, kyc, assetVars, calm>>

\* updatePartnerStatus: a partner that is approved is registered, whatever its
\* KYC; the users row is left to the indexer.
UpdatePartnerStatus(p) ==
  /\ user.wallet # None
  /\ Begin(p, Entity("PARTNER", "PARTNER", user))
  /\ UNCHANGED <<user, kyc, chainVars, assetVars>>

PartnerRegister(p) ==
  /\ call[p].pc = "PARTNER"
  /\ RegisterIdentity(NormalizeAddress(call[p].mine.wallet), TRUE) \/ UNCHANGED chainVars
  /\ End(p)
  /\ UNCHANGED <<user, kyc, assetVars, calm>>

\* handleKycAction saves the decision on a connection of its own ...
Handle(p, status) ==
  /\ Begin(p, [Entity("HANDLE", "KYC", [user EXCEPT !.verified = (status = "APPROVED")])
               EXCEPT !.decision = status])
  /\ UNCHANGED <<user, kyc, chainVars, assetVars>>

HandleKyc(p) ==
  /\ call[p].pc = "KYC"
  /\ kyc' = call[p].decision
  /\ Step(p, "SELECT")
  /\ UNCHANGED <<user, chainVars, assetVars, calm>>

\* ... writes the user in its transaction, and registers the wallet inside it.
HandleWrite(p) ==
  /\ call[p].pc = "WRITE"
  /\ call[p].op = "HANDLE"
  /\ RowFree
  /\ Unique(Written(call[p]).wallet)
  /\ Step(p, IF call[p].mine.wallet = None THEN "SENT" ELSE "HELD")
  /\ UNCHANGED <<user, kyc, chainVars, assetVars, calm>>

HandleRegister(p) ==
  /\ call[p].pc = "HELD"
  /\ Sends(p, RegisterIdentity(NormalizeAddress(call[p].mine.wallet), call[p].mine.verified),
           "SENT", End(p))
  /\ UNCHANGED <<user, kyc, assetVars, calm>>

HandleCommit(p) ==
  /\ call[p].pc = "SENT"
  /\ End(p)
  /\ user' \in {Written(call[p]), user}
  /\ UNCHANGED <<kyc, chainVars, assetVars, calm>>

\* reviewKyc saves the status it is given, and approve or reject saves it again.
Review(p, status) ==
  /\ Begin(p, [Entity("REVIEW", "REVIEW", user) EXCEPT !.decision = status])
  /\ UNCHANGED <<user, kyc, chainVars, assetVars>>

ReviewSave(p) ==
  /\ call[p].pc \in {"REVIEW", "AGAIN"}
  /\ kyc' = call[p].decision
  /\ IF call[p].pc = "REVIEW" THEN Step(p, "AGAIN") ELSE End(p)
  /\ UNCHANGED <<user, chainVars, assetVars, calm>>

\* submitKyc refuses an APPROVED profile on an unlocked read.
SubmitKyc(p) ==
  /\ kyc # "APPROVED"
  /\ Begin(p, Entity("SUBMIT", "SUBMIT", user))
  /\ UNCHANGED <<user, kyc, chainVars, assetVars>>

SubmitKycSave(p) ==
  /\ call[p].pc = "SUBMIT"
  /\ kyc' = "PENDING"
  /\ End(p)
  /\ UNCHANGED <<user, chainVars, assetVars, calm>>

-----------------------------------------------------------------------------
(* Wallets *)

\* syncWalletAddress replaces whatever wallet the user has, and stores the text
\* its client sent, which it compares with other accounts' as a text.
SyncWalletAddress(p, w) ==
  /\ w \in (Named \ Taken) \cup ToSet(container)
  /\ call[p] = Idle
  /\ \E privy \in {user.privy, TRUE} :
       call' = [call EXCEPT ![p] = Entity("LINK", "SELECT", [user EXCEPT !.wallet = w, !.privy = privy])]
  /\ calm' = (calm /\ user.wallet \in {None, w} /\ Alone)
  /\ UNCHANGED <<user, kyc, chainVars, assetVars>>

\* syncPrivyWallet stores a wallet as ethers.getAddress writes it, and keeps the
\* one there is, as it is written.
SyncPrivyWallet(p, w) ==
  /\ w \in Named \cup ToSet(container)
  /\ user.wallet = None \/ NormalizeAddress(user.wallet) = NormalizeAddress(w)
  /\ Begin(p, Entity("LINK", "SELECT",
                     [user EXCEPT !.wallet = IF @ = None THEN NormalizeAddress(w) ELSE @, !.privy = TRUE]))
  /\ UNCHANGED <<user, kyc, chainVars, assetVars>>

\* Passwords and device ids: columns that no property is about, in a row that
\* is saved whole all the same.
SaveProfile(p) ==
  /\ Begin(p, Entity("PROFILE", "SELECT", user))
  /\ UNCHANGED <<user, kyc, chainVars, assetVars>>

ProvisionMobileWallet(p) ==
  /\ Begin(p, Entity("LINK", "PRIVY", user))
  /\ UNCHANGED <<user, kyc, chainVars, assetVars>>

\* The user's wallet if Privy has it, else Privy's first, else a new one.
ProvisionPick(p) ==
  /\ call[p].pc = "PRIVY"
  /\ \E w \in Wallets :
       /\ IF call[p].mine.wallet \in ToSet(container) THEN w = call[p].mine.wallet
          ELSE IF container # <<>> THEN w = Head(container) ELSE w \in Fresh
       /\ container' = IF container = <<>> THEN <<w>> ELSE container
       /\ call' = [call EXCEPT ![p].pc = "SELECT", ![p].mine.wallet = w, ![p].mine.privy = TRUE]
  /\ UNCHANGED <<user, kyc, chainVars, recovery, tokenVars, calm>>

PrivyFails(p) ==
  /\ call[p].pc \in {"PRIVY", "WALLET"}
  /\ End(p)
  /\ UNCHANGED <<user, kyc, chainVars, assetVars, calm>>

-----------------------------------------------------------------------------
(* Wallet recovery *)

\* createRequest: the wallet to leave is the user's, or one it names.
CreateRequest(r, new) ==
  /\ recovery[r].status = None
  /\ new \in Named \cup {None}
  /\ \E old \in IF user.wallet # None THEN {user.wallet} ELSE Named :
       recovery' = [recovery EXCEPT ![r] = [status |-> "PENDING_DOCUMENTS", old |-> old, new |-> new]]
  /\ calm' = (calm /\ Alone)
  /\ UNCHANGED <<user, kyc, chainVars, container, tokenVars, call>>

SaveRequest(c, status) ==
  recovery' = [recovery EXCEPT ![c.request].status = status, ![c.request].new = c.new]

\* submitVerification reads the request, whatever its status, uploads ...
SubmitVerification(p, r) ==
  /\ recovery[r].status # None
  /\ Begin(p, [op |-> "DOCUMENTS", pc |-> "UPLOAD", request |-> r, new |-> recovery[r].new])
  /\ UNCHANGED <<user, kyc, chainVars, assetVars>>

\* ... and saves what it read as UNDER_REVIEW, unless the upload fails.
VerificationSave(p) ==
  /\ call[p].pc = "UPLOAD"
  /\ SaveRequest(call[p], "UNDER_REVIEW") \/ UNCHANGED recovery
  /\ End(p)
  /\ UNCHANGED <<user, kyc, chainVars, container, tokenVars, calm>>

\* approveAndExecute: one token, all of it if the amount is 0; or all tokens.
ApproveAndExecute(p, r, op, todo, amount) ==
  /\ recovery[r].status \in Open
  /\ user.privy
  /\ Begin(p, [op |-> op, pc |-> "WALLET", request |-> r, old |-> recovery[r].old,
               new |-> recovery[r].new, todo |-> todo, amount |-> amount, sent |-> FALSE,
               token |-> None, units |-> 0])
  /\ UNCHANGED <<user, kyc, chainVars, assetVars>>

GenerateEmbeddedWallet(p) ==
  /\ call[p].pc = "WALLET"
  /\ \E w \in IF call[p].new = None THEN Fresh ELSE {call[p].new} :
       /\ container' = IF call[p].new = None THEN Append(container, w) ELSE container
       /\ recovery' = [recovery EXCEPT ![call[p].request].status = "APPROVED",
                                      ![call[p].request].new = w]
       /\ call' = [call EXCEPT ![p].pc = "START", ![p].new = w]
  /\ UNCHANGED <<user, kyc, chainVars, tokenVars, calm>>

\* Mistake: a failed whitelisting is logged and forgotten.
WhitelistingSwallowed(p) ==
  /\ call[p].pc = "START"
  /\ SaveRequest(call[p], "PROCESSING_BLOCKCHAIN")
  /\ IF IsClearToTrade(NormalizeAddress(call[p].new))
     THEN Step(p, "NEXT") /\ UNCHANGED chainVars
     ELSE Sends(p, RegisterIdentity(NormalizeAddress(call[p].new), TRUE), "NEXT", Step(p, "NEXT"))
  /\ UNCHANGED <<user, kyc, container, tokenVars, calm>>

\* PROCESSING_BLOCKCHAIN is saved before the registry is asked.
EnsureWalletWhitelisted(p) ==
  /\ call[p].pc = "START"
  /\ SaveRequest(call[p], "PROCESSING_BLOCKCHAIN")
  /\ IF IsClearToTrade(NormalizeAddress(call[p].new))
     THEN Step(p, "NEXT") /\ UNCHANGED chainVars
     ELSE Sends(p, RegisterIdentity(NormalizeAddress(call[p].new), TRUE), "NEXT", Step(p, "FAILED"))
  /\ UNCHANGED <<user, kyc, container, tokenVars, calm>>

\* The balance of the next token; of all tokens, only what is there is moved.
SweepRead(p, t) ==
  /\ call[p].pc = "NEXT"
  /\ t \in call[p].todo
  /\ LET amount == IF call[p].amount = 0 THEN balance[t][NormalizeAddress(call[p].old)] ELSE call[p].amount
         next   == [call[p] EXCEPT !.todo = @ \ {t}]
     IN  call' = [call EXCEPT ![p] = IF call[p].op = "SWEEP" /\ amount = 0 THEN next
                                     ELSE [next EXCEPT !.pc = "MOVE", !.token = t, !.units = amount]]
  /\ UNCHANGED <<user, kyc, chainVars, assetVars, calm>>

\* The recovery manager reverts when the old wallet no longer has the units.
RecoverWallet(c) ==
  /\ c.units <= balance[c.token][NormalizeAddress(c.old)]
  /\ balance' = [balance EXCEPT ![c.token] = [w \in Wallets |->
       @[w] - (IF w = NormalizeAddress(c.old) THEN c.units ELSE 0)
            + (IF w = NormalizeAddress(c.new) THEN c.units ELSE 0)]]
  /\ received' = IF c.units > 0 THEN received \cup {NormalizeAddress(c.new)} ELSE received

ExecuteWalletRecovery(p) ==
  /\ call[p].pc = "MOVE"
  /\ \/ /\ RecoverWallet(call[p])
        /\ call' = [call EXCEPT ![p].pc = "NEXT", ![p].sent = TRUE]
     \/ RecoverWallet(call[p]) /\ Step(p, "FAILED")
     \/ UNCHANGED tokenVars /\ Step(p, "FAILED")
  /\ UNCHANGED <<user, kyc, chainVars, container, recovery, calm>>

\* Nothing was there to move, or a read fails.
SweepFails(p) ==
  /\ call[p].pc \in {"NEXT", "COMPLETE"}
  /\ Step(p, "FAILED")
  /\ UNCHANGED <<user, kyc, chainVars, assetVars, calm>>

SwitchWallet(p) ==
  /\ RowFree
  /\ Unique(call[p].new)
  /\ user' = [user EXCEPT !.wallet = call[p].new]

\* Mistake: the sweep stops after its first transfer.
RelinkEarly(p) ==
  /\ call[p].pc = "NEXT"
  /\ call[p].sent
  /\ SwitchWallet(p)
  /\ Step(p, "COMPLETE")
  /\ UNCHANGED <<kyc, chainVars, assetVars, calm>>

\* The user gets the new wallet ...
Relink(p) ==
  /\ call[p].pc = "NEXT"
  /\ call[p].todo = {}
  /\ call[p].sent
  /\ SwitchWallet(p)
  /\ Step(p, "COMPLETE")
  /\ UNCHANGED <<kyc, chainVars, assetVars, calm>>

\* ... and the request is COMPLETED.
RecoveryComplete(p) ==
  /\ call[p].pc = "COMPLETE"
  /\ SaveRequest(call[p], "COMPLETED")
  /\ End(p)
  /\ UNCHANGED <<user, kyc, chainVars, container, tokenVars, calm>>

\* The catch gives the user the new wallet too, if it can, and rejects.
RecoveryFailed(p) ==
  /\ call[p].pc = "FAILED"
  /\ SwitchWallet(p) \/ UNCHANGED user
  /\ Step(p, "REJECT")
  /\ UNCHANGED <<kyc, chainVars, assetVars, calm>>

RecoveryReject(p) ==
  /\ call[p].pc = "REJECT"
  /\ SaveRequest(call[p], "REJECTED")
  /\ End(p)
  /\ UNCHANGED <<user, kyc, chainVars, container, tokenVars, calm>>

-----------------------------------------------------------------------------
(* The indexer, and crashes *)

\* Mistake: only registrations are handled, not revocations.
ApprovalsHandled ==
  /\ events # <<>>
  /\ call[Indexer] = Idle
  /\ IF user.wallet # Head(events).wallet \/ user.verified \/ ~Head(events).verified
     THEN events' = Tail(events) /\ UNCHANGED <<call, calm>>
     ELSE Begin(Indexer, Entity("SYNC", "SELECT", [user EXCEPT !.verified = TRUE])) /\ UNCHANGED events
  /\ UNCHANGED <<user, kyc, registry, registered, assetVars>>

\* handleIdentityUpdated looks the user up by its wallet as the chain writes it:
\* a row that has it in another form is not found.
HandleIdentityUpdated ==
  /\ events # <<>>
  /\ call[Indexer] = Idle
  /\ IF user.wallet # Head(events).wallet \/ user.verified = Head(events).verified
     THEN events' = Tail(events) /\ UNCHANGED <<call, calm>>
     ELSE /\ Begin(Indexer, Entity("SYNC", "SELECT", [user EXCEPT !.verified = Head(events).verified]))
          /\ UNCHANGED events
  /\ UNCHANGED <<user, kyc, registry, registered, assetVars>>

\* The server dies; the indexer may resume after the block of the oldest event.
Crash ==
  /\ ~Alone
  /\ call' = [p \in Procs |-> IF p = Indexer THEN Idle ELSE IF call[p] = Idle THEN Idle ELSE Done]
  /\ \/ UNCHANGED <<events, calm>>
     \/ events # <<>> /\ events' = Tail(events) /\ calm' = FALSE
  /\ UNCHANGED <<user, kyc, registry, registered, assetVars>>

DecisionNext(p) ==
  \/ \E status \in {"APPROVED", "REJECTED"} : Decide(p, status) \/ Handle(p, status) \/ Review(p, status)
  \/ DecideRegister(p) \/ HandleKyc(p) \/ HandleWrite(p) \/ HandleRegister(p) \/ HandleCommit(p)
  \/ UpdatePartnerStatus(p) \/ PartnerRegister(p)
  \/ ReviewSave(p) \/ Freeze(p) \/ FreezeToggle(p) \/ SubmitKyc(p) \/ SubmitKycSave(p)

WalletNext(p) ==
  \/ \E w \in Wallets : SyncWalletAddress(p, w) \/ SyncPrivyWallet(p, w)
  \/ SaveProfile(p) \/ ProvisionMobileWallet(p) \/ ProvisionPick(p) \/ PrivyFails(p)

RecoveryNext(p) ==
  \/ \E r \in Recoveries :
       \/ SubmitVerification(p, r)
       \/ ApproveAndExecute(p, r, "SWEEP", Tokens, 0)
       \/ \E t \in Tokens : \E amount \in 0 .. Holding[t] : ApproveAndExecute(p, r, "ONE", {t}, amount)
  \/ PrivyFails(p) \/ VerificationSave(p) \/ GenerateEmbeddedWallet(p) \/ EnsureWalletWhitelisted(p)
  \/ \E t \in Tokens : SweepRead(p, t)
  \/ ExecuteWalletRecovery(p) \/ SweepFails(p) \/ Relink(p) \/ RecoveryComplete(p)
  \/ RecoveryFailed(p) \/ RecoveryReject(p)

Next ==
  \/ \E p \in Clerks : DecisionNext(p) \/ WalletNext(p)
  \/ \E p \in Operators : RecoveryNext(p)
  \/ \E p \in Procs : SaveSelect(p) \/ SaveWrite(p) \/ SaveFails(p)
  \/ \E r \in Recoveries, new \in Wallets \cup {None} : CreateRequest(r, new)
  \/ HandleIdentityUpdated
  \/ Crash

Spec == Init /\ [][Next]_vars

-----------------------------------------------------------------------------
(* Properties *)

\* Rows, requests and the calls' copies of them are well formed: the unique
\* index keeps other accounts' wallets out of the row, an executing recovery
\* has a wallet to move to, and no event is without a registration.
TypeInv ==
  /\ user.wallet \in (Wallets \ Taken) \cup {None}
  /\ kyc \in {"PENDING", "APPROVED", "REJECTED"}
  /\ IsInjective(container)
  /\ ToSet(container) \subseteq Wallets \ Named
  /\ \A t \in Tokens : SumFunction(balance[t]) \in {0, Holding[t]}
  /\ \A r \in Recoveries : recovery[r].status \in {"APPROVED", "PROCESSING_BLOCKCHAIN", "COMPLETED"}
                             => recovery[r].new \in Wallets
  /\ \A i \in DOMAIN events : events[i].verified => events[i].wallet \in registered

\* Tokens are only ever in a wallet that has been registered: a recovery
\* whitelists its new wallet before the first of its transfers, whatever other
\* approvals and decisions run at the same time.
HoldersWereRegistered ==
  \A t \in Tokens, w \in Wallets : balance[t][w] > 0 => w \in registered

\* As long as calls do not overlap and the user does not replace its wallet by
\* itself, failures, retries and crashes leave no token where the database does
\* not look: each is in the user's wallet or in one a request names.
HoldingsAreKnown ==
  calm => \A t \in Tokens, w \in Wallets :
            balance[t][w] > 0 =>
              \/ w = user.wallet
              \/ \E r \in Recoveries : /\ recovery[r].status # None
                                       /\ w \in {NormalizeAddress(recovery[r].old),
                                                 NormalizeAddress(recovery[r].new)}

Quiet == events = <<>> /\ Alone

\* As long as calls do not overlap and no event is lost, the row and the
\* registry agree on the user's first wallet once the events are handled (until
\* it is recovered), though a decision may fail between the chain and its commit.
RegistryAgrees ==
  calm /\ Quiet /\ user.wallet = Home
    /\ (\A r \in Recoveries : recovery[r].status \in {None, "PENDING_DOCUMENTS"})
    => user.verified = registry[Home].verified

\* Calls that do not overlap keep row, registry and tokens together.
CalmAgrees == HoldingsAreKnown /\ RegistryAgrees

\* However approvals of requests race, a recovery of all tokens is COMPLETED
\* only when the old wallet has none left (unless a recovery moved some to it).
NothingLeftBehind ==
  [][\A p \in Operators :
       LET c == call[p]
       IN  c.pc = "COMPLETE" /\ c.op = "SWEEP" /\ recovery[c.request].status # "COMPLETED"
             /\ recovery'[c.request].status = "COMPLETED"
           => \/ NormalizeAddress(c.old) \in received
              \/ \A t \in Tokens : balance[t][NormalizeAddress(c.old)] = 0]_vars

\* An event about the user's wallet finds the user.
EventsFindTheirUser ==
  [][HandleIdentityUpdated /\ NormalizeAddress(user.wallet) = Head(events).wallet
       => user.verified = Head(events).verified \/ call'[Indexer] # Idle]_vars

\* A freeze or a new password changes neither wallet nor verification.
SavesKeepOthers ==
  [][\A p \in Clerks : SaveWrite(p) /\ call[p].op \in {"FREEZE", "PROFILE"}
       => user'.wallet = user.wallet /\ user'.verified = user.verified]_vars

\* No wallet is linked to two accounts (user.service.ts:253).
WalletHasOneAccount ==
  NormalizeAddress(user.wallet) \notin {NormalizeAddress(w) : w \in Taken}

-----------------------------------------------------------------------------
(* Why they agree: what the one call of a calm moment relies on *)

Resting(p) == call[p] \in {Idle, Done}

\* No document has been seen of any request.
Settled == \A r \in Recoveries : recovery[r].status \in {None, "PENDING_DOCUMENTS"}

\* The user had its first wallet, at Privy, from the start.
FromHome == Home \in ToSet(container)

\* The events of the first wallet that the indexer has not handled.
HomeNews == {i \in DOMAIN events : events[i].wallet = Home}

\* What a call saves is the row, but for what it is there to change: a wallet to
\* link, or a decision, which the registry has heard of if it knows the wallet.
RowRead(c) ==
  /\ c.op # "LINK" => c.mine.wallet = user.wallet
  /\ c.op \notin {"DECIDE", "HANDLE", "SYNC"} => c.mine.verified = user.verified
  /\ \/ c.op = "DECIDE" /\ c.pc \in {"SELECT", "WRITE"}
     \/ c.op = "HANDLE" /\ c.pc = "SENT"
     => (c.mine.wallet = Home => c.mine.verified = registry[Home].verified)
  /\ c.pc \in {"WRITE", "HELD", "SENT"} => c.columns = {f \in Columns : c.mine[f] # user[f]}

\* Only the calls with these steps take them.
OwnPlace(c) ==
  /\ c.pc \in {"KYC", "HELD", "SENT"} => c.op = "HANDLE"
  /\ c.pc = "TOGGLE" => c.op = "FREEZE"
  /\ c.pc = "PRIVY" => c.op = "LINK"

\* A user that has its first wallet, at Privy, links no other, and one that
\* neither has it nor had it does not get it.
LinkRead(c) ==
  /\ c.pc = "PRIVY" => c.mine.wallet = user.wallet
  /\ user.wallet = Home /\ FromHome => c.mine.wallet = Home
  /\ user.wallet # Home /\ ~FromHome => c.mine.wallet # Home

\* The indexer works on the oldest event.
EventRead(c) ==
  /\ events # <<>>
  /\ Head(events).wallet = user.wallet
  /\ c.mine.verified = Head(events).verified

\* A recovery saves the wallet the request has.
RequestRead(c) ==
  /\ recovery[c.request].new = c.new
  /\ c.pc \notin {"UPLOAD", "WALLET"} => recovery[c.request].status \notin {None, "PENDING_DOCUMENTS"}

Truthful(p, c) ==
  /\ c.op = "SYNC" <=> p = Indexer
  /\ IF c.op \in {"DOCUMENTS", "ONE", "SWEEP"} THEN RequestRead(c) ELSE RowRead(c) /\ OwnPlace(c)
  /\ c.op = "LINK" => LinkRead(c)
  /\ c.op = "SYNC" => EventRead(c)

\* The newest event of the first wallet says what the registry does.
NewsIsTrue ==
  \A i \in HomeNews : (\A j \in HomeNews : j <= i) => events[i].verified = registry[Home].verified

\* Only a user that had its first wallet has tokens.
TokensFromHome == \A t \in Tokens, w \in Wallets : balance[t][w] > 0 => FromHome

\* One call runs at most, and finds everything as it read it.
OneTruthfulCall ==
  /\ \A p, q \in Procs : p # q => Resting(p) \/ Resting(q)
  /\ \A p \in Procs : Resting(p) \/ Truthful(p, call[p])

\* Tokens are in the first wallet or in one that a request moved them to, and
\* the first of the requests names the first wallet.
HoldingsAsked ==
  /\ \A t \in Tokens, w \in Wallets :
       balance[t][w] > 0 =>
         w = Home \/ \E r \in Recoveries :
                      recovery[r].status # None /\ NormalizeAddress(recovery[r].new) = w
  /\ FromHome /\ (\E r \in Recoveries : recovery[r].status # None) =>
       \E r \in Recoveries : recovery[r].status # None /\ recovery[r].old = Home

\* Until a request is taken up, the user keeps its first wallet, if it had it;
\* the row agrees with the registry unless an event of it is still to come.
HomeKept ==
  Settled =>
    /\ user.wallet = Home <=> FromHome
    /\ user.wallet = Home /\ HomeNews = {} => user.verified = registry[Home].verified

CalmInv ==
  /\ NewsIsTrue
  /\ TokensFromHome
  /\ calm => OneTruthfulCall /\ HoldingsAsked /\ HomeKept
=============================================================================
