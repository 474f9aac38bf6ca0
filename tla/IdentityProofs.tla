---------------------------- MODULE IdentityProofs ----------------------------
(* Theorems about Identity, for any finite set of wallets and any tokens,      *)
(* requests and calls: rows, registry, calls and tokens keep their shape, no   *)
(* unit is made or lost, tokens are only ever in wallets that have been        *)
(* registered, a completed recovery leaves none of them behind, and calls that *)
(* do not overlap keep row, registry and tokens together.                      *)
EXTENDS Identity, SumTheorems, TLAPS

USE IdentityAssumption DEF tokenVars

MaybeWallet == Wallets \cup {None}

\* What goes to the chain is a wallet there, and the first wallet has one name.
LEMMA Addresses ==
  /\ \A w \in MaybeWallet : NormalizeAddress(w) \in MaybeWallet
  /\ \A w \in Wallets : NormalizeAddress(w) \in Wallets
  /\ \A w \in MaybeWallet : NormalizeAddress(w) = Home <=> w = Home
<1>1. None \notin Wallets /\ Home \in Wallets \ Named
  BY DEF None
<1> QED BY <1>1, AddressAssumption DEF NormalizeAddress, MaybeWallet

Row == [wallet : MaybeWallet, privy : BOOLEAN, verified : BOOLEAN, active : BOOLEAN]
Event == [wallet : MaybeWallet, verified : BOOLEAN]
Statuses == {"PENDING_DOCUMENTS", "UNDER_REVIEW", "APPROVED", "PROCESSING_BLOCKCHAIN", "COMPLETED", "REJECTED"}
Request == [status : Statuses, old : Wallets, new : MaybeWallet]

\* The calls, by the shape of what they keep.
EntityCall ==
  [op : {"DECIDE", "HANDLE", "REVIEW", "FREEZE", "SUBMIT", "PARTNER", "PROFILE", "LINK", "SYNC"},
   pc : {"SELECT", "WRITE", "REGISTER", "TOGGLE", "KYC", "HELD", "SENT", "REVIEW", "AGAIN", "SUBMIT", "PARTNER", "PRIVY"},
   mine : Row, columns : SUBSET Columns, decision : {None, "APPROVED", "REJECTED"}]
DocumentCall == [op : {"DOCUMENTS"}, pc : {"UPLOAD"}, request : Recoveries, new : MaybeWallet]
RecoveryCall ==
  [op : {"ONE", "SWEEP"}, request : Recoveries, old : Wallets, new : MaybeWallet, todo : SUBSET Tokens,
   amount : Nat, sent : BOOLEAN, token : Tokens \cup {None}, units : Nat,
   pc : {"WALLET", "START", "NEXT", "MOVE", "COMPLETE", "FAILED", "REJECT"}]

\* The requests that have been made.
Filed == {r \in Recoveries : recovery[r].status # None}

\* A recovery chooses a wallet first, and moves tokens to a registered one.
Cleared(c, known) ==
  c \in RecoveryCall =>
    /\ c.pc # "WALLET" => c.new \in Wallets
    /\ c.pc \in {"NEXT", "MOVE"} => NormalizeAddress(c.new) \in known
    /\ c.pc = "MOVE" => c.token \in Tokens

CallOk(c, known, filed) ==
  /\ c \in EntityCall \cup DocumentCall \cup RecoveryCall \cup {Idle, Done}
  /\ Cleared(c, known)
  /\ c \in DocumentCall \cup RecoveryCall => c.request \in filed

\* No wallet and no request is forgotten.
Grows == registered \subseteq registered' /\ Filed \subseteq Filed'

RowOk == user \in Row
RequestsOk ==
  /\ recovery = [r \in Recoveries |-> recovery[r]]
  /\ \A r \in Filed : recovery[r] \in Request
CallsOk ==
  /\ call = [p \in Procs |-> call[p]]
  /\ \A p \in Procs : CallOk(call[p], registered, Filed)
ChainOk ==
  /\ registry \in [Wallets -> [verified : BOOLEAN, frozen : BOOLEAN]]
  /\ events \in Seq(Event)
  /\ \A w \in Wallets : registry[w].verified => w \in registered
TokensOk ==
  /\ balance \in [Tokens -> [Wallets -> Nat]]
  /\ HoldersWereRegistered

IInv == RowOk /\ RequestsOk /\ CallsOk /\ ChainOk /\ TokensOk

\* What the place of a call says of its shape.
LEMMA Shapes ==
  ASSUME NEW known, NEW filed, NEW c, CallOk(c, known, filed)
  PROVE  /\ c.pc \in {"SELECT", "WRITE", "REGISTER", "TOGGLE", "KYC", "HELD", "SENT", "REVIEW",
                      "AGAIN", "SUBMIT", "PARTNER", "PRIVY"} => c \in EntityCall
         /\ c.pc = "UPLOAD" => c \in DocumentCall
         /\ c.pc \in {"WALLET", "START", "NEXT", "MOVE", "COMPLETE", "FAILED", "REJECT"} => c \in RecoveryCall
  BY DEF CallOk, EntityCall, DocumentCall, RecoveryCall, Idle, Done

LEMMA Apart ==
  /\ \A c \in EntityCall : c \notin DocumentCall \cup RecoveryCall
  /\ \A c \in RecoveryCall : c \notin DocumentCall
  /\ Idle \notin DocumentCall \cup RecoveryCall /\ Done \notin DocumentCall \cup RecoveryCall
<1>1. \A c \in EntityCall : c \notin DocumentCall \cup RecoveryCall
  BY DEF EntityCall, DocumentCall, RecoveryCall
<1>2. \A c \in RecoveryCall : c \notin DocumentCall
  BY DEF DocumentCall, RecoveryCall
<1>3. Idle.pc \notin {"UPLOAD", "WALLET", "START", "NEXT", "MOVE", "COMPLETE", "FAILED", "REJECT"}
      /\ Done.pc \notin {"UPLOAD", "WALLET", "START", "NEXT", "MOVE", "COMPLETE", "FAILED", "REJECT"}
  BY DEF Idle, Done
<1>4. \A c \in DocumentCall \cup RecoveryCall :
        c.pc \in {"UPLOAD", "WALLET", "START", "NEXT", "MOVE", "COMPLETE", "FAILED", "REJECT"}
  BY DEF DocumentCall, RecoveryCall
<1> QED BY <1>1, <1>2, <1>3, <1>4

LEMMA InvInit == Init => IInv
<1> SUFFICES ASSUME Init PROVE IInv
  OBVIOUS
<1>1. RowOk
  <2>1. [wallet |-> Home, privy |-> TRUE, verified |-> TRUE, active |-> TRUE] \in Row
    BY DEF Row, MaybeWallet, IdentityAssumption
  <2>2. [wallet |-> None, privy |-> FALSE, verified |-> FALSE, active |-> TRUE] \in Row
    BY DEF Row, MaybeWallet
  <2> QED BY <2>1, <2>2 DEF Init, RowOk
<1>2. RequestsOk
  BY DEF Init, RequestsOk, Filed
<1>3. CallsOk
  <2>1. CallOk(Idle, registered, Filed)
    BY Apart DEF CallOk, Cleared
  <2> QED BY <2>1 DEF Init, CallsOk
<1>4. ChainOk
  <2>1. events \in Seq(Event)
    BY DEF Init
  <2>2. registry \in [Wallets -> [verified : BOOLEAN, frozen : BOOLEAN]]
    BY DEF Init
  <2>3. \A w \in Wallets : registry[w].verified => w \in registered
    BY DEF Init
  <2> QED BY <2>1, <2>2, <2>3 DEF ChainOk
<1>5. TokensOk
  BY DEF Init, TokensOk, HoldersWereRegistered
<1> QED BY <1>1, <1>2, <1>3, <1>4, <1>5 DEF IInv

\* One call changes.
LEMMA OneCall ==
  ASSUME CallsOk, NEW p \in Procs, NEW c, CallOk(c, registered', Filed'),
         call' = [call EXCEPT ![p] = c], Grows
  PROVE  CallsOk'
  BY DEF CallsOk, CallOk, Cleared, Grows

LEMMA SameCalls ==
  ASSUME CallsOk, call' = call, Grows
  PROVE  CallsOk'
  BY DEF CallsOk, CallOk, Cleared, Grows

LEMMA EndCall ==
  ASSUME CallsOk, NEW p \in Procs, End(p), Grows
  PROVE  CallsOk'
<1>1. CallOk(Idle, registered', Filed') /\ CallOk(Done, registered', Filed')
  BY Apart DEF CallOk, Cleared
<1> QED BY <1>1, OneCall DEF End

\* An entity or a document call goes on.
LEMMA EntityStep ==
  ASSUME CallsOk, NEW p \in Procs, call[p] \in EntityCall, NEW pc,
         pc \in {"SELECT", "WRITE", "KYC", "HELD", "SENT", "REVIEW", "AGAIN"}, Step(p, pc),
         Grows
  PROVE  CallsOk'
<1> DEFINE c == [call[p] EXCEPT !.pc = pc]
<1>1. c \in EntityCall
  BY DEF EntityCall
<1>2. CallOk(c, registered', Filed')
  BY <1>1, Apart DEF CallsOk, CallOk, Cleared, Grows
<1>3. call' = [call EXCEPT ![p] = c]
  BY DEF Step
<1> QED BY <1>2, <1>3, OneCall

\* A recovery goes on, to where it needs no registered wallet or has one.
LEMMA RecoveryStep ==
  ASSUME CallsOk, NEW p \in Procs, call[p] \in RecoveryCall, NEW pc,
         pc \in {"NEXT", "COMPLETE", "FAILED", "REJECT"}, Step(p, pc), call[p].pc # "WALLET",
         Grows, pc = "NEXT" => NormalizeAddress(call[p].new) \in registered'
  PROVE  CallsOk'
<1> DEFINE c == [call[p] EXCEPT !.pc = pc]
<1>1. c \in RecoveryCall /\ c.pc = pc /\ c.new = call[p].new /\ c.request = call[p].request
  BY DEF RecoveryCall
<1>2. CallOk(c, registered', Filed')
  BY <1>1, Apart DEF CallsOk, CallOk, Cleared, Grows
<1>3. call' = [call EXCEPT ![p] = c]
  BY DEF Step
<1> QED BY <1>2, <1>3, OneCall

\* A new call about the user starts.
LEMMA EntityStarts ==
  ASSUME CallsOk, NEW p \in Procs, NEW c \in EntityCall, Begin(p, c), Grows
  PROVE  CallsOk'
<1>1. CallOk(c, registered', Filed')
  BY Apart DEF CallOk, Cleared
<1> QED BY <1>1, OneCall DEF Begin

LEMMA Registration ==
  ASSUME ChainOk, NEW w \in MaybeWallet, NEW status \in BOOLEAN, RegisterIdentity(w, status)
  PROVE  ChainOk' /\ registered \subseteq registered' /\ (status => w \in registered')
<1>1. [wallet |-> w, verified |-> status] \in Event
  BY DEF Event
<1>2. events' \in Seq(Event)
  BY <1>1 DEF RegisterIdentity, ChainOk
<1>3. registry' \in [Wallets -> [verified : BOOLEAN, frozen : BOOLEAN]]
  BY DEF RegisterIdentity, ChainOk
<1>4. \A v \in Wallets : registry'[v].verified => v \in registered'
  BY DEF RegisterIdentity, ChainOk
<1> QED BY <1>2, <1>3, <1>4 DEF RegisterIdentity, ChainOk

LEMMA Freezing ==
  ASSUME ChainOk, NEW w, NEW frozen \in BOOLEAN, ToggleFreeze(w, frozen)
  PROVE  ChainOk' /\ registered' = registered
  BY DEF ToggleFreeze, ChainOk

LEMMA SameChain ==
  ASSUME ChainOk, UNCHANGED chainVars
  PROVE  ChainOk' /\ registered' = registered
  BY DEF chainVars, ChainOk

LEMMA SameTokens ==
  ASSUME TokensOk, balance' = balance, registered \subseteq registered'
  PROVE  TokensOk'
  BY DEF TokensOk, HoldersWereRegistered

LEMMA Transfer ==
  ASSUME TokensOk, NEW c \in RecoveryCall, c.token \in Tokens, c.new \in Wallets,
         NormalizeAddress(c.new) \in registered, RecoverWallet(c), registered' = registered
  PROVE  TokensOk'
<1>1. PICK t \in Tokens, old \in Wallets, new \in registered \cap Wallets, u \in Nat :
        t = c.token /\ old = NormalizeAddress(c.old) /\ new = NormalizeAddress(c.new) /\ u = c.units
  BY Addresses DEF RecoveryCall
<1>2. balance[t] \in [Wallets -> Nat] /\ u <= balance[t][old]
  BY <1>1 DEF TokensOk, RecoverWallet
<1>3. /\ \A w \in Wallets : balance'[t][w] = balance[t][w] - (IF w = old THEN u ELSE 0)
                                                          + (IF w = new THEN u ELSE 0)
      /\ balance'[t] \in [Wallets -> Nat]
  BY <1>1, <1>2 DEF RecoverWallet, TokensOk
<1>4. balance' \in [Tokens -> [Wallets -> Nat]] /\ \A s \in Tokens : s # t => balance'[s] = balance[s]
  BY <1>1, <1>3 DEF RecoverWallet, TokensOk
<1>5. ASSUME NEW s \in Tokens, NEW w \in Wallets, balance'[s][w] > 0
      PROVE  w \in registered
  <2>1. balance[s][w] > 0 \/ w = new
    BY <1>2, <1>3, <1>4, <1>5
  <2> QED BY <2>1 DEF TokensOk, HoldersWereRegistered
<1> QED BY <1>4, <1>5 DEF TokensOk, HoldersWereRegistered

\* A step that changes calls only.
LEMMA OnlyCalls ==
  ASSUME IInv, CallsOk', UNCHANGED <<user, recovery, balance, chainVars>>
  PROVE  IInv'
<1>1. ChainOk' /\ registered' = registered
  BY SameChain DEF IInv
<1> QED BY <1>1, SameTokens DEF IInv, RowOk, RequestsOk, Filed

\* A step that changes calls and requests only.
LEMMA OnlyRequests ==
  ASSUME IInv, CallsOk', RequestsOk', UNCHANGED <<user, balance, chainVars>>
  PROVE  IInv'
<1>1. ChainOk' /\ registered' = registered
  BY SameChain DEF IInv
<1> QED BY <1>1, SameTokens DEF IInv, RowOk

LEMMA NewEntity ==
  ASSUME NEW op \in {"DECIDE", "HANDLE", "REVIEW", "FREEZE", "SUBMIT", "PARTNER", "PROFILE", "LINK", "SYNC"},
         NEW decision \in {"APPROVED", "REJECTED"}, NEW row \in Row,
         NEW pc \in {"SELECT", "REGISTER", "TOGGLE", "KYC", "REVIEW", "SUBMIT", "PARTNER", "PRIVY"}
  PROVE  /\ Entity(op, pc, row) \in EntityCall
         /\ [Entity(op, pc, row) EXCEPT !.decision = decision] \in EntityCall
<1>1. {} \in SUBSET Columns
  OBVIOUS
<1>2. Entity(op, pc, row) \in EntityCall
  BY <1>1 DEF Entity, EntityCall
<1> QED BY <1>2 DEF EntityCall

LEMMA Rows ==
  ASSUME NEW row \in Row
  PROVE  /\ \A value \in BOOLEAN : [row EXCEPT !.verified = value] \in Row
         /\ [row EXCEPT !.active = ~@] \in Row
         /\ \A w \in MaybeWallet, privy \in BOOLEAN :
              [row EXCEPT !.wallet = w, !.privy = privy] \in Row /\ [row EXCEPT !.wallet = w] \in Row
  BY DEF Row

\* What save() writes is a row.
LEMMA WrittenRow ==
  ASSUME RowOk, NEW c \in EntityCall
  PROVE  Written(c) \in Row
<1>1. c.mine \in Row /\ user \in Row
  BY DEF EntityCall, RowOk
<1>2. Written(c) = [wallet |-> Written(c).wallet, privy |-> Written(c).privy,
                    verified |-> Written(c).verified, active |-> Written(c).active]
  BY DEF Written, Columns
<1>3. /\ Written(c).wallet \in MaybeWallet /\ Written(c).privy \in BOOLEAN
      /\ Written(c).verified \in BOOLEAN /\ Written(c).active \in BOOLEAN
  BY <1>1 DEF Written, Columns, Row
<1> QED BY <1>2, <1>3 DEF Row

\* A request is saved by a call that has read it.
LEMMA RequestSaved ==
  ASSUME RequestsOk, NEW r \in Recoveries, NEW new \in MaybeWallet, NEW status \in Statuses,
         r \in Filed,
         recovery' = [recovery EXCEPT ![r].status = status, ![r].new = new]
  PROVE  RequestsOk' /\ Filed' = Filed
<1>1. recovery[r] \in Request
  BY DEF RequestsOk
<1>2. /\ recovery' = [s \in Recoveries |-> recovery'[s]]
      /\ \A s \in Recoveries : s # r => recovery'[s] = recovery[s]
      /\ recovery'[r] = [recovery[r] EXCEPT !.status = status, !.new = new]
  BY DEF RequestsOk
<1>3. recovery'[r] \in Request /\ recovery'[r].status = status /\ status # None
  BY <1>1, <1>2 DEF Request, Statuses, None
<1> QED BY <1>2, <1>3 DEF RequestsOk, Filed

\* KYC decisions, freezes and linked wallets.
LEMMA DecisionStep ==
  ASSUME IInv, NEW p \in Clerks, DecisionNext(p)
  PROVE  IInv'
<1> USE DEF IInv
<1>0. p \in Procs /\ user \in Row /\ user.wallet \in MaybeWallet /\ CallOk(call[p], registered, Filed)
  BY DEF Procs, CallsOk, RowOk, Row
<1>1. ASSUME NEW status \in {"APPROVED", "REJECTED"}, Decide(p, status) \/ Handle(p, status) \/ Review(p, status)
      PROVE  IInv'
  <2>1. [user EXCEPT !.verified = (status = "APPROVED")] \in Row
    BY <1>0, Rows
  <2>2. PICK c \in EntityCall : Begin(p, c)
    BY <1>0, <1>1, <2>1, NewEntity DEF Decide, Handle, Review
  <2>3. UNCHANGED <<user, recovery, balance, chainVars>>
    BY <1>1 DEF Decide, Handle, Review, assetVars
  <2>4. Grows
    BY <2>3 DEF Grows, Filed, chainVars
  <2> QED BY <1>0, <2>2, <2>3, <2>4, EntityStarts, OnlyCalls
<1>2. CASE Freeze(p) \/ SubmitKyc(p) \/ UpdatePartnerStatus(p)
  <2>1. [user EXCEPT !.active = ~@] \in Row
    BY <1>0, Rows
  <2>2. PICK c \in EntityCall : Begin(p, c)
    BY <1>0, <1>2, <2>1, NewEntity DEF Freeze, SubmitKyc, UpdatePartnerStatus
  <2>3. UNCHANGED <<user, recovery, balance, chainVars>>
    BY <1>2 DEF Freeze, SubmitKyc, UpdatePartnerStatus, assetVars
  <2>4. Grows
    BY <2>3 DEF Grows, Filed, chainVars
  <2> QED BY <1>0, <2>2, <2>3, <2>4, EntityStarts, OnlyCalls
<1>3. CASE HandleKyc(p) \/ HandleWrite(p) \/ ReviewSave(p) \/ SubmitKycSave(p)
  <2>1. UNCHANGED <<user, recovery, balance, chainVars>>
    BY <1>3 DEF HandleKyc, HandleWrite, ReviewSave, SubmitKycSave, assetVars
  <2>2. Grows
    BY <2>1 DEF Grows, Filed, chainVars
  <2>3. call[p] \in EntityCall
    BY <1>0, <1>3, Shapes DEF HandleKyc, HandleWrite, ReviewSave, SubmitKycSave
  <2>4. CallsOk'
    BY <1>0, <1>3, <2>2, <2>3, EntityStep, EndCall DEF HandleKyc, HandleWrite, ReviewSave, SubmitKycSave
  <2> QED BY <2>1, <2>4, OnlyCalls
<1>4. CASE DecideRegister(p) \/ HandleRegister(p)
  <2>1. call[p] \in EntityCall /\ call[p].mine.wallet \in MaybeWallet /\ call[p].mine.verified \in BOOLEAN
    BY <1>0, <1>4, Shapes DEF DecideRegister, HandleRegister, EntityCall, Row
  <2>2. ChainOk' /\ registered \subseteq registered'
    BY <1>4, <2>1, Addresses, Registration, SameChain DEF DecideRegister, HandleRegister, Sends
  <2>3. UNCHANGED <<user, recovery, balance>>
    BY <1>4 DEF DecideRegister, HandleRegister, assetVars
  <2>4. Grows
    BY <2>2, <2>3 DEF Grows, Filed
  <2>5. CallsOk'
    BY <1>0, <1>4, <2>1, <2>4, EntityStep, EndCall DEF DecideRegister, HandleRegister, Sends
  <2> QED BY <2>2, <2>3, <2>5, SameTokens DEF RowOk, RequestsOk, Filed
<1>5. CASE FreezeToggle(p)
  <2>1. call[p] \in EntityCall
    BY <1>0, <1>5, Shapes DEF FreezeToggle
  <2>a. (~call[p].mine.active) \in BOOLEAN
    OBVIOUS
  <2>2. ChainOk' /\ registered' = registered
    BY <1>5, <2>a, Freezing, SameChain DEF FreezeToggle, Sends
  <2>3. UNCHANGED <<user, recovery, balance>>
    BY <1>5 DEF FreezeToggle, assetVars
  <2>4. Grows
    BY <2>2, <2>3 DEF Grows, Filed
  <2>5. CallsOk'
    BY <1>0, <1>5, <2>1, <2>4, EntityStep, EndCall DEF FreezeToggle, Sends
  <2> QED BY <2>2, <2>3, <2>5, SameTokens DEF RowOk, RequestsOk, Filed
<1>6. CASE HandleCommit(p)
  <2>1. call[p] \in EntityCall
    BY <1>0, <1>6, Shapes DEF HandleCommit
  <2>2. RowOk'
    BY <1>6, <2>1, WrittenRow DEF HandleCommit, RowOk
  <2>3. UNCHANGED <<recovery, balance, chainVars>>
    BY <1>6 DEF HandleCommit, assetVars
  <2>4. Grows
    BY <2>3 DEF Grows, Filed, chainVars
  <2>5. CallsOk'
    BY <1>0, <1>6, <2>4, EndCall DEF HandleCommit
  <2> QED BY <2>2, <2>3, <2>5, SameTokens, SameChain DEF RequestsOk, Filed
<1>7. CASE PartnerRegister(p)
  <2>1. call[p] \in EntityCall /\ call[p].mine.wallet \in MaybeWallet
    BY <1>0, <1>7, Shapes DEF PartnerRegister, EntityCall, Row
  <2>2. ChainOk' /\ registered \subseteq registered'
    BY <1>7, <2>1, Addresses, Registration, SameChain DEF PartnerRegister
  <2>3. UNCHANGED <<user, recovery, balance>>
    BY <1>7 DEF PartnerRegister, assetVars
  <2>4. Grows
    BY <2>2, <2>3 DEF Grows, Filed
  <2>5. CallsOk'
    BY <1>0, <1>7, <2>4, EndCall DEF PartnerRegister
  <2> QED BY <2>2, <2>3, <2>5, SameTokens DEF RowOk, RequestsOk, Filed
<1> QED BY <1>1, <1>2, <1>3, <1>4, <1>5, <1>6, <1>7 DEF DecisionNext

\* What the three ways to save a row do.
LEMMA SaveStep ==
  ASSUME IInv, NEW p \in Procs, SaveSelect(p) \/ SaveWrite(p) \/ SaveFails(p)
  PROVE  IInv'
<1> USE DEF IInv
<1>1. CallOk(call[p], registered, Filed) /\ call[p] \in EntityCall
  BY Shapes DEF CallsOk, SaveSelect, SaveWrite, SaveFails
<1>2. recovery' = recovery /\ balance' = balance /\ registry' = registry /\ registered' = registered
  BY DEF SaveSelect, SaveWrite, SaveFails, assetVars, chainVars
<1>3. Grows
  BY <1>2 DEF Grows, Filed
<1>4. CASE SaveSelect(p)
  <2> DEFINE c == [call[p] EXCEPT !.pc = "WRITE", !.columns = {f \in Columns : call[p].mine[f] # user[f]}]
  <2>1. c \in EntityCall
    BY <1>1 DEF EntityCall
  <2>2. CallOk(c, registered', Filed')
    BY <2>1, Apart DEF CallOk, Cleared
  <2>3. call' = [call EXCEPT ![p] = c]
    BY <1>4 DEF SaveSelect
  <2>4. CallsOk'
    BY <1>3, <2>2, <2>3, OneCall
  <2> QED BY <1>4, <1>2, <2>4, OnlyCalls DEF SaveSelect
<1>5. CASE SaveWrite(p) \/ SaveFails(p)
  <2>1. CallsOk'
    BY <1>3, <1>5, EndCall DEF SaveWrite, SaveFails
  <2>2. RowOk'
    BY <1>1, <1>5, WrittenRow DEF SaveWrite, SaveFails, RowOk
  <2>3. events' \in Seq(Event)
    <3>1. CASE events' = events
      BY <3>1 DEF ChainOk
    <3>2. CASE events' = Tail(events) /\ events # <<>>
      BY <3>2 DEF ChainOk
    <3>3. CASE events' = Tail(events) /\ events = <<>>
      BY <3>3 DEF ChainOk
    <3> QED BY <1>5, <3>1, <3>2, <3>3 DEF SaveWrite, SaveFails
  <2> QED BY <1>2, <2>1, <2>2, <2>3, SameTokens DEF ChainOk, RequestsOk, Filed
<1> QED BY <1>4, <1>5

\* Wallets that are linked, or provisioned at Privy.
\* What is linked: the text that was sent, the wallet's own name, or what there is.
LEMMA LinksWhat ==
  ASSUME RowOk, NEW p, NEW w \in Wallets, SyncWalletAddress(p, w) \/ SyncPrivyWallet(p, w)
  PROVE  \E v \in MaybeWallet, privy \in BOOLEAN :
           /\ call' = [call EXCEPT ![p] = Entity("LINK", "SELECT", [user EXCEPT !.wallet = v, !.privy = privy])]
           /\ v = w \/ (user.wallet # None /\ v = user.wallet) \/ (user.wallet = None /\ v = NormalizeAddress(w))
<1>1. user.wallet \in MaybeWallet /\ user.privy \in BOOLEAN
  BY DEF RowOk, Row
<1>2. CASE SyncWalletAddress(p, w)
  BY <1>1, <1>2 DEF SyncWalletAddress, MaybeWallet
<1>3. CASE SyncPrivyWallet(p, w)
  <2>1. CASE user.wallet = None
    <3>1. NormalizeAddress(w) \in MaybeWallet
      BY Addresses DEF MaybeWallet
    <3> QED BY <1>3, <2>1, <3>1 DEF SyncPrivyWallet, Begin
  <2>2. CASE user.wallet # None
    BY <1>1, <1>3, <2>2 DEF SyncPrivyWallet, Begin
  <2> QED BY <2>1, <2>2
<1> QED BY <1>2, <1>3

LEMMA WalletStep ==
  ASSUME IInv, NEW p \in Clerks, WalletNext(p)
  PROVE  IInv'
<1> USE DEF IInv
<1>0. p \in Procs /\ user \in Row /\ user.privy \in BOOLEAN /\ CallOk(call[p], registered, Filed)
  BY DEF Procs, CallsOk, RowOk, Row
<1>1. ASSUME NEW w \in Wallets, SyncWalletAddress(p, w) \/ SyncPrivyWallet(p, w)
      PROVE  IInv'
  <2>1. PICK v \in MaybeWallet, privy \in BOOLEAN :
          call' = [call EXCEPT ![p] = Entity("LINK", "SELECT", [user EXCEPT !.wallet = v, !.privy = privy])]
    BY <1>0, <1>1, LinksWhat
  <2>a. [user EXCEPT !.wallet = v, !.privy = privy] \in Row
    BY <1>0, Rows
  <2>2. PICK c \in EntityCall : call' = [call EXCEPT ![p] = c]
    BY <1>0, <2>1, <2>a, NewEntity
  <2>3. UNCHANGED <<user, recovery, balance, chainVars>>
    BY <1>1 DEF SyncWalletAddress, SyncPrivyWallet, assetVars
  <2>4. Grows
    BY <2>3 DEF Grows, Filed, chainVars
  <2>5. CallOk(c, registered', Filed')
    BY Apart DEF CallOk, Cleared
  <2> QED BY <1>0, <2>2, <2>3, <2>4, <2>5, OneCall, OnlyCalls
<1>2. CASE SaveProfile(p) \/ ProvisionMobileWallet(p)
  <2>1. PICK c \in EntityCall : Begin(p, c)
    BY <1>0, <1>2, NewEntity DEF SaveProfile, ProvisionMobileWallet
  <2>2. UNCHANGED <<user, recovery, balance, chainVars>>
    BY <1>2 DEF SaveProfile, ProvisionMobileWallet, assetVars
  <2>3. Grows
    BY <2>2 DEF Grows, Filed, chainVars
  <2> QED BY <1>0, <2>1, <2>2, <2>3, EntityStarts, OnlyCalls
<1>3. CASE ProvisionPick(p)
  <2>1. UNCHANGED <<user, recovery, balance, chainVars>>
    BY <1>3 DEF ProvisionPick
  <2>2. Grows
    BY <2>1 DEF Grows, Filed, chainVars
  <2>3. call[p] \in EntityCall /\ call[p].mine \in Row
    BY <1>0, <1>3, Shapes DEF ProvisionPick, EntityCall
  <2>4. PICK w \in Wallets :
          call' = [call EXCEPT ![p].pc = "SELECT", ![p].mine.wallet = w, ![p].mine.privy = TRUE]
    BY <1>3 DEF ProvisionPick
  <2> DEFINE row == [call[p].mine EXCEPT !.wallet = w, !.privy = TRUE]
             c   == [call[p] EXCEPT !.pc = "SELECT", !.mine = row]
  <2>5. row \in Row
    BY <2>3, Rows DEF MaybeWallet
  <2>6. c \in EntityCall
    BY <2>3, <2>5 DEF EntityCall
  <2>7. [[[call[p] EXCEPT !.pc = "SELECT"] EXCEPT !.mine.wallet = w] EXCEPT !.mine.privy = TRUE] = c
    BY <2>3 DEF EntityCall, Row
  <2>8. call' = [call EXCEPT ![p] = c]
    BY <1>0, <2>4, <2>7 DEF CallsOk
  <2>9. CallOk(c, registered', Filed')
    BY <2>6, Apart DEF CallOk, Cleared
  <2> QED BY <1>0, <2>1, <2>2, <2>8, <2>9, OneCall, OnlyCalls
<1>4. CASE PrivyFails(p)
  <2>1. UNCHANGED <<user, recovery, balance, chainVars>>
    BY <1>4 DEF PrivyFails, assetVars
  <2>2. Grows
    BY <2>1 DEF Grows, Filed, chainVars
  <2> QED BY <1>0, <1>4, <2>1, <2>2, EndCall, OnlyCalls DEF PrivyFails
<1> QED BY <1>1, <1>2, <1>3, <1>4 DEF WalletNext

\* The recovery of one token or of all of them.
LEMMA SweepStep ==
  ASSUME IInv, NEW p \in Operators, NEW t \in Tokens, SweepRead(p, t)
  PROVE  IInv'
<1> USE DEF IInv
<1>1. p \in Procs /\ CallOk(call[p], registered, Filed) /\ call[p] \in RecoveryCall
  BY Shapes DEF Procs, CallsOk, SweepRead
<1>2. UNCHANGED <<user, recovery, balance, chainVars>>
  BY DEF SweepRead, assetVars
<1>3. Grows
  BY <1>2 DEF Grows, Filed, chainVars
<1> DEFINE next == [call[p] EXCEPT !.todo = @ \ {t}]
           amount == IF call[p].amount = 0 THEN balance[t][NormalizeAddress(call[p].old)] ELSE call[p].amount
           move == [next EXCEPT !.pc = "MOVE", !.token = t, !.units = amount]
<1>4. amount \in Nat
  <2>1. NormalizeAddress(call[p].old) \in Wallets /\ call[p].amount \in Nat
    BY <1>1, Addresses DEF RecoveryCall
  <2> QED BY <2>1 DEF TokensOk
<1>5. next \in RecoveryCall /\ next.pc = "NEXT" /\ next.new = call[p].new /\ next.request = call[p].request
  BY <1>1 DEF RecoveryCall, SweepRead
<1>6. move \in RecoveryCall /\ move.token = t /\ move.new = call[p].new /\ move.request = call[p].request
  <2> HIDE DEF amount, next
  <2> QED BY <1>4, <1>5 DEF RecoveryCall
<1>7. call[p].pc = "NEXT" /\ call[p].new \in Wallets /\ NormalizeAddress(call[p].new) \in registered
      /\ call[p].request \in Filed
  BY <1>1 DEF CallOk, Cleared, SweepRead
<1>8. CallOk(next, registered', Filed') /\ CallOk(move, registered', Filed')
  <2> HIDE DEF next, move
  <2> QED BY <1>3, <1>5, <1>6, <1>7, Apart DEF CallOk, Cleared, Grows
<1>9. call' = [call EXCEPT ![p] = next] \/ call' = [call EXCEPT ![p] = move]
  BY DEF SweepRead
<1> QED
  <2> HIDE DEF next, move
  <2> QED BY <1>1, <1>2, <1>3, <1>8, <1>9, OneCall, OnlyCalls

\* The other steps of recoveries.
LEMMA RecoveryCallStep ==
  ASSUME IInv, NEW p \in Operators, RecoveryNext(p)
  PROVE  IInv'
<1> USE DEF IInv
<1>0. p \in Procs /\ CallOk(call[p], registered, Filed)
  BY DEF Procs, CallsOk
<1>1. ASSUME NEW r \in Recoveries, SubmitVerification(p, r)
      PROVE  IInv'
  <2> DEFINE c == [op |-> "DOCUMENTS", pc |-> "UPLOAD", request |-> r, new |-> recovery[r].new]
  <2>1. r \in Filed /\ recovery[r].new \in MaybeWallet
    BY <1>1 DEF SubmitVerification, RequestsOk, Filed, Request
  <2>2. c \in DocumentCall /\ c.request = r
    BY <2>1 DEF DocumentCall
  <2>3. UNCHANGED <<user, recovery, balance, chainVars>> /\ call' = [call EXCEPT ![p] = c]
    BY <1>1 DEF SubmitVerification, Begin, assetVars
  <2>4. Grows
    BY <2>3 DEF Grows, Filed, chainVars
  <2>5. CallOk(c, registered', Filed')
    <3> HIDE DEF c
    <3> QED BY <2>1, <2>2, <2>4, Apart DEF CallOk, Cleared, Grows
  <2> HIDE DEF c
  <2> QED BY <1>0, <2>3, <2>4, <2>5, OneCall, OnlyCalls
<1>2. ASSUME NEW r \in Recoveries, NEW op \in {"ONE", "SWEEP"}, NEW todo \in SUBSET Tokens, NEW amount \in Nat,
             ApproveAndExecute(p, r, op, todo, amount)
      PROVE  IInv'
  <2> DEFINE c == [op |-> op, pc |-> "WALLET", request |-> r, old |-> recovery[r].old,
                   new |-> recovery[r].new, todo |-> todo, amount |-> amount, sent |-> FALSE,
                   token |-> None, units |-> 0]
  <2>1. r \in Filed /\ recovery[r].new \in MaybeWallet /\ recovery[r].old \in Wallets
    BY <1>2 DEF ApproveAndExecute, Open, RequestsOk, Filed, Request, None
  <2>2. c \in RecoveryCall /\ c.request = r /\ c.pc = "WALLET"
    BY <2>1 DEF RecoveryCall
  <2>3. UNCHANGED <<user, recovery, balance, chainVars>> /\ call' = [call EXCEPT ![p] = c]
    BY <1>2 DEF ApproveAndExecute, Begin, assetVars
  <2>4. Grows
    BY <2>3 DEF Grows, Filed, chainVars
  <2>5. CallOk(c, registered', Filed')
    <3> HIDE DEF c
    <3> QED BY <2>1, <2>2, <2>4, Apart DEF CallOk, Cleared, Grows
  <2> HIDE DEF c
  <2> QED BY <1>0, <2>3, <2>4, <2>5, OneCall, OnlyCalls
<1>3. CASE PrivyFails(p)
  <2>1. UNCHANGED <<user, recovery, balance, chainVars>>
    BY <1>3 DEF PrivyFails, assetVars
  <2>2. Grows
    BY <2>1 DEF Grows, Filed, chainVars
  <2> QED BY <1>0, <1>3, <2>1, <2>2, EndCall, OnlyCalls DEF PrivyFails
<1>4. CASE VerificationSave(p)
  <2>1. call[p] \in DocumentCall /\ call[p].request \in Filed
    BY <1>0, <1>4, Shapes DEF VerificationSave, CallOk
  <2>2. call[p].new \in MaybeWallet /\ call[p].request \in Recoveries
    BY <2>1 DEF DocumentCall
  <2>3. RequestsOk' /\ Filed' = Filed
    BY <1>4, <2>1, <2>2, RequestSaved DEF VerificationSave, SaveRequest, Statuses, RequestsOk, Filed
  <2>4. UNCHANGED <<user, balance, chainVars>>
    BY <1>4 DEF VerificationSave
  <2>5. Grows
    BY <2>3, <2>4 DEF Grows, chainVars
  <2> QED BY <1>0, <1>4, <2>3, <2>4, <2>5, EndCall, OnlyRequests DEF VerificationSave
<1>5. CASE RecoveryComplete(p) \/ RecoveryReject(p)
  <2>1. call[p] \in RecoveryCall /\ call[p].request \in Filed
    BY <1>0, <1>5, Shapes DEF RecoveryComplete, RecoveryReject, CallOk
  <2>2. call[p].new \in MaybeWallet /\ call[p].request \in Recoveries
    BY <2>1 DEF RecoveryCall
  <2>3. RequestsOk' /\ Filed' = Filed
    BY <1>5, <2>1, <2>2, RequestSaved DEF RecoveryComplete, RecoveryReject, SaveRequest, Statuses
  <2>4. UNCHANGED <<user, balance, chainVars>>
    BY <1>5 DEF RecoveryComplete, RecoveryReject
  <2>5. Grows
    BY <2>3, <2>4 DEF Grows, chainVars
  <2> QED BY <1>0, <1>5, <2>3, <2>4, <2>5, EndCall, OnlyRequests DEF RecoveryComplete, RecoveryReject
<1>6. CASE GenerateEmbeddedWallet(p)
  <2>1. call[p] \in RecoveryCall /\ call[p].request \in Filed /\ call[p].request \in Recoveries
    BY <1>0, <1>6, Shapes DEF GenerateEmbeddedWallet, CallOk, Filed
  <2>2. PICK w \in Wallets :
          /\ recovery' = [recovery EXCEPT ![call[p].request].status = "APPROVED", ![call[p].request].new = w]
          /\ call' = [call EXCEPT ![p].pc = "START", ![p].new = w]
    <3>1. (IF call[p].new = None THEN Fresh ELSE {call[p].new}) \subseteq Wallets
      BY <2>1 DEF RecoveryCall, Fresh, MaybeWallet
    <3> QED BY <1>6, <3>1 DEF GenerateEmbeddedWallet
  <2>3. RequestsOk' /\ Filed' = Filed
    BY <2>1, <2>2, RequestSaved DEF Statuses, MaybeWallet
  <2>4. UNCHANGED <<user, balance, chainVars>>
    BY <1>6 DEF GenerateEmbeddedWallet
  <2>5. Grows
    BY <2>3, <2>4 DEF Grows, chainVars
  <2> DEFINE c == [call[p] EXCEPT !.pc = "START", !.new = w]
  <2>6. c \in RecoveryCall /\ c.pc = "START" /\ c.new = w /\ c.request = call[p].request
    BY <2>1 DEF RecoveryCall, MaybeWallet
  <2>7. call' = [call EXCEPT ![p] = c]
    BY <1>0, <2>2 DEF CallsOk
  <2>8. CallOk(c, registered', Filed')
    <3> HIDE DEF c
    <3> QED BY <2>1, <2>5, <2>6, Apart DEF CallOk, Cleared, Grows
  <2> HIDE DEF c
  <2> QED BY <1>0, <2>3, <2>4, <2>5, <2>7, <2>8, OneCall, OnlyRequests
<1>7. CASE EnsureWalletWhitelisted(p)
  <2>1. call[p] \in RecoveryCall /\ call[p].request \in Filed
    BY <1>0, <1>7, Shapes DEF EnsureWalletWhitelisted, CallOk
  <2>2. call[p].new \in MaybeWallet /\ call[p].request \in Recoveries
    BY <2>1 DEF RecoveryCall
  <2>3. RequestsOk' /\ Filed' = Filed
    BY <1>7, <2>1, <2>2, RequestSaved DEF EnsureWalletWhitelisted, SaveRequest, Statuses
  <2>4. /\ ChainOk' /\ registered \subseteq registered'
        /\ Step(p, "FAILED") \/ (Step(p, "NEXT") /\ NormalizeAddress(call[p].new) \in registered')
    <3>1. CASE IsClearToTrade(NormalizeAddress(call[p].new))
      <4>1. NormalizeAddress(call[p].new) \in Wallets
        BY <1>0, <1>7, <2>1, Addresses DEF EnsureWalletWhitelisted, CallOk, Cleared
      <4>2. UNCHANGED chainVars /\ Step(p, "NEXT") /\ registry[NormalizeAddress(call[p].new)].verified
        BY <1>7, <3>1 DEF EnsureWalletWhitelisted, IsClearToTrade
      <4>3. NormalizeAddress(call[p].new) \in registered
        BY <4>1, <4>2 DEF ChainOk
      <4> QED BY <4>2, <4>3, SameChain
    <3>2. CASE ~IsClearToTrade(NormalizeAddress(call[p].new))
      BY <1>7, <2>2, <3>2, Addresses, Registration, SameChain DEF EnsureWalletWhitelisted, Sends
    <3> QED BY <3>1, <3>2
  <2>5. UNCHANGED <<user, balance>>
    BY <1>7 DEF EnsureWalletWhitelisted
  <2>6. Grows
    BY <2>3, <2>4 DEF Grows
  <2>7. CallsOk'
    BY <1>0, <1>7, <2>1, <2>4, <2>6, RecoveryStep DEF EnsureWalletWhitelisted
  <2> QED BY <2>3, <2>4, <2>5, <2>7, SameTokens DEF RowOk
<1>8. ASSUME NEW t \in Tokens, SweepRead(p, t)
      PROVE  IInv'
  BY <1>8, SweepStep
<1>9. CASE ExecuteWalletRecovery(p)
  <2>1. /\ call[p] \in RecoveryCall /\ call[p].token \in Tokens
        /\ call[p].new \in Wallets /\ NormalizeAddress(call[p].new) \in registered
    BY <1>0, <1>9, Shapes DEF ExecuteWalletRecovery, CallOk, Cleared
  <2>2. UNCHANGED <<user, recovery, chainVars>>
    BY <1>9 DEF ExecuteWalletRecovery
  <2>3. ChainOk' /\ registered' = registered
    BY <2>2, SameChain
  <2>4. TokensOk'
    BY <1>9, <2>1, <2>3, Transfer, SameTokens DEF ExecuteWalletRecovery
  <2>5. Grows
    BY <2>2, <2>3 DEF Grows, Filed
  <2> DEFINE c == [call[p] EXCEPT !.pc = "NEXT", !.sent = TRUE]
  <2>6. c \in RecoveryCall /\ c.pc = "NEXT" /\ c.new = call[p].new /\ c.request = call[p].request
    BY <2>1 DEF RecoveryCall
  <2>7. CallOk(c, registered', Filed')
    <3> HIDE DEF c
    <3> QED BY <1>0, <2>1, <2>3, <2>5, <2>6, Apart DEF CallOk, Cleared, Grows
  <2>8. call' = [call EXCEPT ![p] = c] \/ Step(p, "FAILED")
    BY <1>0, <1>9 DEF ExecuteWalletRecovery, CallsOk
  <2>9. CallsOk'
    <3> HIDE DEF c
    <3> QED BY <1>0, <1>9, <2>1, <2>5, <2>7, <2>8, OneCall, RecoveryStep DEF ExecuteWalletRecovery
  <2> QED BY <2>2, <2>3, <2>4, <2>9 DEF RowOk, RequestsOk, Filed
<1>10. CASE SweepFails(p)
  <2>1. call[p] \in RecoveryCall
    BY <1>0, <1>10, Shapes DEF SweepFails
  <2>2. UNCHANGED <<user, recovery, balance, chainVars>>
    BY <1>10 DEF SweepFails, assetVars
  <2>3. Grows
    BY <2>2 DEF Grows, Filed, chainVars
  <2> QED BY <1>0, <1>10, <2>1, <2>2, <2>3, RecoveryStep, OnlyCalls DEF SweepFails
<1>11. CASE Relink(p) \/ RecoveryFailed(p)
  <2>1. call[p] \in RecoveryCall /\ call[p].new \in MaybeWallet
    BY <1>0, <1>11, Shapes DEF Relink, RecoveryFailed, RecoveryCall
  <2>2. RowOk'
    BY <1>11, <2>1, Rows DEF Relink, RecoveryFailed, SwitchWallet, RowOk
  <2>3. UNCHANGED <<recovery, balance, chainVars>>
    BY <1>11 DEF Relink, RecoveryFailed, assetVars
  <2>4. Grows
    BY <2>3 DEF Grows, Filed, chainVars
  <2>5. CallsOk'
    BY <1>0, <1>11, <2>1, <2>4, RecoveryStep DEF Relink, RecoveryFailed
  <2> QED BY <2>2, <2>3, <2>5, SameTokens, SameChain DEF RequestsOk, Filed
<1>12. ASSUME NEW t \in Tokens, NEW amount \in 0 .. Holding[t] PROVE amount \in Nat
  BY <1>12 DEF IdentityAssumption
<1> QED
  BY <1>1, <1>2, <1>3, <1>4, <1>5, <1>6, <1>7, <1>8, <1>9, <1>10, <1>11, <1>12 DEF RecoveryNext

LEMMA InvStep == IInv /\ [Next]_vars => IInv'
<1> SUFFICES ASSUME IInv, [Next]_vars PROVE IInv'
  OBVIOUS
<1> USE DEF IInv
<1>1. ASSUME NEW p \in Clerks, DecisionNext(p) \/ WalletNext(p)
      PROVE  IInv'
  BY <1>1, DecisionStep, WalletStep
<1>2. ASSUME NEW p \in Operators, RecoveryNext(p)
      PROVE  IInv'
  BY <1>2, RecoveryCallStep
<1>3. ASSUME NEW p \in Procs, SaveSelect(p) \/ SaveWrite(p) \/ SaveFails(p)
      PROVE  IInv'
  BY <1>3, SaveStep
<1>4. ASSUME NEW r \in Recoveries, NEW new \in Wallets \cup {None}, CreateRequest(r, new)
      PROVE  IInv'
  <2>1. UNCHANGED <<user, balance, call, chainVars>>
    BY <1>4 DEF CreateRequest
  <2>2. PICK old \in Wallets :
          recovery' = [recovery EXCEPT ![r] = [status |-> "PENDING_DOCUMENTS", old |-> old, new |-> new]]
    BY <1>4 DEF CreateRequest, IdentityAssumption, RowOk, Row, MaybeWallet
  <2>3. [status |-> "PENDING_DOCUMENTS", old |-> old, new |-> new] \in Request
    BY DEF Request, Statuses, MaybeWallet
  <2>4. RequestsOk' /\ Filed \subseteq Filed'
    BY <2>2, <2>3 DEF RequestsOk, Filed, None
  <2>5. Grows
    BY <2>1, <2>4 DEF Grows, chainVars
  <2> QED BY <2>1, <2>4, <2>5, SameCalls, OnlyRequests
<1>5. CASE HandleIdentityUpdated
  <2>1. Indexer \in Procs /\ user \in Row /\ UNCHANGED <<user, recovery, balance, registry, registered>>
    BY <1>5 DEF HandleIdentityUpdated, Procs, assetVars, RowOk
  <2>2. Grows
    BY <2>1 DEF Grows, Filed
  <2>3. events' \in Seq(Event)
    <3>1. events' = events \/ (events # <<>> /\ events' = Tail(events))
      BY <1>5 DEF HandleIdentityUpdated
    <3> QED BY <3>1 DEF ChainOk
  <2>4. Head(events).verified \in BOOLEAN
    <3>1. Head(events) \in Event
      BY <1>5 DEF HandleIdentityUpdated, ChainOk
    <3> QED BY <3>1 DEF Event
  <2>5. [user EXCEPT !.verified = Head(events).verified] \in Row
    BY <2>1, <2>4, Rows
  <2>6. Entity("SYNC", "SELECT", [user EXCEPT !.verified = Head(events).verified]) \in EntityCall
    BY <2>5, NewEntity
  <2>7. CallsOk'
    BY <1>5, <2>1, <2>2, <2>6, EntityStarts, SameCalls DEF HandleIdentityUpdated
  <2> QED BY <2>1, <2>3, <2>7, SameTokens DEF RowOk, RequestsOk, Filed, ChainOk
<1>6. CASE Crash
  <2>1. UNCHANGED <<user, recovery, balance, registry, registered>>
    BY <1>6 DEF Crash, assetVars
  <2>2. events' \in Seq(Event)
    <3>1. events' = events \/ (events # <<>> /\ events' = Tail(events))
      BY <1>6 DEF Crash
    <3> QED BY <3>1 DEF ChainOk
  <2>3. \A known, filed : CallOk(Idle, known, filed) /\ CallOk(Done, known, filed)
    BY Apart DEF CallOk, Cleared
  <2>4. CallsOk'
    BY <1>6, <2>3 DEF Crash, CallsOk
  <2> QED BY <2>1, <2>2, <2>4, SameTokens DEF RowOk, RequestsOk, Filed, ChainOk
<1>7. CASE UNCHANGED vars
  <2>1. UNCHANGED <<user, recovery, balance, call, chainVars>>
    BY <1>7 DEF vars, chainVars
  <2>2. Grows
    BY <2>1 DEF Grows, Filed, chainVars
  <2> QED BY <2>1, <2>2, SameCalls, OnlyCalls
<1> QED BY <1>1, <1>2, <1>3, <1>4, <1>5, <1>6, <1>7 DEF Next

\* Tokens are only ever in wallets that have been registered, whatever approvals,
\* decisions, saves and crashes run together (approveAndExecute,
\* ensureWalletWhitelisted).
THEOREM TokensStayRegistered == Spec => []HoldersWereRegistered
<1>1. IInv => HoldersWereRegistered
  BY DEF IInv, TokensOk
<1> QED BY <1>1, InvInit, InvStep, PTL DEF Spec

-----------------------------------------------------------------------------
(* Types *)

\* Who writes which variable.
LEMMA UserWriters ==
  ASSUME [Next]_vars
  PROVE  \/ user' = user
         \/ \E p \in Procs : SaveWrite(p)
         \/ \E p \in Clerks : HandleCommit(p)
         \/ \E p \in Operators : Relink(p) \/ RecoveryFailed(p)
  BY DEF Next, vars, DecisionNext, WalletNext, RecoveryNext, Decide, Handle, Review, DecideRegister,
     HandleKyc, HandleWrite, HandleRegister, UpdatePartnerStatus, PartnerRegister, ReviewSave, Freeze,
     FreezeToggle, SubmitKyc, SubmitKycSave, SyncWalletAddress, SyncPrivyWallet, SaveProfile,
     ProvisionMobileWallet, ProvisionPick, PrivyFails, SubmitVerification, ApproveAndExecute,
     VerificationSave, GenerateEmbeddedWallet, EnsureWalletWhitelisted, SweepRead,
     ExecuteWalletRecovery, SweepFails, RecoveryComplete, RecoveryReject, SaveSelect, SaveFails,
     CreateRequest, HandleIdentityUpdated, Crash

LEMMA KycWriters ==
  ASSUME [Next]_vars
  PROVE  \/ kyc' = kyc
         \/ kyc' = "PENDING"
         \/ \E p \in Procs : SaveWrite(p)
         \/ \E p \in Clerks : HandleKyc(p) \/ ReviewSave(p)
  BY DEF Next, vars, DecisionNext, WalletNext, RecoveryNext, Decide, Handle, Review, DecideRegister,
     HandleWrite, HandleRegister, HandleCommit, UpdatePartnerStatus, PartnerRegister, Freeze,
     FreezeToggle, SubmitKyc, SubmitKycSave, SyncWalletAddress, SyncPrivyWallet, SaveProfile,
     ProvisionMobileWallet, ProvisionPick, PrivyFails, SubmitVerification, ApproveAndExecute,
     VerificationSave, GenerateEmbeddedWallet, EnsureWalletWhitelisted, SweepRead,
     ExecuteWalletRecovery, SweepFails, Relink, RecoveryComplete, RecoveryFailed, RecoveryReject,
     SaveSelect, SaveFails, CreateRequest, HandleIdentityUpdated, Crash

LEMMA ContainerWriters ==
  ASSUME [Next]_vars
  PROVE  \/ container' = container
         \/ \E p \in Clerks : ProvisionPick(p)
         \/ \E p \in Operators : GenerateEmbeddedWallet(p)
  BY DEF Next, vars, assetVars, DecisionNext, WalletNext, RecoveryNext, Decide, Handle, Review,
     DecideRegister, HandleKyc, HandleWrite, HandleRegister, HandleCommit, UpdatePartnerStatus,
     PartnerRegister, ReviewSave, Freeze, FreezeToggle, SubmitKyc, SubmitKycSave, SyncWalletAddress,
     SyncPrivyWallet, SaveProfile, ProvisionMobileWallet, PrivyFails, SubmitVerification,
     ApproveAndExecute, VerificationSave, EnsureWalletWhitelisted, SweepRead, ExecuteWalletRecovery,
     SweepFails, Relink, RecoveryComplete, RecoveryFailed, RecoveryReject, SaveSelect, SaveWrite,
     SaveFails, CreateRequest, HandleIdentityUpdated, Crash

LEMMA TokenWriters ==
  ASSUME [Next]_vars
  PROVE  UNCHANGED tokenVars \/ \E p \in Operators : ExecuteWalletRecovery(p) /\ RecoverWallet(call[p])
  BY DEF Next, vars, assetVars, DecisionNext, WalletNext, RecoveryNext, Decide, Handle, Review,
     DecideRegister, HandleKyc, HandleWrite, HandleRegister, HandleCommit, UpdatePartnerStatus,
     PartnerRegister, ReviewSave, Freeze, FreezeToggle, SubmitKyc, SubmitKycSave, SyncWalletAddress,
     SyncPrivyWallet, SaveProfile, ProvisionMobileWallet, ProvisionPick, PrivyFails,
     SubmitVerification, ApproveAndExecute, VerificationSave, GenerateEmbeddedWallet,
     EnsureWalletWhitelisted, SweepRead, ExecuteWalletRecovery, SweepFails, Relink, RecoveryComplete,
     RecoveryFailed, RecoveryReject, SaveSelect, SaveWrite, SaveFails, CreateRequest,
     HandleIdentityUpdated, Crash

LEMMA RequestWriters ==
  ASSUME [Next]_vars
  PROVE  \/ recovery' = recovery
         \/ \E r \in Recoveries, new \in MaybeWallet : CreateRequest(r, new)
         \/ \E p \in Operators :
              \/ VerificationSave(p) \/ GenerateEmbeddedWallet(p) \/ EnsureWalletWhitelisted(p)
              \/ RecoveryComplete(p) \/ RecoveryReject(p)
  BY DEF Next, vars, assetVars, DecisionNext, WalletNext, RecoveryNext, Decide, Handle, Review,
     DecideRegister, HandleKyc, HandleWrite, HandleRegister, HandleCommit, UpdatePartnerStatus,
     PartnerRegister, ReviewSave, Freeze, FreezeToggle, SubmitKyc, SubmitKycSave, SyncWalletAddress,
     SyncPrivyWallet, SaveProfile, ProvisionMobileWallet, ProvisionPick, PrivyFails,
     SubmitVerification, ApproveAndExecute, SweepRead, ExecuteWalletRecovery, SweepFails, Relink,
     RecoveryFailed, SaveSelect, SaveWrite, SaveFails, HandleIdentityUpdated, Crash, MaybeWallet

\* The places of a call about the row, and of a recovery or its documents.
EntityPlaces ==
  {"SELECT", "WRITE", "REGISTER", "TOGGLE", "KYC", "HELD", "SENT", "REVIEW", "AGAIN", "SUBMIT", "PARTNER",
   "PRIVY"}
RecoveryPlaces == {"UPLOAD", "WALLET", "START", "NEXT", "MOVE", "COMPLETE", "FAILED", "REJECT", "IDLE", "DONE"}

\* A call that is to decide has a decision, and one whose transaction has
\* written a wallet has one that no other account has.
CallSays(c) ==
  c.pc \in EntityPlaces =>
    /\ c.op = "DECIDE" \/ c.pc \in {"KYC", "REVIEW", "AGAIN"} => c.decision \in {"APPROVED", "REJECTED"}
    /\ c.pc \in {"HELD", "SENT"} /\ "wallet" \in c.columns => c.mine.wallet \notin Taken

CallsSay == \A p \in Procs : CallSays(call[p])

LEMMA OneCallSays ==
  ASSUME CallsOk, CallsSay, NEW p \in Procs, NEW c, CallSays(c), call' = [call EXCEPT ![p] = c]
  PROVE  CallsSay'
  BY DEF CallsOk, CallsSay

LEMMA EndSays ==
  ASSUME CallsOk, CallsSay, NEW p \in Procs, End(p)
  PROVE  CallsSay'
<1>1. CallSays(Idle) /\ CallSays(Done)
  BY DEF CallSays, EntityPlaces, Idle, Done
<1> QED BY <1>1, OneCallSays DEF End

LEMMA NewEntitySays ==
  ASSUME NEW op, NEW pc, NEW row, NEW decision \in {"APPROVED", "REJECTED"}, pc \notin {"HELD", "SENT"}
  PROVE  /\ CallSays([Entity(op, pc, row) EXCEPT !.decision = decision])
         /\ op # "DECIDE" /\ pc \notin {"KYC", "REVIEW", "AGAIN"} => CallSays(Entity(op, pc, row))
  BY DEF Entity, CallSays

LEMMA StepSays ==
  ASSUME CallsOk, CallsSay, NEW p \in Procs, NEW pc, Step(p, pc), call[p] \in EntityCall,
         /\ pc \in {"KYC", "REVIEW", "AGAIN"} => call[p].pc \in {"KYC", "REVIEW", "AGAIN"}
         /\ pc \in {"HELD", "SENT"} /\ "wallet" \in call[p].columns => call[p].mine.wallet \notin Taken
  PROVE  CallsSay'
<1> DEFINE c == [call[p] EXCEPT !.pc = pc]
<1>1. /\ c.pc = pc /\ c.op = call[p].op /\ c.decision = call[p].decision
      /\ c.columns = call[p].columns /\ c.mine = call[p].mine
      /\ call[p].pc \in EntityPlaces
  BY DEF EntityCall, EntityPlaces
<1>2. CallSays(call[p])
  BY DEF CallsSay
<1>3. CallSays(c)
  <2> HIDE DEF c
  <2> QED BY <1>1, <1>2 DEF CallSays
<1> QED BY <1>3, OneCallSays DEF Step

\* A recovery is no call about the row.
LEMMA RecoverySays ==
  ASSUME IInv, CallsSay, NEW p \in Operators, RecoveryNext(p)
  PROVE  CallsSay'
<1> USE DEF IInv
<1>0. p \in Procs /\ CallOk(call[p], registered, Filed)
  BY DEF Procs, CallsOk
<1>1. ASSUME NEW c, c.pc \in RecoveryPlaces, call' = [call EXCEPT ![p] = c]
      PROVE  CallsSay'
  <2>1. CallSays(c)
    BY <1>1 DEF RecoveryPlaces, EntityPlaces, CallSays
  <2> QED BY <1>0, <1>1, <2>1, OneCallSays
<1>2. ASSUME NEW pc, pc \in RecoveryPlaces, Step(p, pc), call[p] \in RecoveryCall
      PROVE  CallsSay'
  <2>1. [call[p] EXCEPT !.pc = pc].pc \in RecoveryPlaces
    BY <1>2 DEF RecoveryCall
  <2> QED BY <1>1, <1>2, <2>1 DEF Step
<1>3. CASE PrivyFails(p) \/ VerificationSave(p) \/ RecoveryComplete(p) \/ RecoveryReject(p)
  BY <1>0, <1>3, EndSays DEF PrivyFails, VerificationSave, RecoveryComplete, RecoveryReject
<1>4. ASSUME NEW r \in Recoveries, SubmitVerification(p, r) PROVE CallsSay'
  <2> DEFINE c == [op |-> "DOCUMENTS", pc |-> "UPLOAD", request |-> r, new |-> recovery[r].new]
  <2>1. c.pc \in RecoveryPlaces
    BY DEF RecoveryPlaces
  <2>2. call' = [call EXCEPT ![p] = c]
    BY <1>4 DEF SubmitVerification, Begin
  <2> HIDE DEF c
  <2> QED BY <1>1, <2>1, <2>2
<1>5. ASSUME NEW r \in Recoveries, NEW op, NEW todo, NEW amount, ApproveAndExecute(p, r, op, todo, amount)
      PROVE  CallsSay'
  <2> DEFINE c == [op |-> op, pc |-> "WALLET", request |-> r, old |-> recovery[r].old,
                   new |-> recovery[r].new, todo |-> todo, amount |-> amount, sent |-> FALSE,
                   token |-> None, units |-> 0]
  <2>1. c.pc \in RecoveryPlaces
    BY DEF RecoveryPlaces
  <2>2. call' = [call EXCEPT ![p] = c]
    BY <1>5 DEF ApproveAndExecute, Begin
  <2> HIDE DEF c
  <2> QED BY <1>1, <2>1, <2>2
<1>6. CASE GenerateEmbeddedWallet(p)
  <2>1. call[p] \in RecoveryCall
    BY <1>0, <1>6, Shapes DEF GenerateEmbeddedWallet
  <2>2. PICK w : call' = [call EXCEPT ![p].pc = "START", ![p].new = w]
    BY <1>6 DEF GenerateEmbeddedWallet
  <2> DEFINE c == [call[p] EXCEPT !.pc = "START", !.new = w]
  <2>3. c.pc \in RecoveryPlaces
    BY <2>1 DEF RecoveryCall, RecoveryPlaces
  <2>4. call' = [call EXCEPT ![p] = c]
    BY <1>0, <2>2 DEF CallsOk
  <2> HIDE DEF c
  <2> QED BY <1>1, <2>3, <2>4
<1>7. CASE EnsureWalletWhitelisted(p) \/ SweepFails(p) \/ Relink(p) \/ RecoveryFailed(p)
  <2>1. call[p] \in RecoveryCall
    BY <1>0, <1>7, Shapes DEF EnsureWalletWhitelisted, SweepFails, Relink, RecoveryFailed
  <2>2. \E pc \in RecoveryPlaces : Step(p, pc)
    BY <1>7 DEF EnsureWalletWhitelisted, Sends, SweepFails, Relink, RecoveryFailed, RecoveryPlaces
  <2> QED BY <1>2, <2>1, <2>2
<1>8. ASSUME NEW t \in Tokens, SweepRead(p, t) PROVE CallsSay'
  <2>1. call[p] \in RecoveryCall /\ call[p].pc = "NEXT"
    BY <1>0, <1>8, Shapes DEF SweepRead
  <2> DEFINE next == [call[p] EXCEPT !.todo = @ \ {t}]
             amount == IF call[p].amount = 0 THEN balance[t][NormalizeAddress(call[p].old)] ELSE call[p].amount
             move == [next EXCEPT !.pc = "MOVE", !.token = t, !.units = amount]
  <2>2. next.pc = "NEXT" /\ move.pc = "MOVE"
    BY <2>1 DEF RecoveryCall
  <2>3. call' = [call EXCEPT ![p] = next] \/ call' = [call EXCEPT ![p] = move]
    BY <1>8 DEF SweepRead
  <2> HIDE DEF next, move
  <2> QED BY <1>1, <2>2, <2>3 DEF RecoveryPlaces
<1>9. CASE ExecuteWalletRecovery(p)
  <2>1. call[p] \in RecoveryCall
    BY <1>0, <1>9, Shapes DEF ExecuteWalletRecovery
  <2> DEFINE c == [call[p] EXCEPT !.pc = "NEXT", !.sent = TRUE]
  <2>2. c.pc \in RecoveryPlaces
    BY <2>1 DEF RecoveryCall, RecoveryPlaces
  <2>3. call' = [call EXCEPT ![p] = c] \/ Step(p, "FAILED")
    BY <1>0, <1>9 DEF ExecuteWalletRecovery, CallsOk
  <2> HIDE DEF c
  <2> QED BY <1>1, <1>2, <2>1, <2>2, <2>3 DEF RecoveryPlaces
<1> QED BY <1>3, <1>4, <1>5, <1>6, <1>7, <1>8, <1>9 DEF RecoveryNext

LEMMA ClerkSays ==
  ASSUME IInv, CallsSay, NEW p \in Clerks, DecisionNext(p) \/ WalletNext(p)
  PROVE  CallsSay'
<1> USE DEF IInv
<1>0. p \in Procs /\ CallOk(call[p], registered, Filed) /\ CallSays(call[p])
  BY DEF Procs, CallsOk, CallsSay
<1>1. ASSUME NEW status \in {"APPROVED", "REJECTED"}, Decide(p, status) \/ Handle(p, status) \/ Review(p, status)
      PROVE  CallsSay'
  <2>1. PICK c : CallSays(c) /\ Begin(p, c)
    BY <1>1, NewEntitySays DEF Decide, Handle, Review
  <2> QED BY <1>0, <2>1, OneCallSays DEF Begin
<1>2. CASE \/ Freeze(p) \/ SubmitKyc(p) \/ UpdatePartnerStatus(p) \/ SaveProfile(p)
           \/ ProvisionMobileWallet(p)
  <2>1. PICK c : CallSays(c) /\ Begin(p, c)
    <3>1. \A op \in {"FREEZE", "SUBMIT", "PARTNER", "PROFILE", "LINK"} :
             \A pc \in {"SELECT", "TOGGLE", "SUBMIT", "PARTNER", "PRIVY"} :
                \A row : CallSays(Entity(op, pc, row))
      BY NewEntitySays
    <3> QED BY <1>2, <3>1 DEF Freeze, SubmitKyc, UpdatePartnerStatus, SaveProfile, ProvisionMobileWallet
  <2> QED BY <1>0, <2>1, OneCallSays DEF Begin
<1>3. ASSUME NEW w \in Wallets, SyncWalletAddress(p, w) \/ SyncPrivyWallet(p, w)
      PROVE  CallsSay'
  <2>1. PICK c : CallSays(c) /\ call' = [call EXCEPT ![p] = c]
    <3>1. \A row : CallSays(Entity("LINK", "SELECT", row))
      BY NewEntitySays
    <3> QED BY <1>3, <3>1 DEF SyncWalletAddress, SyncPrivyWallet, Begin
  <2> QED BY <1>0, <2>1, OneCallSays
<1>4. CASE ReviewSave(p) \/ HandleKyc(p) \/ HandleWrite(p)
  <2>1. call[p] \in EntityCall
    BY <1>0, <1>4, Shapes DEF ReviewSave, HandleKyc, HandleWrite
  <2>2. CASE ReviewSave(p) \/ HandleKyc(p)
    BY <1>0, <2>1, <2>2, StepSays, EndSays DEF ReviewSave, HandleKyc
  <2>3. CASE HandleWrite(p)
    <3>1. "wallet" \in call[p].columns => call[p].mine.wallet \notin Taken
      BY <2>3 DEF HandleWrite, Unique, Written, Columns
    <3> QED BY <1>0, <2>1, <2>3, <3>1, StepSays DEF HandleWrite
  <2> QED BY <1>4, <2>2, <2>3
<1>5. CASE DecideRegister(p) \/ HandleRegister(p) \/ FreezeToggle(p)
  <2>1. call[p] \in EntityCall
    BY <1>0, <1>5, Shapes DEF DecideRegister, HandleRegister, FreezeToggle
  <2>2. CASE DecideRegister(p)
    BY <1>0, <2>1, <2>2, StepSays, EndSays DEF DecideRegister, Sends
  <2>3. CASE HandleRegister(p)
    <3>1. "wallet" \in call[p].columns => call[p].mine.wallet \notin Taken
      BY <1>0, <2>3 DEF HandleRegister, CallSays, EntityPlaces
    <3> QED BY <1>0, <2>1, <2>3, <3>1, StepSays, EndSays DEF HandleRegister, Sends
  <2>4. CASE FreezeToggle(p)
    BY <1>0, <2>1, <2>4, StepSays, EndSays DEF FreezeToggle, Sends
  <2> QED BY <1>5, <2>2, <2>3, <2>4
<1>6. CASE HandleCommit(p) \/ PartnerRegister(p) \/ SubmitKycSave(p) \/ PrivyFails(p)
  BY <1>0, <1>6, EndSays DEF HandleCommit, PartnerRegister, SubmitKycSave, PrivyFails
<1>7. CASE ProvisionPick(p)
  <2>1. call[p] \in EntityCall /\ call[p].pc = "PRIVY" /\ call[p].mine \in Row
    BY <1>0, <1>7, Shapes DEF ProvisionPick, EntityCall
  <2>2. PICK w \in Wallets :
          call' = [call EXCEPT ![p].pc = "SELECT", ![p].mine.wallet = w, ![p].mine.privy = TRUE]
    BY <1>7 DEF ProvisionPick
  <2> DEFINE row == [call[p].mine EXCEPT !.wallet = w, !.privy = TRUE]
             c   == [call[p] EXCEPT !.pc = "SELECT", !.mine = row]
  <2>3. [[[call[p] EXCEPT !.pc = "SELECT"] EXCEPT !.mine.wallet = w] EXCEPT !.mine.privy = TRUE] = c
    BY <2>1 DEF EntityCall, Row
  <2>4. call' = [call EXCEPT ![p] = c]
    BY <1>0, <2>2, <2>3 DEF CallsOk
  <2>5. c.pc = "SELECT" /\ c.op = call[p].op /\ c.decision = call[p].decision
    BY <2>1 DEF EntityCall
  <2>6. CallSays(c)
    <3> HIDE DEF c
    <3> QED BY <1>0, <2>1, <2>5 DEF CallSays, EntityPlaces
  <2> HIDE DEF c
  <2> QED BY <1>0, <2>4, <2>6, OneCallSays
<1> QED
  BY <1>1, <1>2, <1>3, <1>4, <1>5, <1>6, <1>7 DEF DecisionNext, WalletNext

LEMMA SaysStep ==
  ASSUME IInv, CallsSay, [Next]_vars
  PROVE  CallsSay'
<1> USE DEF IInv
<1>1. ASSUME NEW p \in Procs, SaveSelect(p)
      PROVE  CallsSay'
  <2>1. CallOk(call[p], registered, Filed) /\ CallSays(call[p])
    BY DEF CallsOk, CallsSay
  <2>2. call[p] \in EntityCall /\ call[p].pc = "SELECT"
    BY <1>1, <2>1, Shapes DEF SaveSelect
  <2> DEFINE c == [call[p] EXCEPT !.pc = "WRITE", !.columns = {f \in Columns : call[p].mine[f] # user[f]}]
  <2>3. call' = [call EXCEPT ![p] = c]
    BY <1>1 DEF SaveSelect
  <2>4. c.pc = "WRITE" /\ c.op = call[p].op /\ c.decision = call[p].decision
    BY <2>2 DEF EntityCall
  <2> HIDE DEF c
  <2>5. CallSays(c)
    BY <2>1, <2>2, <2>4 DEF CallSays, EntityPlaces
  <2> QED BY <2>3, <2>5, OneCallSays
<1>2. ASSUME NEW p \in Procs, SaveWrite(p) \/ SaveFails(p)
      PROVE  CallsSay'
  BY <1>2, EndSays DEF SaveWrite, SaveFails
<1>3. ASSUME NEW r \in Recoveries, NEW new \in Wallets \cup {None}, CreateRequest(r, new)
      PROVE  CallsSay'
  BY <1>3 DEF CreateRequest, CallsSay
<1>4. CASE HandleIdentityUpdated
  <2> DEFINE c == Entity("SYNC", "SELECT", [user EXCEPT !.verified = Head(events).verified])
  <2>1. UNCHANGED call \/ call' = [call EXCEPT ![Indexer] = c]
    BY <1>4 DEF HandleIdentityUpdated, Begin
  <2>2. CallSays(c) /\ Indexer \in Procs
    <3>1. \A row : CallSays(Entity("SYNC", "SELECT", row))
      BY NewEntitySays
    <3> QED BY <3>1 DEF Procs
  <2> HIDE DEF c
  <2> QED BY <2>1, <2>2, OneCallSays DEF CallsSay
<1>5. CASE Crash
  <2>1. CallSays(Idle) /\ CallSays(Done)
    BY DEF CallSays, EntityPlaces, Idle, Done
  <2> QED BY <1>5, <2>1 DEF Crash, CallsSay
<1>6. CASE UNCHANGED vars
  BY <1>6 DEF vars, CallsSay
<1> QED
  BY <1>1, <1>2, <1>3, <1>4, <1>5, <1>6, ClerkSays, RecoverySays DEF Next

LEMMA WalletType ==
  ASSUME IInv, CallsSay, user.wallet \notin Taken, [Next]_vars
  PROVE  user'.wallet \notin Taken
<1> USE DEF IInv
<1>1. ASSUME NEW p \in Procs, SaveWrite(p)
      PROVE  user'.wallet \notin Taken
  BY <1>1 DEF SaveWrite, Unique
<1>2. ASSUME NEW p \in Clerks, HandleCommit(p)
      PROVE  user'.wallet \notin Taken
  <2>1. CallSays(call[p]) /\ call[p].pc = "SENT"
    BY <1>2 DEF CallsSay, HandleCommit, Procs
  <2>2. Written(call[p]).wallet \notin Taken
    BY <2>1 DEF Written, Columns, CallSays, EntityPlaces
  <2> QED BY <1>2, <2>2 DEF HandleCommit
<1>3. ASSUME NEW p \in Operators, Relink(p) \/ RecoveryFailed(p)
      PROVE  user'.wallet \notin Taken
  BY <1>3 DEF Relink, RecoveryFailed, SwitchWallet, Unique, RowOk, Row
<1> QED BY <1>1, <1>2, <1>3, UserWriters

LEMMA KycType ==
  ASSUME IInv, CallsSay, kyc \in {"PENDING", "APPROVED", "REJECTED"}, [Next]_vars
  PROVE  kyc' \in {"PENDING", "APPROVED", "REJECTED"}
<1>1. ASSUME NEW p \in Procs, SaveWrite(p)
      PROVE  kyc' \in {"PENDING", "APPROVED", "REJECTED"}
  BY <1>1 DEF SaveWrite, CallsSay, CallSays, EntityPlaces
<1>2. ASSUME NEW p \in Clerks, HandleKyc(p) \/ ReviewSave(p)
      PROVE  kyc' \in {"PENDING", "APPROVED", "REJECTED"}
  BY <1>2 DEF HandleKyc, ReviewSave, CallsSay, CallSays, EntityPlaces, Procs
<1> QED BY <1>1, <1>2, KycWriters

\* The wallets Privy has made for the user.
ContainerOk ==
  /\ container \in Seq(Wallets)
  /\ IsInjective(container)
  /\ ToSet(container) \subseteq Wallets \ Named

LEMMA FreshAppended ==
  ASSUME ContainerOk, NEW w \in Fresh, container' = Append(container, w)
  PROVE  ContainerOk' /\ ToSet(container) \subseteq ToSet(container')
<1>1. w \in Wallets \ Named /\ w # Home /\ w \notin ToSet(container)
  BY DEF Fresh
<1>2. /\ container' \in Seq(Wallets)
      /\ Len(container') = Len(container) + 1
      /\ \A i \in 1 .. Len(container) : container'[i] = container[i]
      /\ container'[Len(container) + 1] = w
  BY <1>1 DEF ContainerOk
<1>3. \A i \in 1 .. Len(container) : container[i] # w /\ container[i] \in Wallets \ Named
  BY <1>1 DEF ContainerOk, ToSet
<1>4. DOMAIN container = 1 .. Len(container) /\ DOMAIN container' = 1 .. Len(container) + 1 /\ Len(container) \in Nat
  BY <1>2 DEF ContainerOk
<1>5. IsInjective(container')
  <2> SUFFICES ASSUME NEW i \in DOMAIN container', NEW j \in DOMAIN container',
                      container'[i] = container'[j]
               PROVE  i = j
    BY DEF IsInjective
  <2>1. \A k, l \in 1 .. Len(container) : container[k] = container[l] => k = l
    BY <1>4 DEF ContainerOk, IsInjective
  <2> QED BY <1>2, <1>3, <1>4, <2>1
<1>6. ToSet(container') \subseteq Wallets \ Named
  BY <1>1, <1>2, <1>3, <1>4 DEF ToSet
<1>7. ToSet(container) \subseteq ToSet(container')
  <2> SUFFICES ASSUME NEW i \in 1 .. Len(container) PROVE container[i] \in ToSet(container')
    BY <1>4 DEF ToSet
  <2>1. i \in DOMAIN container' /\ container'[i] = container[i]
    BY <1>2, <1>4
  <2> QED BY <2>1 DEF ToSet
<1> QED BY <1>2, <1>5, <1>6, <1>7 DEF ContainerOk

LEMMA ContainerStep ==
  ASSUME IInv, ContainerOk, [Next]_vars
  PROVE  ContainerOk' /\ ToSet(container) \subseteq ToSet(container')
<1> USE DEF IInv
<1>1. ASSUME NEW p \in Clerks, ProvisionPick(p), container' # container
      PROVE  ContainerOk' /\ ToSet(container) \subseteq ToSet(container')
  <2>1. container = <<>>
    BY <1>1 DEF ProvisionPick
  <2>2. ToSet(container) = {}
    BY <2>1 DEF ToSet
  <2>3. PICK w \in Fresh : container' = <<w>>
    BY <1>1, <2>1, <2>2 DEF ProvisionPick
  <2>4. container' = Append(container, w)
    BY <2>1, <2>3
  <2> QED BY <2>4, FreshAppended
<1>2. ASSUME NEW p \in Operators, GenerateEmbeddedWallet(p), container' # container
      PROVE  ContainerOk' /\ ToSet(container) \subseteq ToSet(container')
  <2>1. PICK w \in Fresh : container' = Append(container, w)
    BY <1>2 DEF GenerateEmbeddedWallet
  <2> QED BY <2>1, FreshAppended
<1> QED BY <1>1, <1>2, ContainerWriters DEF ContainerOk

\* The units of each token are all there, or there were none.
UnitsKept == \A t \in Tokens : SumFunction(balance[t]) \in {0, Holding[t]}

LEMMA UnitsInit == Init => UnitsKept
<1> SUFFICES ASSUME Init, NEW t \in Tokens PROVE SumFunction(balance[t]) \in {0, Holding[t]}
  BY DEF UnitsKept
<1> DEFINE f == balance[t]
<1>1. f = [w \in Wallets |-> IF w \in registered THEN Holding[t] ELSE 0] /\ Holding[t] \in Nat
  BY DEF Init
<1> HIDE DEF f
<1>2. CASE registered = {}
  <2>1. SumFunctionOnSet(f, Wallets) = 0
    BY <1>1, <1>2, SumZero
  <2> QED BY <1>1, <2>1 DEF SumFunction, f
<1>3. CASE registered = {Home}
  <2>1. SumFunctionOnSet(f, Wallets) = f[Home] + SumFunctionOnSet(f, Wallets \ {Home})
    BY <1>1, SumRemove
  <2>2. IsFiniteSet(Wallets \ {Home})
    BY FS_RemoveElement
  <2>3. SumFunctionOnSet(f, Wallets \ {Home}) = 0
    BY <1>1, <1>3, <2>2, SumZero
  <2> QED BY <1>1, <1>3, <2>1, <2>3 DEF SumFunction, f
<1> QED BY <1>2, <1>3 DEF Init

LEMMA UnitsStep ==
  ASSUME IInv, UnitsKept, [Next]_vars
  PROVE  UnitsKept'
<1> USE DEF IInv
<1>1. ASSUME NEW p \in Operators, ExecuteWalletRecovery(p), RecoverWallet(call[p])
      PROVE  UnitsKept'
  <2>1. call[p] \in RecoveryCall /\ call[p].token \in Tokens /\ call[p].new \in Wallets
    BY <1>1, Shapes DEF ExecuteWalletRecovery, CallOk, Cleared, Procs, CallsOk
  <2>2. PICK token \in Tokens, old \in Wallets, new \in Wallets, u \in Nat :
          /\ token = call[p].token /\ u = call[p].units
          /\ old = NormalizeAddress(call[p].old) /\ new = NormalizeAddress(call[p].new)
    BY <2>1, Addresses DEF RecoveryCall
  <2>3. balance[token] \in [Wallets -> Int] /\ balance'[token] \in [Wallets -> Int] /\ u \in Int
    BY InvStep DEF TokensOk
  <2>4. /\ \A t \in Tokens : t # token => balance'[t] = balance[t]
        /\ \A w \in Wallets : balance'[token][w] = balance[token][w] - (IF w = old THEN u ELSE 0)
                                                                  + (IF w = new THEN u ELSE 0)
    BY <1>1, <2>2 DEF RecoverWallet, TokensOk
  <2>6. SumFunction(balance'[token]) = SumFunction(balance[token])
    <3>1. PICK f \in [Wallets -> Int], g \in [Wallets -> Int] : f = balance[token] /\ g = balance'[token]
      BY <2>3
    <3>2. AmountMoved(f, g, Wallets, old, new, u)
      BY <2>4, <3>1 DEF AmountMoved
    <3>3. IsFiniteSet(Wallets)
      OBVIOUS
    <3>4. SumFunction(g) = SumFunction(f)
      <4>1. u \in Int
        OBVIOUS
      <4> QED BY <3>2, <3>3, <4>1, SumMoved
    <3> QED BY <3>1, <3>4
  <2> QED BY <2>4, <2>6 DEF UnitsKept
<1> QED BY <1>1, TokenWriters DEF UnitsKept

\* A recovery that executes has a wallet to move to.
TargetsKnown ==
  \A r \in Recoveries :
    recovery[r].status \in {"APPROVED", "PROCESSING_BLOCKCHAIN", "COMPLETED"} => recovery[r].new \in Wallets

LEMMA TargetsStep ==
  ASSUME IInv, TargetsKnown, [Next]_vars
  PROVE  TargetsKnown'
<1> USE DEF IInv
<1>1. ASSUME NEW r \in Recoveries, NEW new \in MaybeWallet, CreateRequest(r, new)
      PROVE  TargetsKnown'
  BY <1>1 DEF CreateRequest, TargetsKnown, RequestsOk
<1>2. ASSUME NEW p \in Operators, NEW c, NEW status, c = call[p], SaveRequest(c, status),
             status \in {"APPROVED", "PROCESSING_BLOCKCHAIN", "COMPLETED"} => c.new \in Wallets,
             c.request \in Recoveries, c.request \in Filed
      PROVE  TargetsKnown'
  <2> DEFINE q == c.request
  <2>1. recovery[q] \in Request
    BY <1>2 DEF RequestsOk
  <2>2. /\ \A s \in Recoveries : s # q => recovery'[s] = recovery[s]
        /\ recovery'[q] = [recovery[q] EXCEPT !.status = status, !.new = c.new]
    BY <1>2 DEF RequestsOk, SaveRequest
  <2>3. recovery'[q].status = status /\ recovery'[q].new = c.new
    BY <2>1, <2>2 DEF Request
  <2> HIDE DEF q
  <2> QED BY <1>2, <2>2, <2>3 DEF TargetsKnown
<1>3. ASSUME NEW p \in Operators,
             VerificationSave(p) \/ EnsureWalletWhitelisted(p) \/ RecoveryComplete(p) \/ RecoveryReject(p)
      PROVE  TargetsKnown'
  <2>1. CallOk(call[p], registered, Filed)
    BY DEF CallsOk, Procs
  <2>2. CASE VerificationSave(p)
    <3>1. call[p] \in DocumentCall /\ call[p].request \in Filed /\ call[p].request \in Recoveries
      BY <2>1, <2>2, Shapes DEF VerificationSave, CallOk, DocumentCall
    <3> QED BY <1>2, <2>2, <3>1 DEF VerificationSave, TargetsKnown
  <2>3. CASE EnsureWalletWhitelisted(p) \/ RecoveryComplete(p) \/ RecoveryReject(p)
    <3>0. call[p].pc \in {"START", "COMPLETE", "REJECT"}
      BY <2>3 DEF EnsureWalletWhitelisted, RecoveryComplete, RecoveryReject
    <3>a. call[p] \in RecoveryCall
      BY <2>1, <3>0, Shapes
    <3>1. call[p].request \in Filed /\ call[p].request \in Recoveries /\ call[p].new \in Wallets
      BY <2>1, <3>0, <3>a DEF CallOk, Cleared, Filed
    <3> QED BY <1>2, <2>3, <3>1, <3>a DEF EnsureWalletWhitelisted, RecoveryComplete, RecoveryReject
  <2> QED BY <1>3, <2>2, <2>3
<1>4. ASSUME NEW p \in Operators, GenerateEmbeddedWallet(p)
      PROVE  TargetsKnown'
  <2>1. CallOk(call[p], registered, Filed)
    BY DEF CallsOk, Procs
  <2>2. call[p] \in RecoveryCall /\ call[p].request \in Filed
    BY <1>4, <2>1, Shapes DEF GenerateEmbeddedWallet, CallOk
  <2>3. PICK q \in Filed : q = call[p].request
    BY <2>2
  <2>4. PICK w \in Wallets : recovery' = [recovery EXCEPT ![q].status = "APPROVED", ![q].new = w]
    <3>1. (IF call[p].new = None THEN Fresh ELSE {call[p].new}) \subseteq Wallets
      BY <2>2 DEF RecoveryCall, Fresh, MaybeWallet
    <3> QED BY <1>4, <2>3, <3>1 DEF GenerateEmbeddedWallet
  <2>5. recovery[q] \in Request /\ q \in Recoveries
    BY DEF RequestsOk, Filed
  <2>6. /\ \A s \in Recoveries : s # q => recovery'[s] = recovery[s]
        /\ recovery'[q] = [recovery[q] EXCEPT !.status = "APPROVED", !.new = w]
    BY <2>4, <2>5 DEF RequestsOk
  <2>7. recovery'[q].new = w
    BY <2>5, <2>6 DEF Request
  <2> QED BY <2>6, <2>7 DEF TargetsKnown
<1> QED BY <1>1, <1>3, <1>4, RequestWriters DEF TargetsKnown

\* An event that says verified is of a registration.
EventsKnown == \A i \in DOMAIN events : events[i].verified => events[i].wallet \in registered

LEMMA RegisteredEvents ==
  ASSUME ChainOk, EventsKnown, NEW w, NEW status \in BOOLEAN, RegisterIdentity(w, status)
  PROVE  EventsKnown'
<1>1. events' = Append(events, [wallet |-> w, verified |-> status])
      /\ registered \subseteq registered' /\ (status => w \in registered')
  BY DEF RegisterIdentity
<1>2. /\ DOMAIN events = 1 .. Len(events) /\ DOMAIN events' = 1 .. (Len(events) + 1) /\ Len(events) \in Nat
      /\ \A i \in 1 .. Len(events) : events'[i] = events[i]
      /\ events'[Len(events) + 1] = [wallet |-> w, verified |-> status]
  BY <1>1 DEF ChainOk
<1> SUFFICES ASSUME NEW i \in DOMAIN events', events'[i].verified
             PROVE  events'[i].wallet \in registered'
  BY DEF EventsKnown
<1>3. CASE i \in 1 .. Len(events)
  BY <1>1, <1>2, <1>3 DEF EventsKnown
<1>4. CASE i = Len(events) + 1
  BY <1>1, <1>2, <1>4
<1> QED BY <1>2, <1>3, <1>4

LEMMA HandledEvents ==
  ASSUME ChainOk, EventsKnown, events' = events \/ events' = Tail(events), registered' = registered
  PROVE  EventsKnown'
<1>1. CASE events' = events
  BY <1>1 DEF EventsKnown
<1>2. CASE events' = Tail(events)
  <2>1. /\ DOMAIN events = 1 .. Len(events) /\ DOMAIN events' = 1 .. (Len(events) - 1)
        /\ Len(events) \in Nat
        /\ \A i \in 1 .. (Len(events) - 1) : events'[i] = events[i + 1]
    BY <1>2 DEF ChainOk
  <2> QED BY <2>1 DEF EventsKnown
<1> QED BY <1>1, <1>2

LEMMA EventWriters ==
  ASSUME [Next]_vars
  PROVE  \/ UNCHANGED <<events, registered>>
         \/ \E p \in Clerks : DecideRegister(p) \/ HandleRegister(p) \/ PartnerRegister(p)
         \/ \E p \in Operators : EnsureWalletWhitelisted(p)
         \/ \E p \in Procs : SaveWrite(p) \/ SaveFails(p)
         \/ HandleIdentityUpdated \/ Crash
  BY DEF Next, vars, chainVars, DecisionNext, WalletNext, RecoveryNext, Decide, Handle, Review,
     HandleKyc, HandleWrite, HandleCommit, UpdatePartnerStatus, ReviewSave, Freeze, FreezeToggle,
     ToggleFreeze, Sends, SubmitKyc, SubmitKycSave, SyncWalletAddress, SyncPrivyWallet, SaveProfile,
     ProvisionMobileWallet, ProvisionPick, PrivyFails, SubmitVerification, ApproveAndExecute,
     VerificationSave, GenerateEmbeddedWallet, SweepRead, ExecuteWalletRecovery, SweepFails, Relink,
     RecoveryComplete, RecoveryFailed, RecoveryReject, SaveSelect, CreateRequest

LEMMA EventsStep ==
  ASSUME IInv, EventsKnown, [Next]_vars
  PROVE  EventsKnown'
<1> USE DEF IInv
<1>1. ASSUME NEW p \in Procs, DecideRegister(p) \/ HandleRegister(p) \/ PartnerRegister(p)
      PROVE  EventsKnown'
  <2>1. call[p] \in EntityCall /\ call[p].mine.verified \in BOOLEAN
    <3>1. CallOk(call[p], registered, Filed)
      BY DEF CallsOk
    <3>2. call[p].pc \in {"REGISTER", "HELD", "PARTNER"}
      BY <1>1 DEF DecideRegister, HandleRegister, PartnerRegister
    <3>3. call[p] \in EntityCall
      BY <3>1, <3>2, Shapes
    <3>4. call[p].mine \in Row
      BY <3>3 DEF EntityCall
    <3> QED BY <3>3, <3>4 DEF Row
  <2>2. \/ RegisterIdentity(NormalizeAddress(call[p].mine.wallet), call[p].mine.verified)
        \/ RegisterIdentity(NormalizeAddress(call[p].mine.wallet), TRUE)
        \/ UNCHANGED chainVars
    BY <1>1 DEF DecideRegister, HandleRegister, PartnerRegister, Sends
  <2> QED BY <2>1, <2>2, RegisteredEvents, HandledEvents DEF chainVars
<1>2. ASSUME NEW p \in Operators, EnsureWalletWhitelisted(p)
      PROVE  EventsKnown'
  <2>1. (\E w : RegisterIdentity(w, TRUE)) \/ UNCHANGED chainVars
    BY <1>2 DEF EnsureWalletWhitelisted, Sends
  <2> QED BY <2>1, RegisteredEvents, HandledEvents DEF chainVars
<1>3. ASSUME NEW p \in Procs, SaveWrite(p) \/ SaveFails(p)
      PROVE  EventsKnown'
  BY <1>3, HandledEvents DEF SaveWrite, SaveFails
<1>4. CASE HandleIdentityUpdated \/ Crash
  BY <1>4, HandledEvents DEF HandleIdentityUpdated, Crash
<1>5. CASE UNCHANGED <<events, registered>>
  BY <1>5 DEF EventsKnown
<1> QED BY <1>1, <1>2, <1>3, <1>4, <1>5, EventWriters DEF Procs

TypesInv ==
  /\ IInv
  /\ CallsSay
  /\ user.wallet \notin Taken
  /\ kyc \in {"PENDING", "APPROVED", "REJECTED"}
  /\ ContainerOk
  /\ UnitsKept
  /\ TargetsKnown
  /\ EventsKnown

LEMMA TypesInit == Init => TypesInv
<1> SUFFICES ASSUME Init PROVE TypesInv
  OBVIOUS
<1>1. CallsSay
  BY DEF Init, CallsSay, CallSays, Idle, EntityPlaces
<1>2. user.wallet \notin Taken /\ kyc \in {"PENDING", "APPROVED", "REJECTED"}
  <2>1. None \notin Taken /\ Home \notin Taken
    BY DEF None
  <2> QED BY <2>1 DEF Init
<1>3. ContainerOk
  <2>1. CASE container = <<>>
    BY <2>1 DEF ContainerOk, IsInjective, ToSet
  <2>2. CASE container = <<Home>>
    <3>1. container \in Seq(Wallets) /\ DOMAIN container = {1} /\ container[1] = Home
      BY <2>2
    <3> QED BY <3>1 DEF ContainerOk, IsInjective, ToSet
  <2> QED BY <2>1, <2>2 DEF Init
<1>4. TargetsKnown /\ EventsKnown
  BY DEF Init, TargetsKnown, EventsKnown, None
<1> QED BY <1>1, <1>2, <1>3, <1>4, InvInit, UnitsInit DEF TypesInv

LEMMA TypesStep == TypesInv /\ [Next]_vars => TypesInv'
<1> SUFFICES ASSUME TypesInv, [Next]_vars PROVE TypesInv'
  OBVIOUS
<1> USE DEF TypesInv
<1>1. IInv' /\ CallsSay'
  BY InvStep, SaysStep
<1>2. user'.wallet \notin Taken /\ kyc' \in {"PENDING", "APPROVED", "REJECTED"}
  BY WalletType, KycType
<1>3. ContainerOk' /\ UnitsKept' /\ TargetsKnown' /\ EventsKnown'
  BY ContainerStep, UnitsStep, TargetsStep, EventsStep
<1> QED BY <1>1, <1>2, <1>3

\* Rows, requests and events are well formed, and no unit is made or lost:
\* whatever other calls run, no account gets another's wallet (Unique), a
\* recovery that executes has a wallet to move to, and no event is without a
\* registration.
THEOREM IdentityTypes == Spec => []TypeInv
<1>1. TypesInv => TypeInv
  BY DEF TypesInv, TypeInv, IInv, RowOk, Row, MaybeWallet, ContainerOk, UnitsKept, TargetsKnown, EventsKnown
<1> QED BY <1>1, TypesInit, TypesStep, PTL DEF Spec

-----------------------------------------------------------------------------
(* What a recovery leaves behind *)

\* A call goes to a place of calls about the row, or ends.
EntityGoesOn(p) == \E c : c.pc \in EntityPlaces \cup {"IDLE", "DONE"} /\ call' = [call EXCEPT ![p] = c]

LEMMA ClerkPlaces ==
  ASSUME IInv, NEW p \in Clerks, DecisionNext(p) \/ WalletNext(p)
  PROVE  EntityGoesOn(p)
<1> USE DEF IInv
<1>0. p \in Procs /\ CallOk(call[p], registered, Filed)
  BY DEF Procs, CallsOk
<1>1. ASSUME NEW op, NEW pc, NEW row, pc \in EntityPlaces
      PROVE  /\ Begin(p, Entity(op, pc, row)) => EntityGoesOn(p)
             /\ \A d : Begin(p, [Entity(op, pc, row) EXCEPT !.decision = d]) => EntityGoesOn(p)
             /\ call' = [call EXCEPT ![p] = Entity(op, pc, row)] => EntityGoesOn(p)
  <2>1. Entity(op, pc, row).pc = pc /\ \A d : [Entity(op, pc, row) EXCEPT !.decision = d].pc = pc
    BY DEF Entity
  <2> QED BY <1>1, <2>1 DEF EntityGoesOn, Begin
<1>2. ASSUME NEW pc, pc \in EntityPlaces, Step(p, pc), call[p].pc \in EntityPlaces
      PROVE  EntityGoesOn(p)
  <2>1. call[p] \in EntityCall
    BY <1>0, <1>2, Shapes DEF EntityPlaces
  <2>2. [call[p] EXCEPT !.pc = pc].pc = pc
    BY <2>1 DEF EntityCall
  <2> QED BY <1>2, <2>2 DEF Step, EntityGoesOn
<1>3. ASSUME End(p) PROVE EntityGoesOn(p)
  BY <1>3 DEF End, Idle, Done, EntityGoesOn
<1>4. ASSUME NEW status \in {"APPROVED", "REJECTED"}, Decide(p, status) \/ Handle(p, status) \/ Review(p, status)
      PROVE  EntityGoesOn(p)
  <2>1. PICK pc \in {"SELECT", "REGISTER", "KYC", "REVIEW"} : \E op, row :
          Begin(p, [Entity(op, pc, row) EXCEPT !.decision = status])
    BY <1>4 DEF Decide, Handle, Review
  <2>2. pc \in EntityPlaces
    BY DEF EntityPlaces
  <2> QED BY <1>1, <2>1, <2>2
<1>5. CASE \/ Freeze(p) \/ SubmitKyc(p) \/ UpdatePartnerStatus(p) \/ SaveProfile(p)
           \/ ProvisionMobileWallet(p)
  <2>1. PICK pc \in {"SELECT", "TOGGLE", "SUBMIT", "PARTNER", "PRIVY"} : \E op, row : Begin(p, Entity(op, pc, row))
    BY <1>5 DEF Freeze, SubmitKyc, UpdatePartnerStatus, SaveProfile, ProvisionMobileWallet
  <2>2. pc \in EntityPlaces
    BY DEF EntityPlaces
  <2> QED BY <1>1, <2>1, <2>2
<1>6. ASSUME NEW w \in Wallets, SyncWalletAddress(p, w) \/ SyncPrivyWallet(p, w)
      PROVE  EntityGoesOn(p)
  <2>1. PICK row : call' = [call EXCEPT ![p] = Entity("LINK", "SELECT", row)]
    BY <1>6 DEF SyncWalletAddress, SyncPrivyWallet, Begin
  <2>2. Entity("LINK", "SELECT", row).pc \in EntityPlaces
    BY DEF Entity, EntityPlaces
  <2> QED BY <2>1, <2>2 DEF EntityGoesOn
<1>7. CASE ReviewSave(p) \/ HandleKyc(p) \/ HandleWrite(p)
  BY <1>2, <1>3, <1>7 DEF ReviewSave, HandleKyc, HandleWrite, EntityPlaces
<1>8. CASE DecideRegister(p) \/ HandleRegister(p) \/ FreezeToggle(p)
  BY <1>2, <1>3, <1>8 DEF DecideRegister, HandleRegister, FreezeToggle, Sends, EntityPlaces
<1>9. CASE HandleCommit(p) \/ PartnerRegister(p) \/ SubmitKycSave(p) \/ PrivyFails(p)
  BY <1>3, <1>9 DEF HandleCommit, PartnerRegister, SubmitKycSave, PrivyFails
<1>10. CASE ProvisionPick(p)
  <2>1. call[p] \in EntityCall /\ call[p].mine \in Row
    BY <1>0, <1>10, Shapes DEF ProvisionPick, EntityCall
  <2>2. PICK w \in Wallets :
          call' = [call EXCEPT ![p].pc = "SELECT", ![p].mine.wallet = w, ![p].mine.privy = TRUE]
    BY <1>10 DEF ProvisionPick
  <2> DEFINE row == [call[p].mine EXCEPT !.wallet = w, !.privy = TRUE]
             c   == [call[p] EXCEPT !.pc = "SELECT", !.mine = row]
  <2>3. [[[call[p] EXCEPT !.pc = "SELECT"] EXCEPT !.mine.wallet = w] EXCEPT !.mine.privy = TRUE] = c
    BY <2>1 DEF EntityCall, Row
  <2>4. call' = [call EXCEPT ![p] = c] /\ c.pc = "SELECT"
    BY <1>0, <2>1, <2>2, <2>3 DEF CallsOk, EntityCall
  <2> HIDE DEF c
  <2> QED BY <2>4 DEF EntityGoesOn, EntityPlaces
<1> QED
  BY <1>4, <1>5, <1>6, <1>7, <1>8, <1>9, <1>10 DEF DecisionNext, WalletNext

\* A recovery of all tokens has dealt with those it no longer has to do.
SweepOk(c, units, gone) ==
  c \in RecoveryCall /\ c.op = "SWEEP" =>
    /\ c.pc \in {"WALLET", "START", "NEXT", "MOVE"} => c.amount = 0
    /\ c.pc \in {"WALLET", "START"} => c.todo = Tokens
    /\ c.pc = "COMPLETE" => c.todo = {}
    /\ c.pc \in {"NEXT", "MOVE", "COMPLETE"} =>
         \/ NormalizeAddress(c.old) \in gone
         \/ /\ \A t \in Tokens \ c.todo :
                 (c.pc = "MOVE" /\ t = c.token) \/ units[t][NormalizeAddress(c.old)] = 0
            /\ c.pc = "MOVE" => units[c.token][NormalizeAddress(c.old)] <= c.units

SweepsOk == \A p \in Operators : SweepOk(call[p], balance, received)

\* A wallet only loses units, unless a recovery has moved some to it.
TokensFall ==
  /\ received \subseteq received'
  /\ \A t \in Tokens, w \in Wallets : w \in received' \/ balance'[t][w] <= balance[t][w]

LEMMA FallStep ==
  ASSUME IInv, [Next]_vars
  PROVE  TokensFall
<1> USE DEF IInv
<1>1. CASE UNCHANGED tokenVars
  BY <1>1 DEF TokensFall, TokensOk
<1>2. ASSUME NEW p \in Operators, ExecuteWalletRecovery(p), RecoverWallet(call[p])
      PROVE  TokensFall
  <2>1. call[p] \in RecoveryCall /\ call[p].token \in Tokens /\ call[p].new \in Wallets
    BY <1>2, Shapes DEF ExecuteWalletRecovery, CallOk, Cleared, Procs, CallsOk
  <2>2. PICK token \in Tokens, old \in Wallets, new \in Wallets, u \in Nat :
          /\ token = call[p].token /\ u = call[p].units
          /\ old = NormalizeAddress(call[p].old) /\ new = NormalizeAddress(call[p].new)
    BY <2>1, Addresses DEF RecoveryCall
  <2>3. /\ \A t \in Tokens : t # token => balance'[t] = balance[t]
        /\ \A w \in Wallets : balance'[token][w] = balance[token][w] - (IF w = old THEN u ELSE 0)
                                                                  + (IF w = new THEN u ELSE 0)
        /\ received' = IF u > 0 THEN received \cup {new} ELSE received
    BY <1>2, <2>2 DEF RecoverWallet, TokensOk
  <2>4. \A t \in Tokens, w \in Wallets : balance[t][w] \in Nat
    BY DEF TokensOk
  <2>5. ASSUME NEW t \in Tokens, NEW w \in Wallets, w \notin received'
        PROVE  balance'[t][w] <= balance[t][w]
    <3>1. CASE t # token
      BY <2>3, <2>4, <3>1
    <3>2. CASE t = token /\ w # new
      BY <2>2, <2>3, <2>4, <3>2
    <3>3. CASE t = token /\ w = new
      BY <2>2, <2>3, <2>4, <2>5, <3>3
    <3> QED BY <3>1, <3>2, <3>3
  <2> QED BY <2>3, <2>5 DEF TokensFall
<1> QED BY <1>1, <1>2, TokenWriters

LEMMA SweepKept ==
  ASSUME IInv, IInv', TokensFall, NEW p \in Operators, SweepOk(call[p], balance, received), call'[p] = call[p]
  PROVE  SweepOk(call'[p], balance', received')
<1> USE DEF IInv
<1>1. \A t \in Tokens, w \in Wallets : balance[t][w] \in Nat /\ balance'[t][w] \in Nat
  BY DEF TokensOk
<1>2. CallOk(call[p], registered, Filed)
  BY DEF Procs, CallsOk
<1> SUFFICES ASSUME call[p] \in RecoveryCall, call[p].op = "SWEEP",
                    call[p].pc \in {"NEXT", "MOVE", "COMPLETE"},
                    NormalizeAddress(call[p].old) \notin received'
             PROVE  /\ \A t \in Tokens \ call[p].todo :
                         \/ call[p].pc = "MOVE" /\ t = call[p].token
                         \/ balance'[t][NormalizeAddress(call[p].old)] = 0
                    /\ call[p].pc = "MOVE" =>
                         balance'[call[p].token][NormalizeAddress(call[p].old)] <= call[p].units
  BY DEF SweepOk
<1>3. PICK old \in Wallets, u \in Nat, token \in Tokens \cup {None} :
        old = NormalizeAddress(call[p].old) /\ u = call[p].units /\ token = call[p].token
  BY Addresses DEF RecoveryCall
<1>4. call[p].pc = "MOVE" => token \in Tokens
  BY <1>2, <1>3 DEF CallOk, Cleared
<1>5. /\ \A t \in Tokens \ call[p].todo : (call[p].pc = "MOVE" /\ t = token) \/ balance[t][old] = 0
      /\ call[p].pc = "MOVE" => balance[token][old] <= u
  BY <1>3 DEF SweepOk, TokensFall
<1>6. \A t \in Tokens : balance'[t][old] <= balance[t][old]
  BY <1>3 DEF TokensFall
<1>7. call[p].pc = "MOVE" => balance'[token][old] <= u
  BY <1>1, <1>4, <1>5, <1>6
<1>8. \A t \in Tokens \ call[p].todo : (call[p].pc = "MOVE" /\ t = token) \/ balance'[t][old] = 0
  BY <1>1, <1>5, <1>6
<1> QED BY <1>3, <1>7, <1>8

\* What one recovery does leaves it in order.
LEMMA SweepGoesOn ==
  ASSUME IInv, IInv', TokensFall, NEW p \in Operators, SweepOk(call[p], balance, received), RecoveryNext(p)
  PROVE  SweepOk(call'[p], balance', received')
<1> DEFINE Goal == SweepOk(call'[p], balance', received')
<1> USE DEF IInv
<1>0. p \in Procs /\ CallOk(call[p], registered, Filed)
  BY DEF Procs, CallsOk
<1>1. ASSUME call'[p].pc \in {"UPLOAD", "IDLE", "DONE", "FAILED", "REJECT"}
      PROVE  Goal
  <2>1. call'[p] \notin RecoveryCall \/ call'[p].pc \in {"FAILED", "REJECT"}
    BY <1>1 DEF RecoveryCall
  <2> QED BY <2>1 DEF SweepOk
<1>2. ASSUME NEW pc, Step(p, pc), call[p] \in RecoveryCall
      PROVE  /\ call'[p] = [call[p] EXCEPT !.pc = pc] /\ call'[p].pc = pc
             /\ call'[p].op = call[p].op /\ call'[p].todo = call[p].todo /\ call'[p].old = call[p].old
             /\ call'[p].amount = call[p].amount
  <2>1. call'[p] = [call[p] EXCEPT !.pc = pc]
    BY <1>0, <1>2 DEF Step, CallsOk
  <2> QED BY <1>2, <2>1 DEF RecoveryCall
<1>3. ASSUME NEW c, call' = [call EXCEPT ![p] = c] PROVE call'[p] = c
  BY <1>0, <1>3 DEF CallsOk
<1>4. ASSUME End(p) PROVE Goal
  BY <1>1, <1>3, <1>4 DEF End, Idle, Done
<1>5. ASSUME NEW r \in Recoveries, SubmitVerification(p, r) PROVE Goal
  <2>1. call'[p].pc = "UPLOAD"
    BY <1>3, <1>5 DEF SubmitVerification, Begin
  <2> QED BY <1>1, <2>1
<1>6. ASSUME NEW r \in Recoveries, NEW op, NEW todo, NEW amount, ApproveAndExecute(p, r, op, todo, amount),
             op = "SWEEP" => todo = Tokens /\ amount = 0
      PROVE  Goal
  <2> DEFINE c == [op |-> op, pc |-> "WALLET", request |-> r, old |-> recovery[r].old,
                   new |-> recovery[r].new, todo |-> todo, amount |-> amount, sent |-> FALSE,
                   token |-> None, units |-> 0]
  <2>a. c.pc = "WALLET" /\ c.op = op /\ c.todo = todo /\ c.amount = amount
    OBVIOUS
  <2>b. call' = [call EXCEPT ![p] = c]
    BY <1>6 DEF ApproveAndExecute, Begin
  <2> HIDE DEF c
  <2>1. /\ call'[p].pc = "WALLET" /\ call'[p].op = op
        /\ call'[p].todo = todo /\ call'[p].amount = amount
    BY <1>3, <2>a, <2>b
  <2> QED BY <1>6, <2>1 DEF Goal, SweepOk
<1>7. CASE PrivyFails(p) \/ VerificationSave(p) \/ RecoveryComplete(p) \/ RecoveryReject(p)
  BY <1>4, <1>7 DEF PrivyFails, VerificationSave, RecoveryComplete, RecoveryReject
<1>8. CASE GenerateEmbeddedWallet(p)
  <2>1. call[p] \in RecoveryCall /\ call[p].pc = "WALLET"
    BY <1>0, <1>8, Shapes DEF GenerateEmbeddedWallet
  <2>2. PICK w : call' = [call EXCEPT ![p].pc = "START", ![p].new = w]
    BY <1>8 DEF GenerateEmbeddedWallet
  <2>3. call'[p] = [call[p] EXCEPT !.pc = "START", !.new = w]
    BY <1>0, <2>2 DEF CallsOk
  <2>4. /\ call'[p].pc = "START" /\ call'[p].op = call[p].op
        /\ call'[p].todo = call[p].todo /\ call'[p].amount = call[p].amount
    BY <2>1, <2>3 DEF RecoveryCall
  <2> QED BY <2>1, <2>4 DEF Goal, SweepOk
<1>9. CASE EnsureWalletWhitelisted(p)
  <2>1. call[p] \in RecoveryCall /\ call[p].pc = "START"
    BY <1>0, <1>9, Shapes DEF EnsureWalletWhitelisted
  <2>2. CASE Step(p, "FAILED")
    BY <1>1, <1>2, <2>1, <2>2
  <2>3. CASE Step(p, "NEXT")
    <3>1. /\ call'[p].pc = "NEXT" /\ call'[p].op = call[p].op
          /\ call'[p].todo = call[p].todo /\ call'[p].amount = call[p].amount
      BY <1>2, <2>1, <2>3
    <3> QED BY <2>1, <3>1 DEF Goal, SweepOk
  <2> QED BY <1>9, <2>2, <2>3 DEF EnsureWalletWhitelisted, Sends
<1>10. CASE SweepFails(p) \/ RecoveryFailed(p)
  <2>1. call[p] \in RecoveryCall
    BY <1>0, <1>10, Shapes DEF SweepFails, RecoveryFailed
  <2>2. call'[p].pc \in {"FAILED", "REJECT"}
    BY <1>2, <1>10, <2>1 DEF SweepFails, RecoveryFailed
  <2> QED BY <1>1, <2>2
<1>11. CASE Relink(p)
  <2>1. call[p] \in RecoveryCall /\ call[p].pc = "NEXT" /\ call[p].todo = {} /\ Step(p, "COMPLETE")
    BY <1>0, <1>11, Shapes DEF Relink
  <2>2. UNCHANGED tokenVars
    BY <1>11 DEF Relink, assetVars
  <2>3. /\ call'[p].pc = "COMPLETE" /\ call'[p].op = call[p].op
        /\ call'[p].todo = {} /\ call'[p].old = call[p].old
    BY <1>2, <2>1
  <2> QED BY <2>1, <2>2, <2>3 DEF Goal, SweepOk
<1>12. ASSUME NEW s \in Tokens, SweepRead(p, s) PROVE Goal
  <2>1. call[p] \in RecoveryCall /\ call[p].pc = "NEXT"
    BY <1>0, <1>12, Shapes DEF SweepRead
  <2>2. UNCHANGED tokenVars
    BY <1>12 DEF SweepRead, assetVars
  <2> DEFINE next == [call[p] EXCEPT !.todo = @ \ {s}]
             amount == IF call[p].amount = 0 THEN balance[s][NormalizeAddress(call[p].old)] ELSE call[p].amount
             move == [next EXCEPT !.pc = "MOVE", !.token = s, !.units = amount]
  <2>3. /\ next \in RecoveryCall /\ next.pc = "NEXT" /\ next.op = call[p].op /\ next.old = call[p].old
        /\ next.todo = call[p].todo \ {s} /\ next.amount = call[p].amount
    BY <2>1 DEF RecoveryCall
  <2>4. /\ move.pc = "MOVE" /\ move.op = next.op /\ move.old = next.old /\ move.todo = next.todo
        /\ move.amount = next.amount /\ move.token = s /\ move.units = amount
    <3> HIDE DEF next, amount
    <3> QED BY <2>3 DEF RecoveryCall
  <2>5. call'[p] = IF call[p].op = "SWEEP" /\ amount = 0 THEN next ELSE move
    BY <1>3, <1>12 DEF SweepRead
  <2>6. call[p].op = "SWEEP" => amount = balance[s][NormalizeAddress(call[p].old)]
    BY <2>1 DEF SweepOk
  <2>7. balance[s][NormalizeAddress(call[p].old)] \in Nat
    BY <2>1, Addresses DEF RecoveryCall, TokensOk
  <2> HIDE DEF next, move, amount
  <2>8. CASE call[p].op = "SWEEP" /\ amount = 0
    <3>1. call'[p] = next
      BY <2>5, <2>8
    <3>2. \/ NormalizeAddress(call[p].old) \in received
          \/ \A t \in Tokens \ call[p].todo : balance[t][NormalizeAddress(call[p].old)] = 0
      BY <2>1, <2>8 DEF SweepOk
    <3> QED BY <2>1, <2>2, <2>3, <2>6, <2>8, <3>1, <3>2 DEF Goal, SweepOk
  <2>9. CASE call[p].op = "SWEEP" /\ amount # 0
    <3>1. call'[p] = move
      BY <2>5, <2>9
    <3>2. \/ NormalizeAddress(call[p].old) \in received
          \/ \A t \in Tokens \ call[p].todo : balance[t][NormalizeAddress(call[p].old)] = 0
      BY <2>1, <2>9 DEF SweepOk
    <3>3. /\ call'[p].op = "SWEEP" /\ call'[p].amount = 0 /\ call'[p].pc = "MOVE"
          /\ call'[p].old = call[p].old /\ call'[p].todo = call[p].todo \ {s}
          /\ call'[p].token = s /\ call'[p].units = balance[s][NormalizeAddress(call[p].old)]
      BY <2>1, <2>3, <2>4, <2>6, <2>9, <3>1 DEF SweepOk
    <3>4. balance' = balance /\ received' = received
      BY <2>2
    <3>5. balance[s][NormalizeAddress(call[p].old)] <= balance[s][NormalizeAddress(call[p].old)]
      BY <2>7
    <3> QED BY <3>2, <3>3, <3>4, <3>5 DEF SweepOk
  <2>10. CASE call[p].op # "SWEEP"
    BY <2>3, <2>4, <2>5, <2>10 DEF Goal, SweepOk
  <2> QED BY <2>8, <2>9, <2>10
<1>13. CASE ExecuteWalletRecovery(p)
  <2>1. call[p] \in RecoveryCall /\ call[p].pc = "MOVE" /\ call[p].token \in Tokens
    BY <1>0, <1>13, Shapes DEF ExecuteWalletRecovery, CallOk, Cleared
  <2>2. CASE Step(p, "FAILED")
    BY <1>1, <1>2, <2>1, <2>2
  <2>3. CASE RecoverWallet(call[p]) /\ call' = [call EXCEPT ![p].pc = "NEXT", ![p].sent = TRUE]
    <3>1. call'[p] = [call[p] EXCEPT !.pc = "NEXT", !.sent = TRUE]
      BY <1>0, <2>3 DEF CallsOk
    <3>2. /\ call'[p].pc = "NEXT" /\ call'[p].op = call[p].op /\ call'[p].old = call[p].old
          /\ call'[p].todo = call[p].todo /\ call'[p].amount = call[p].amount
      BY <2>1, <3>1 DEF RecoveryCall
    <3>3. PICK token \in Tokens, old \in Wallets, new \in MaybeWallet, u \in Nat :
            /\ token = call[p].token /\ u = call[p].units
            /\ old = NormalizeAddress(call[p].old) /\ new = NormalizeAddress(call[p].new)
      BY <2>1, Addresses DEF RecoveryCall
    <3>4. /\ u <= balance[token][old]
          /\ \A t \in Tokens : t # token => balance'[t] = balance[t]
          /\ \A w \in Wallets : balance'[token][w] = balance[token][w] - (IF w = old THEN u ELSE 0)
                                                                    + (IF w = new THEN u ELSE 0)
          /\ received' = IF u > 0 THEN received \cup {new} ELSE received
      BY <2>3, <3>3 DEF RecoverWallet, TokensOk
    <3>5. balance[token][old] \in Nat /\ balance'[token][old] \in Nat
      BY DEF TokensOk
    <3>6. ASSUME call[p].op = "SWEEP", old \notin received'
          PROVE  \A t \in Tokens \ call[p].todo : balance'[t][old] = 0
      <4>1. old \notin received
        BY <3>6 DEF TokensFall
      <4>2. balance[token][old] <= u /\ \A t \in Tokens \ call[p].todo : t = token \/ balance[t][old] = 0
        BY <2>1, <3>3, <3>6, <4>1 DEF SweepOk
      <4>3. balance'[token][old] = 0
        <5>1. CASE new # old
          <6>1. balance'[token][old] = balance[token][old] - u
            BY <3>4, <3>5, <5>1
          <6> QED BY <3>4, <3>5, <4>2, <6>1
        <5>2. CASE new = old
          <6>1. u = 0
            BY <3>4, <3>6, <5>2
          <6>2. balance'[token][old] = balance[token][old]
            BY <3>4, <3>5, <6>1
          <6> QED BY <3>5, <4>2, <6>1, <6>2
        <5> QED BY <5>1, <5>2
      <4> QED BY <3>4, <4>2, <4>3
    <3> QED BY <2>1, <3>2, <3>3, <3>6 DEF Goal, SweepOk
  <2> QED BY <1>13, <2>2, <2>3 DEF ExecuteWalletRecovery
<1>14. Goal
  BY <1>5, <1>6, <1>7, <1>8, <1>9, <1>10, <1>11, <1>12, <1>13 DEF RecoveryNext
<1> QED BY <1>14 DEF Goal

LEMMA OneChanges ==
  ASSUME IInv, NEW p \in Operators, RecoveryNext(p), NEW q \in Procs, q # p
  PROVE  call'[q] = call[q]
<1>1. call = [s \in Procs |-> call[s]] /\ p \in Procs
  BY DEF IInv, CallsOk, Procs
<1>2. \A c : call' = [call EXCEPT ![p] = c] => call'[q] = call[q]
  BY <1>1
<1>3. \A pc : Step(p, pc) => call'[q] = call[q]
  BY <1>2 DEF Step
<1>4. End(p) => call'[q] = call[q]
  BY <1>2 DEF End
<1>5. CASE GenerateEmbeddedWallet(p)
  <2>1. PICK w : call' = [call EXCEPT ![p].pc = "START", ![p].new = w]
    BY <1>5 DEF GenerateEmbeddedWallet
  <2> QED BY <1>1, <2>1
<1>6. ASSUME NEW t \in Tokens, SweepRead(p, t) PROVE call'[q] = call[q]
  BY <1>2, <1>6 DEF SweepRead
<1>7. CASE ExecuteWalletRecovery(p)
  BY <1>1, <1>3, <1>7 DEF ExecuteWalletRecovery
<1>8. ASSUME NEW r \in Recoveries, SubmitVerification(p, r) PROVE call'[q] = call[q]
  BY <1>2, <1>8 DEF SubmitVerification, Begin
<1>9. ASSUME NEW r \in Recoveries, NEW op, NEW todo, NEW amount, ApproveAndExecute(p, r, op, todo, amount)
      PROVE  call'[q] = call[q]
  BY <1>2, <1>9 DEF ApproveAndExecute, Begin
<1>10. CASE EnsureWalletWhitelisted(p) \/ SweepFails(p) \/ Relink(p) \/ RecoveryFailed(p)
  BY <1>3, <1>10 DEF EnsureWalletWhitelisted, Sends, SweepFails, Relink, RecoveryFailed
<1>11. CASE PrivyFails(p) \/ VerificationSave(p) \/ RecoveryComplete(p) \/ RecoveryReject(p)
  BY <1>4, <1>11 DEF PrivyFails, VerificationSave, RecoveryComplete, RecoveryReject
<1> QED
  BY <1>5, <1>6, <1>7, <1>8, <1>9, <1>10, <1>11 DEF RecoveryNext

LEMMA SweepsStep ==
  ASSUME IInv, SweepsOk, [Next]_vars
  PROVE  SweepsOk'
<1>1. IInv' /\ TokensFall
  BY InvStep, FallStep
<1> SUFFICES ASSUME NEW q \in Operators PROVE SweepOk(call'[q], balance', received')
  BY DEF SweepsOk
<1>2. SweepOk(call[q], balance, received)
  BY DEF SweepsOk
<1>3. CASE call'[q] = call[q]
  BY <1>1, <1>2, <1>3, SweepKept
<1>4. ASSUME call'[q].pc \in EntityPlaces \cup {"IDLE", "DONE"}
      PROVE  SweepOk(call'[q], balance', received')
  <2>1. call'[q] \notin RecoveryCall
    BY <1>4 DEF EntityPlaces, RecoveryCall
  <2> QED BY <2>1 DEF SweepOk
<1>5. ASSUME NEW p \in Procs, NEW c, c.pc \in EntityPlaces \cup {"IDLE", "DONE"}, call' = [call EXCEPT ![p] = c]
      PROVE  SweepOk(call'[q], balance', received')
  <2>1. call'[q] = call[q] \/ call'[q] = c
    BY <1>5 DEF IInv, CallsOk, Procs
  <2> QED BY <1>3, <1>4, <1>5, <2>1
<1>6. ASSUME NEW p \in Clerks, DecisionNext(p) \/ WalletNext(p)
      PROVE  SweepOk(call'[q], balance', received')
  BY <1>5, <1>6, ClerkPlaces DEF Procs, EntityGoesOn
<1>7. ASSUME NEW p \in Operators, RecoveryNext(p)
      PROVE  SweepOk(call'[q], balance', received')
  <2>1. CASE p = q
    BY <1>1, <1>2, <1>7, <2>1, SweepGoesOn
  <2>2. CASE p # q
    BY <1>3, <1>7, <2>2, OneChanges DEF IInv, CallsOk, Procs
  <2> QED BY <2>1, <2>2
<1>8. ASSUME NEW p \in Procs, SaveSelect(p) \/ SaveWrite(p) \/ SaveFails(p)
      PROVE  SweepOk(call'[q], balance', received')
  <2>1. CASE SaveSelect(p)
    <3>1. call[p] \in EntityCall
      BY <2>1, Shapes DEF SaveSelect, IInv, CallsOk
    <3> DEFINE c == [call[p] EXCEPT !.pc = "WRITE", !.columns = {f \in Columns : call[p].mine[f] # user[f]}]
    <3>2. c.pc \in EntityPlaces /\ call' = [call EXCEPT ![p] = c]
      BY <2>1, <3>1 DEF SaveSelect, EntityCall, EntityPlaces
    <3> HIDE DEF c
    <3> QED BY <1>5, <3>2
  <2>2. CASE SaveWrite(p) \/ SaveFails(p)
    BY <1>5, <2>2 DEF SaveWrite, SaveFails, End, Idle, Done
  <2> QED BY <1>8, <2>1, <2>2
<1>9. CASE HandleIdentityUpdated
  <2>1. UNCHANGED call \/ \E row : call' = [call EXCEPT ![Indexer] = Entity("SYNC", "SELECT", row)]
    BY <1>9 DEF HandleIdentityUpdated, Begin
  <2>2. \A row : Entity("SYNC", "SELECT", row).pc \in EntityPlaces
    BY DEF Entity, EntityPlaces
  <2> QED BY <1>3, <1>5, <2>1, <2>2 DEF Procs
<1>10. CASE Crash
  <2>1. call'[q] \in {Idle, Done}
    BY <1>10 DEF Crash, Procs
  <2> QED BY <1>4, <2>1 DEF Idle, Done
<1>11. ASSUME NEW r \in Recoveries, NEW new \in Wallets \cup {None}, CreateRequest(r, new)
       PROVE  SweepOk(call'[q], balance', received')
  BY <1>3, <1>11 DEF CreateRequest
<1>12. CASE UNCHANGED vars
  BY <1>3, <1>12 DEF vars
<1> QED BY <1>6, <1>7, <1>8, <1>9, <1>10, <1>11, <1>12 DEF Next

\* However approvals race, a recovery of all tokens is COMPLETED only when the
\* old wallet has none left, unless one has moved some to it (SweepOk, all along:
\* approveAndExecute).
THEOREM NothingStaysBehind == Spec => NothingLeftBehind
<1> DEFINE Inv == IInv /\ SweepsOk
<1>1. Init => Inv
  <2>1. Idle \notin RecoveryCall
    BY Apart
  <2>2. Init => SweepsOk
    BY <2>1 DEF Init, SweepsOk, SweepOk, Procs
  <2> QED BY <2>2, InvInit
<1>2. Inv /\ [Next]_vars => Inv'
  BY InvStep, SweepsStep
<1>3. ASSUME Inv, [Next]_vars, NEW p \in Operators,
             call[p].pc = "COMPLETE", call[p].op = "SWEEP"
      PROVE  \/ NormalizeAddress(call[p].old) \in received
             \/ \A t \in Tokens : balance[t][NormalizeAddress(call[p].old)] = 0
  <2>1. call[p] \in RecoveryCall
    BY <1>3, Shapes DEF IInv, CallsOk, Procs
  <2> QED BY <1>3, <2>1 DEF SweepsOk, SweepOk
<1>4. Inv /\ [Next]_vars =>
        [\A p \in Operators :
           LET c == call[p]
           IN  c.pc = "COMPLETE" /\ c.op = "SWEEP" /\ recovery[c.request].status # "COMPLETED"
                 /\ recovery'[c.request].status = "COMPLETED"
               => \/ NormalizeAddress(c.old) \in received
                  \/ \A t \in Tokens : balance[t][NormalizeAddress(c.old)] = 0]_vars
  BY <1>3
<1> QED BY <1>1, <1>2, <1>4, PTL DEF Spec, NothingLeftBehind

-----------------------------------------------------------------------------
(* What calls that do not overlap keep together *)

LEMMA CalmInit == Init => CalmInv
<1> SUFFICES ASSUME Init PROVE CalmInv
  OBVIOUS
<1>1. HomeNews = {} /\ NewsIsTrue
  BY DEF Init, HomeNews, NewsIsTrue
<1>2. FromHome <=> Home \in registered
  BY DEF Init, FromHome, ToSet
<1>3. \A t \in Tokens, w \in Wallets : balance[t][w] > 0 => w \in registered /\ w = Home
  BY DEF Init
<1>4. \A r \in Recoveries : recovery[r].status = None
  BY DEF Init
<1>5. OneTruthfulCall
  BY DEF Init, OneTruthfulCall, Resting
<1>6. user.wallet = Home <=> FromHome
  <2>1. Home # None
    BY DEF None
  <2> QED BY <1>2, <2>1 DEF Init
<1>7. user.wallet = Home => user.verified = registry[Home].verified
  <2>1. registry[Home].verified = (Home \in registered)
    BY DEF Init
  <2>2. Home # None
    BY DEF None
  <2>3. user.wallet = Home => user.verified = TRUE /\ registered = {Home}
    BY <2>2 DEF Init
  <2> QED BY <2>1, <2>3
<1> QED BY <1>1, <1>2, <1>3, <1>4, <1>5, <1>6, <1>7 DEF CalmInv, TokensFromHome, HoldingsAsked, HomeKept

LEMMA CalmSuffices == CalmInv /\ IInv => CalmAgrees
<1> SUFFICES ASSUME CalmInv, IInv PROVE CalmAgrees
  OBVIOUS
<1>1. ASSUME calm, NEW t \in Tokens, NEW w \in Wallets, balance[t][w] > 0
      PROVE  \/ w = user.wallet
             \/ \E r \in Recoveries : /\ recovery[r].status # None
                                      /\ w \in {NormalizeAddress(recovery[r].old), NormalizeAddress(recovery[r].new)}
  <2>1. FromHome
    BY <1>1 DEF CalmInv, TokensFromHome
  <2>2. CASE \E r \in Recoveries : recovery[r].status # None
    <3>1. NormalizeAddress(Home) = Home
      BY Addresses DEF MaybeWallet
    <3> QED BY <1>1, <2>1, <2>2, <3>1 DEF CalmInv, HoldingsAsked
  <2>3. CASE ~ \E r \in Recoveries : recovery[r].status # None
    <3>1. Settled
      BY <2>3 DEF Settled
    <3>2. w = Home
      BY <1>1, <2>3 DEF CalmInv, HoldingsAsked
    <3> QED BY <1>1, <2>1, <3>1, <3>2 DEF CalmInv, HomeKept
  <2> QED BY <2>2, <2>3
<1>2. ASSUME calm, Quiet, user.wallet = Home, Settled
      PROVE  user.verified = registry[Home].verified
  <2>1. HomeNews = {}
    BY <1>2 DEF Quiet, HomeNews
  <2> QED BY <1>2, <2>1 DEF CalmInv, HomeKept
<1> QED BY <1>1, <1>2 DEF CalmAgrees, HoldingsAreKnown, RegistryAgrees, Settled

\* Nobody is given the first wallet at Privy later.
LEMMA FromHomeStays ==
  ASSUME IInv, ContainerOk, [Next]_vars
  PROVE  FromHome' = FromHome
<1>1. ASSUME NEW p \in Clerks, ProvisionPick(p), container' # container
      PROVE  FromHome' = FromHome
  <2>1. container = <<>>
    BY <1>1 DEF ProvisionPick
  <2>2. ToSet(container) = {}
    BY <2>1 DEF ToSet
  <2>3. PICK w \in Fresh : container' = <<w>>
    BY <1>1, <2>1, <2>2 DEF ProvisionPick
  <2>4. w # Home
    BY DEF Fresh
  <2>5. ToSet(container') = {w}
    BY <2>3 DEF ToSet
  <2> QED BY <2>2, <2>4, <2>5 DEF FromHome
<1>2. ASSUME NEW p \in Operators, GenerateEmbeddedWallet(p), container' # container
      PROVE  FromHome' = FromHome
  <2>1. PICK w \in Fresh : container' = Append(container, w)
    BY <1>2 DEF GenerateEmbeddedWallet
  <2>2. w # Home /\ w \in Wallets
    BY DEF Fresh
  <2>3. /\ DOMAIN container = 1 .. Len(container) /\ DOMAIN container' = 1 .. Len(container) + 1
        /\ Len(container) \in Nat
        /\ \A i \in 1 .. Len(container) : container'[i] = container[i]
        /\ container'[Len(container) + 1] = w
    BY <2>1, <2>2 DEF ContainerOk
  <2>4. \A i \in 1 .. Len(container) + 1 : i \in 1 .. Len(container) \/ i = Len(container) + 1
    BY <2>3
  <2>5. \A i \in 1 .. Len(container) : i \in 1 .. Len(container) + 1
    BY <2>3
  <2>6. FromHome' => FromHome
    BY <2>2, <2>3, <2>4 DEF FromHome, ToSet
  <2>7. FromHome => FromHome'
    BY <2>3, <2>5 DEF FromHome, ToSet
  <2> QED BY <2>6, <2>7 DEF FromHome
<1> QED BY <1>1, <1>2, ContainerWriters DEF FromHome

\* A request that is taken up stays so, and keeps the wallet it is to leave.
LEMMA RequestsGoOn ==
  ASSUME IInv, [Next]_vars
  PROVE  /\ Settled' => Settled
         /\ \A r \in Recoveries : recovery[r].status # None => recovery'[r].status # None
                                                               /\ recovery'[r].old = recovery[r].old
<1> DEFINE Kept == /\ Settled' => Settled
                   /\ \A r \in Recoveries : recovery[r].status # None => recovery'[r].status # None
                                                               /\ recovery'[r].old = recovery[r].old
<1> USE DEF IInv
<1>1. ASSUME NEW r \in Recoveries, NEW new \in MaybeWallet, CreateRequest(r, new)
      PROVE  Kept
  <2>1. \A s \in Recoveries : s # r => recovery'[s] = recovery[s]
    BY <1>1 DEF CreateRequest, RequestsOk
  <2>2. recovery[r].status = None
    BY <1>1 DEF CreateRequest
  <2> QED BY <2>1, <2>2 DEF Settled
<1>2. ASSUME NEW q \in Filed, NEW w, NEW status \in Statuses \ {"PENDING_DOCUMENTS"},
             recovery' = [recovery EXCEPT ![q].status = status, ![q].new = w]
      PROVE  Kept
  <2>1. recovery[q] \in Request /\ q \in Recoveries
    BY DEF RequestsOk, Filed
  <2>2. /\ \A s \in Recoveries : s # q => recovery'[s] = recovery[s]
        /\ recovery'[q] = [recovery[q] EXCEPT !.status = status, !.new = w]
    BY <1>2, <2>1 DEF RequestsOk
  <2>3. recovery'[q].status = status /\ recovery'[q].old = recovery[q].old
    BY <2>1, <2>2 DEF Request
  <2>4. status \notin {None, "PENDING_DOCUMENTS"}
    BY DEF Statuses, None
  <2>5. ~Settled'
    BY <2>1, <2>3, <2>4 DEF Settled
  <2> QED BY <2>2, <2>3, <2>4, <2>5
<1>3. ASSUME NEW p \in Operators,
             \/ VerificationSave(p) \/ GenerateEmbeddedWallet(p) \/ EnsureWalletWhitelisted(p)
             \/ RecoveryComplete(p) \/ RecoveryReject(p)
      PROVE  Kept
  <2>1. CallOk(call[p], registered, Filed)
    BY DEF CallsOk, Procs
  <2>2. call[p].pc \in {"UPLOAD", "WALLET", "START", "COMPLETE", "REJECT"}
    BY <1>3 DEF VerificationSave, GenerateEmbeddedWallet, EnsureWalletWhitelisted, RecoveryComplete, RecoveryReject
  <2>3. call[p].request \in Filed
    BY <2>1, <2>2, Shapes DEF CallOk
  <2>4. PICK q \in Filed : q = call[p].request
    BY <2>3
  <2>5. \/ recovery' = recovery
        \/ \E w : \E status \in Statuses \ {"PENDING_DOCUMENTS"} :
             recovery' = [recovery EXCEPT ![q].status = status, ![q].new = w]
    BY <1>3, <2>4 DEF VerificationSave, GenerateEmbeddedWallet, EnsureWalletWhitelisted,
       RecoveryComplete, RecoveryReject, SaveRequest, Statuses
  <2> QED BY <1>2, <2>5 DEF Settled
<1>4. CASE recovery' = recovery
  BY <1>4 DEF Settled
<1> QED BY <1>1, <1>3, <1>4, RequestWriters

\* How the registry and its events change.
LEMMA ChainSteps ==
  ASSUME IInv, [Next]_vars
  PROVE  \/ UNCHANGED <<registry, events>>
         \/ \E w \in MaybeWallet, status \in BOOLEAN : RegisterIdentity(w, status)
         \/ \E w \in MaybeWallet, frozen \in BOOLEAN : ToggleFreeze(w, frozen)
         \/ /\ registry' = registry /\ events' = Tail(events)
            /\ SaveWrite(Indexer) \/ HandleIdentityUpdated \/ ~calm'
<1> USE DEF IInv
<1>1. ASSUME NEW p \in Clerks, DecideRegister(p) \/ HandleRegister(p) \/ PartnerRegister(p) \/ FreezeToggle(p)
      PROVE  \/ UNCHANGED <<registry, events>>
             \/ \E w \in MaybeWallet, status \in BOOLEAN : RegisterIdentity(w, status)
             \/ \E w \in MaybeWallet, frozen \in BOOLEAN : ToggleFreeze(w, frozen)
  <2>1. CallOk(call[p], registered, Filed)
    BY DEF CallsOk, Procs
  <2>2. call[p].pc \in {"REGISTER", "HELD", "PARTNER", "TOGGLE"}
    BY <1>1 DEF DecideRegister, HandleRegister, PartnerRegister, FreezeToggle
  <2>3. call[p] \in EntityCall
    BY <2>1, <2>2, Shapes
  <2>4. call[p].mine \in Row
    BY <2>3 DEF EntityCall
  <2>5. /\ NormalizeAddress(call[p].mine.wallet) \in MaybeWallet
        /\ call[p].mine.verified \in BOOLEAN /\ (~call[p].mine.active) \in BOOLEAN
    BY <2>4, Addresses DEF Row
  <2>6. CASE DecideRegister(p) \/ HandleRegister(p) \/ PartnerRegister(p)
    BY <2>5, <2>6 DEF DecideRegister, HandleRegister, PartnerRegister, Sends, chainVars
  <2>7. CASE FreezeToggle(p)
    BY <2>5, <2>7 DEF FreezeToggle, Sends, chainVars
  <2> QED BY <1>1, <2>6, <2>7
<1>2. ASSUME NEW p \in Operators, EnsureWalletWhitelisted(p)
      PROVE  \/ UNCHANGED <<registry, events>>
             \/ \E w \in MaybeWallet, status \in BOOLEAN : RegisterIdentity(w, status)
  <2>1. CallOk(call[p], registered, Filed)
    BY DEF CallsOk, Procs
  <2>2. call[p] \in RecoveryCall
    BY <1>2, <2>1, Shapes DEF EnsureWalletWhitelisted
  <2>3. NormalizeAddress(call[p].new) \in MaybeWallet
    BY <2>2, Addresses DEF RecoveryCall
  <2> QED BY <1>2, <2>3 DEF EnsureWalletWhitelisted, Sends, chainVars
<1>3. ASSUME NEW p \in Procs, SaveWrite(p) \/ SaveFails(p)
      PROVE  \/ UNCHANGED <<registry, events>>
             \/ /\ registry' = registry /\ events' = Tail(events)
                /\ SaveWrite(Indexer) \/ ~calm'
  BY <1>3 DEF SaveWrite, SaveFails
<1>4. CASE HandleIdentityUpdated \/ Crash
  BY <1>4 DEF HandleIdentityUpdated, Crash
<1>5. ASSUME ~ \E p \in Clerks : DecideRegister(p) \/ HandleRegister(p) \/ PartnerRegister(p) \/ FreezeToggle(p),
             ~ \E p \in Operators : EnsureWalletWhitelisted(p),
             ~ \E p \in Procs : SaveWrite(p) \/ SaveFails(p),
             ~ HandleIdentityUpdated, ~Crash
      PROVE  UNCHANGED <<registry, events>>
  BY <1>5 DEF Next, vars, chainVars, DecisionNext, WalletNext, RecoveryNext, Decide, Handle, Review,
     HandleKyc, HandleWrite, HandleCommit, UpdatePartnerStatus, ReviewSave, Freeze, SubmitKyc,
     SubmitKycSave, SyncWalletAddress, SyncPrivyWallet, SaveProfile, ProvisionMobileWallet,
     ProvisionPick, PrivyFails, SubmitVerification, ApproveAndExecute, VerificationSave,
     GenerateEmbeddedWallet, SweepRead, ExecuteWalletRecovery, SweepFails, Relink,
     RecoveryComplete, RecoveryFailed, RecoveryReject, SaveSelect, CreateRequest
<1> QED BY <1>1, <1>2, <1>3, <1>4, <1>5

\* The registry's newest event about the first wallet stays its newest word.
LEMMA NewsStep ==
  ASSUME IInv, NewsIsTrue, [Next]_vars
  PROVE  NewsIsTrue'
<1> USE DEF IInv
<1>0. /\ DOMAIN events = 1 .. Len(events) /\ Len(events) \in Nat
      /\ \A w \in Wallets : registry[w].verified \in BOOLEAN
  BY DEF ChainOk
<1>1. CASE UNCHANGED <<registry, events>>
  BY <1>1 DEF NewsIsTrue, HomeNews
<1>2. ASSUME NEW w \in MaybeWallet, NEW status \in BOOLEAN, RegisterIdentity(w, status)
      PROVE  NewsIsTrue'
  <2>1. /\ DOMAIN events' = 1 .. Len(events) + 1
        /\ \A i \in 1 .. Len(events) : events'[i] = events[i]
        /\ events'[Len(events) + 1] = [wallet |-> w, verified |-> status]
    BY <1>2 DEF RegisterIdentity, ChainOk
  <2>2. CASE w = Home
    <3>1. Len(events) + 1 \in HomeNews' /\ events'[Len(events) + 1].verified = status
      BY <1>0, <2>1, <2>2 DEF HomeNews
    <3>2. registry'[Home].verified = status
      BY <1>2, <2>2 DEF RegisterIdentity, ChainOk
    <3>3. \A i \in HomeNews' : Len(events) + 1 <= i => i = Len(events) + 1
      BY <1>0, <2>1 DEF HomeNews
    <3> QED BY <3>1, <3>2, <3>3 DEF NewsIsTrue
  <2>3. CASE w # Home
    <3>1. HomeNews' = HomeNews
      <4>1. \A i \in 1 .. Len(events) + 1 : i \in 1 .. Len(events) \/ i = Len(events) + 1
        BY <1>0
      <4>2. \A i \in 1 .. Len(events) : i \in 1 .. Len(events) + 1
        BY <1>0
      <4> QED BY <1>0, <2>1, <2>3, <4>1, <4>2 DEF HomeNews
    <3>2. registry'[Home] = registry[Home]
      BY <1>2, <2>3 DEF RegisterIdentity, ChainOk
    <3>3. \A i \in HomeNews : events'[i] = events[i]
      BY <1>0, <2>1 DEF HomeNews
    <3> QED BY <3>1, <3>2, <3>3 DEF NewsIsTrue
  <2> QED BY <2>2, <2>3
<1>3. ASSUME NEW w \in MaybeWallet, NEW frozen \in BOOLEAN, ToggleFreeze(w, frozen)
      PROVE  NewsIsTrue'
  <2>1. registry'[Home].verified = registry[Home].verified /\ events' = events
    BY <1>3 DEF ToggleFreeze, ChainOk
  <2> QED BY <2>1 DEF NewsIsTrue, HomeNews
<1>4. CASE registry' = registry /\ events' = Tail(events)
  <2>1. /\ DOMAIN events' = 1 .. Len(events) - 1
        /\ \A i \in 1 .. Len(events) - 1 : events'[i] = events[i + 1]
    BY <1>4 DEF ChainOk
  <2> SUFFICES ASSUME NEW i \in HomeNews', \A j \in HomeNews' : j <= i
               PROVE  events'[i].verified = registry'[Home].verified
    BY DEF NewsIsTrue
  <2>2. i \in 1 .. Len(events) - 1 /\ i + 1 \in DOMAIN events /\ events'[i] = events[i + 1]
        /\ events[i + 1].wallet = Home
    BY <1>0, <2>1 DEF HomeNews
  <2>3. ASSUME NEW j \in HomeNews PROVE j <= i + 1
    <3>1. j \in 1 .. Len(events) /\ events[j].wallet = Home
      BY <1>0 DEF HomeNews
    <3>2. CASE j = 1
      BY <2>2, <3>2
    <3>3. CASE j # 1
      <4>1. PICK k \in 1 .. Len(events) - 1 : j = k + 1
        <5>1. j - 1 \in 1 .. Len(events) - 1 /\ j = (j - 1) + 1
          BY <1>0, <3>1, <3>3
        <5> QED BY <5>1
      <4>2. k \in HomeNews'
        BY <2>1, <3>1, <4>1 DEF HomeNews
      <4> QED BY <2>2, <4>1, <4>2
    <3> QED BY <3>2, <3>3
  <2>4. i + 1 \in HomeNews
    BY <2>2 DEF HomeNews
  <2>5. events[i + 1].verified = registry[Home].verified
    BY <2>3, <2>4 DEF NewsIsTrue
  <2> QED BY <1>4, <2>2, <2>5
<1> QED BY <1>1, <1>2, <1>3, <1>4, ChainSteps

\* Recoveries move tokens, and do not make them.
LEMMA TokensStay ==
  ASSUME IInv, ContainerOk, TokensFromHome, [Next]_vars
  PROVE  TokensFromHome'
<1> USE DEF IInv
<1>1. FromHome' = FromHome
  BY FromHomeStays
<1>2. CASE UNCHANGED tokenVars
  BY <1>1, <1>2 DEF TokensFromHome
<1>3. ASSUME NEW p \in Operators, ExecuteWalletRecovery(p), RecoverWallet(call[p])
      PROVE  TokensFromHome'
  <2>1. call[p] \in RecoveryCall /\ call[p].token \in Tokens /\ call[p].new \in Wallets
    BY <1>3, Shapes DEF ExecuteWalletRecovery, CallOk, Cleared, Procs, CallsOk
  <2>2. PICK token \in Tokens, old \in Wallets, new \in Wallets, u \in Nat :
          /\ token = call[p].token /\ u = call[p].units
          /\ old = NormalizeAddress(call[p].old) /\ new = NormalizeAddress(call[p].new)
    BY <2>1, Addresses DEF RecoveryCall
  <2>3. /\ \A t \in Tokens : t # token => balance'[t] = balance[t]
        /\ \A w \in Wallets : balance'[token][w] = balance[token][w] - (IF w = old THEN u ELSE 0)
                                                                  + (IF w = new THEN u ELSE 0)
        /\ u <= balance[token][old]
    BY <1>3, <2>2 DEF RecoverWallet, TokensOk
  <2>4. \A t \in Tokens, w \in Wallets : balance[t][w] \in Nat
    BY DEF TokensOk
  <2> SUFFICES ASSUME NEW t \in Tokens, NEW w \in Wallets, balance'[t][w] > 0
               PROVE  FromHome
    BY <1>1 DEF TokensFromHome
  <2>5. CASE t # token
    BY <2>3, <2>5 DEF TokensFromHome
  <2>6. CASE t = token
    <3>1. balance[token][w] > 0 \/ u > 0
      BY <2>3, <2>4, <2>6
    <3>2. balance[token][w] > 0 \/ balance[token][old] > 0
      BY <2>3, <2>4, <3>1
    <3> QED BY <3>2 DEF TokensFromHome
  <2> QED BY <2>5, <2>6
<1> QED BY <1>2, <1>3, TokenWriters

\* A call in the middle is the one that runs, and finds what it read.
LEMMA RunningCall ==
  ASSUME IInv, OneTruthfulCall, NEW p \in Procs, call[p].pc \notin {"IDLE", "DONE"}
  PROVE  /\ ~Resting(p)
         /\ Truthful(p, call[p])
         /\ \A q \in Procs \ {p} : Resting(q)
<1>1. ~Resting(p)
  BY DEF Resting, Idle, Done
<1> QED BY <1>1 DEF OneTruthfulCall

\* What a call about the row, and one about a request, knows.
LEMMA RowKnown ==
  ASSUME NEW p, NEW c \in EntityCall, Truthful(p, c)
  PROVE  /\ RowRead(c) /\ OwnPlace(c)
         /\ c.op = "LINK" => LinkRead(c)
         /\ c.op = "SYNC" => EventRead(c)
         /\ c.op = "SYNC" <=> p = Indexer
<1>1. c.op \notin {"DOCUMENTS", "ONE", "SWEEP"}
  BY DEF EntityCall
<1> QED BY <1>1 DEF Truthful

LEMMA RequestKnown ==
  ASSUME NEW p, NEW c \in DocumentCall \cup RecoveryCall, Truthful(p, c)
  PROVE  RequestRead(c)
<1>1. c.op \in {"DOCUMENTS", "ONE", "SWEEP"}
  BY DEF DocumentCall, RecoveryCall
<1> QED BY <1>1 DEF Truthful

\* A request that has a wallet to move to keeps it.
LEMMA TargetsStay ==
  ASSUME IInv, OneTruthfulCall, [Next]_vars, NEW r \in Recoveries,
         recovery[r].status # None, recovery[r].new # None
  PROVE  recovery'[r].new = recovery[r].new
<1> USE DEF IInv
<1>1. ASSUME NEW s \in Recoveries, NEW new \in MaybeWallet, CreateRequest(s, new)
      PROVE  recovery'[r].new = recovery[r].new
  BY <1>1 DEF CreateRequest, RequestsOk
<1>2. ASSUME NEW p \in Operators,
             \/ VerificationSave(p) \/ GenerateEmbeddedWallet(p) \/ EnsureWalletWhitelisted(p)
             \/ RecoveryComplete(p) \/ RecoveryReject(p)
      PROVE  recovery'[r].new = recovery[r].new
  <2>1. p \in Procs /\ CallOk(call[p], registered, Filed)
    BY DEF CallsOk, Procs
  <2>2. call[p].pc \in {"UPLOAD", "WALLET", "START", "COMPLETE", "REJECT"}
    BY <1>2 DEF VerificationSave, GenerateEmbeddedWallet, EnsureWalletWhitelisted, RecoveryComplete, RecoveryReject
  <2>3. call[p] \in DocumentCall \cup RecoveryCall
    BY <2>1, <2>2, Shapes
  <2>4. call[p].request \in Filed /\ recovery[call[p].request].new = call[p].new
    <3>1. Truthful(p, call[p])
      BY <2>1, <2>2, RunningCall
    <3> QED BY <2>1, <2>3, <3>1, RequestKnown DEF CallOk, RequestRead
  <2>5. PICK q \in Filed, new \in MaybeWallet : q = call[p].request /\ new = call[p].new
    BY <2>3, <2>4 DEF DocumentCall, RecoveryCall
  <2>6. \/ recovery' = recovery
        \/ \E w, status : /\ new # None => w = new
                          /\ recovery' = [recovery EXCEPT ![q].status = status, ![q].new = w]
    BY <1>2, <2>5 DEF VerificationSave, GenerateEmbeddedWallet, EnsureWalletWhitelisted,
       RecoveryComplete, RecoveryReject, SaveRequest
  <2>7. CASE recovery' = recovery
    BY <2>7
  <2>8. ASSUME NEW w, NEW status, new # None => w = new,
               recovery' = [recovery EXCEPT ![q].status = status, ![q].new = w]
        PROVE  recovery'[r].new = recovery[r].new
    <3>1. recovery[q] \in Request /\ q \in Recoveries
      BY DEF RequestsOk, Filed
    <3>2. /\ \A s \in Recoveries : s # q => recovery'[s] = recovery[s]
          /\ recovery'[q] = [recovery[q] EXCEPT !.status = status, !.new = w]
      BY <2>8, <3>1 DEF RequestsOk
    <3>3. recovery'[q].new = w
      BY <3>1, <3>2 DEF Request
    <3> QED BY <2>4, <2>5, <2>8, <3>2, <3>3
  <2> QED BY <2>6, <2>7, <2>8
<1> QED BY <1>1, <1>2, RequestWriters

\* A request has w to move tokens to.
Target(r, w) == recovery[r].status # None /\ NormalizeAddress(recovery[r].new) = w

LEMMA HoldingsStep ==
  ASSUME IInv, ContainerOk, OneTruthfulCall, HoldingsAsked, HomeKept, [Next]_vars
  PROVE  HoldingsAsked'
<1> USE DEF IInv
<1>1. /\ \A r \in Recoveries : recovery[r].status # None => recovery'[r].status # None
                                                            /\ recovery'[r].old = recovery[r].old
      /\ FromHome' = FromHome
  BY RequestsGoOn, FromHomeStays
<1>2. ASSUME NEW w \in Wallets, w = Home \/ \E r \in Recoveries : Target(r, w)
      PROVE  w = Home \/ \E r \in Recoveries : Target(r, w)'
  <2>1. ASSUME NEW r \in Recoveries, Target(r, w)
        PROVE  Target(r, w)'
    <3>1. recovery[r].status # None /\ recovery[r].new # None
      BY <2>1 DEF Target, NormalizeAddress, None
    <3>2. recovery'[r].new = recovery[r].new /\ recovery'[r].status # None
      BY <1>1, <3>1, TargetsStay
    <3> QED BY <2>1, <3>2 DEF Target
  <2> QED BY <1>2, <2>1
<1>3. ASSUME NEW t \in Tokens, NEW w \in Wallets, balance'[t][w] > 0
      PROVE  w = Home \/ \E r \in Recoveries : Target(r, w)'
  <2>1. CASE UNCHANGED tokenVars
    <3>1. balance[t][w] > 0
      BY <1>3, <2>1
    <3> QED BY <1>2, <3>1 DEF HoldingsAsked, Target
  <2>2. ASSUME NEW p \in Operators, ExecuteWalletRecovery(p), RecoverWallet(call[p])
        PROVE  w = Home \/ \E r \in Recoveries : Target(r, w)'
    <3>1. /\ p \in Procs /\ CallOk(call[p], registered, Filed) /\ call[p].pc = "MOVE"
          /\ call[p] \in RecoveryCall /\ call[p].token \in Tokens /\ call[p].new \in Wallets
      BY <2>2, Shapes DEF ExecuteWalletRecovery, CallOk, Cleared, Procs, CallsOk
    <3>2. PICK token \in Tokens, old \in Wallets, new \in Wallets, u \in Nat :
            /\ token = call[p].token /\ u = call[p].units
            /\ old = NormalizeAddress(call[p].old) /\ new = NormalizeAddress(call[p].new)
      BY <3>1, Addresses DEF RecoveryCall
    <3>3. /\ \A s \in Tokens : s # token => balance'[s] = balance[s]
          /\ \A v \in Wallets : balance'[token][v] = balance[token][v] - (IF v = old THEN u ELSE 0)
                                                                    + (IF v = new THEN u ELSE 0)
      BY <2>2, <3>2 DEF RecoverWallet, TokensOk
    <3>4. \A s \in Tokens, v \in Wallets : balance[s][v] \in Nat
      BY DEF TokensOk
    <3>5. balance[t][w] > 0 \/ w = new
      <4>1. CASE t # token
        BY <1>3, <3>3, <4>1
      <4>2. CASE t = token /\ w # new
        BY <1>3, <3>2, <3>3, <3>4, <4>2
      <4> QED BY <4>1, <4>2
    <3>6. \E r \in Recoveries : Target(r, new)
      <4>1. Truthful(p, call[p])
        BY <3>1, RunningCall
      <4>2. RequestRead(call[p])
        BY <3>1, <4>1, RequestKnown
      <4>3. call[p].request \in Filed
        BY <3>1 DEF CallOk
      <4> QED BY <3>2, <4>2, <4>3 DEF RequestRead, Filed, Target
    <3>7. w = Home \/ \E r \in Recoveries : Target(r, w)
      BY <3>5, <3>6 DEF HoldingsAsked, Target
    <3> QED BY <1>2, <3>7
  <2> QED BY <2>1, <2>2, TokenWriters
<1>4. ASSUME FromHome', \E r \in Recoveries : recovery'[r].status # None
      PROVE  \E r \in Recoveries : recovery'[r].status # None /\ recovery'[r].old = Home
  <2>1. CASE \E r \in Recoveries : recovery[r].status # None
    BY <1>1, <1>4, <2>1 DEF HoldingsAsked
  <2>2. CASE \A r \in Recoveries : recovery[r].status = None
    <3>1. user.wallet = Home
      BY <1>1, <1>4, <2>2 DEF HomeKept, Settled
    <3>2. Filed = {}
      BY <2>2 DEF Filed
    <3>3. ASSUME NEW p \in Operators,
                 \/ VerificationSave(p) \/ GenerateEmbeddedWallet(p) \/ EnsureWalletWhitelisted(p)
                 \/ RecoveryComplete(p) \/ RecoveryReject(p)
          PROVE  FALSE
      <4>1. CallOk(call[p], registered, Filed)
        BY DEF CallsOk, Procs
      <4>2. call[p].pc \in {"UPLOAD", "WALLET", "START", "COMPLETE", "REJECT"}
        BY <3>3 DEF VerificationSave, GenerateEmbeddedWallet, EnsureWalletWhitelisted, RecoveryComplete, RecoveryReject
      <4> QED BY <3>2, <4>1, <4>2, Shapes DEF CallOk
    <3>4. PICK r \in Recoveries, new \in MaybeWallet : CreateRequest(r, new)
      BY <1>4, <2>2, <3>3, RequestWriters
    <3>5. recovery'[r] = [status |-> "PENDING_DOCUMENTS", old |-> Home, new |-> new]
      <4>1. Home # None
        BY DEF None
      <4>2. PICK old \in {Home} :
              recovery' = [recovery EXCEPT ![r] = [status |-> "PENDING_DOCUMENTS", old |-> old, new |-> new]]
        BY <3>1, <3>4, <4>1 DEF CreateRequest
      <4> QED BY <4>2 DEF RequestsOk
    <3> QED BY <3>5 DEF None
  <2> QED BY <2>1, <2>2
<1> QED BY <1>3, <1>4 DEF HoldingsAsked, Target

\* What is written is what the call has, if it noted where that differs.
LEMMA WritesMine ==
  ASSUME RowOk, NEW c \in EntityCall, c.columns = {f \in Columns : c.mine[f] # user[f]}
  PROVE  Written(c).wallet = c.mine.wallet /\ Written(c).verified = c.mine.verified
<1>1. c.mine["wallet"] = c.mine.wallet /\ c.mine["verified"] = c.mine.verified
  OBVIOUS
<1>2. "wallet" \in Columns /\ "verified" \in Columns
  BY DEF Columns
<1> QED BY <1>1, <1>2 DEF Written

\* When no event of the first wallet is left, the one that went was the newest.
LEMMA LastNews ==
  ASSUME IInv, NewsIsTrue, events' = Tail(events), HomeNews' = {}
  PROVE  \/ HomeNews = {}
         \/ /\ events # <<>> /\ Head(events).wallet = Home
            /\ Head(events).verified = registry[Home].verified
<1> USE DEF IInv
<1>1. /\ DOMAIN events = 1 .. Len(events) /\ Len(events) \in Nat
      /\ DOMAIN events' = 1 .. Len(events) - 1
      /\ \A i \in 1 .. Len(events) - 1 : events'[i] = events[i + 1]
  BY DEF ChainOk
<1>2. ASSUME NEW i \in HomeNews PROVE i = 1 /\ Len(events) # 0
  <2>1. i \in 1 .. Len(events) /\ events[i].wallet = Home
    BY <1>1 DEF HomeNews
  <2>2. CASE i # 1
    <3>1. i - 1 \in 1 .. Len(events) - 1 /\ (i - 1) + 1 = i
      BY <1>1, <2>1, <2>2
    <3>2. events'[i - 1] = events[i]
      BY <1>1, <3>1
    <3>3. i - 1 \in HomeNews'
      BY <1>1, <2>1, <3>1, <3>2 DEF HomeNews
    <3> QED BY <3>3
  <2>3. Len(events) # 0
    BY <1>1, <2>1
  <2> QED BY <2>2, <2>3
<1>3. ASSUME NEW i \in HomeNews
      PROVE  /\ events # <<>> /\ Head(events).wallet = Home
             /\ Head(events).verified = registry[Home].verified
  <2>1. i = 1 /\ Len(events) # 0
    BY <1>2, <1>3
  <2>2. events # <<>> /\ Head(events) = events[1]
    BY <2>1 DEF ChainOk
  <2>3. events[1].wallet = Home
    BY <1>3, <2>1 DEF HomeNews
  <2>4. events[1].verified = registry[Home].verified
    BY <1>2, <1>3, <2>1 DEF NewsIsTrue
  <2> QED BY <2>2, <2>3, <2>4
<1> QED BY <1>3

\* A row that is saved keeps the first wallet, and agrees with the registry
\* about it as soon as all its events are handled.
LEMMA SavedKeepsHome ==
  ASSUME IInv, NewsIsTrue, OneTruthfulCall, HomeKept, Settled, FromHome' = FromHome,
         NEW p \in Procs, SaveWrite(p)
  PROVE  /\ user'.wallet = Home <=> FromHome
         /\ user'.wallet = Home /\ HomeNews' = {} => user'.verified = registry'[Home].verified
<1> USE DEF IInv
<1>1. call[p].pc = "WRITE" /\ call[p].op # "HANDLE" /\ user' = Written(call[p]) /\ registry' = registry
  BY DEF SaveWrite
<1>2. call[p] \in EntityCall /\ Truthful(p, call[p])
  BY <1>1, Shapes, RunningCall DEF CallsOk
<1>3. PICK c \in EntityCall : c = call[p]
  BY <1>2
<1>4. /\ RowRead(c)
      /\ c.op = "LINK" => LinkRead(c)
      /\ c.op = "SYNC" => EventRead(c)
      /\ c.op = "SYNC" <=> p = Indexer
      /\ c.pc = "WRITE" /\ c.op # "HANDLE"
  BY <1>1, <1>2, <1>3, RowKnown
<1>5. user'.wallet = c.mine.wallet /\ user'.verified = c.mine.verified
  BY <1>1, <1>3, <1>4, WritesMine DEF RowRead
<1>6. user'.wallet = Home <=> FromHome
  <2>1. CASE c.op # "LINK"
    BY <1>4, <1>5, <2>1 DEF RowRead, HomeKept
  <2>2. CASE c.op = "LINK"
    BY <1>4, <1>5, <2>2 DEF LinkRead, HomeKept
  <2> QED BY <2>1, <2>2
<1>7. ASSUME user'.wallet = Home, HomeNews' = {}
      PROVE  user'.verified = registry[Home].verified
  <2>0. user.wallet = Home
    BY <1>6, <1>7 DEF HomeKept
  <2>1. CASE c.op = "DECIDE"
    BY <1>4, <1>5, <1>7, <2>1 DEF RowRead
  <2>2. CASE c.op = "SYNC"
    <3>1. events' = Tail(events)
      BY <1>4, <2>2 DEF SaveWrite
    <3>2. events # <<>> /\ Head(events).wallet = Home /\ c.mine.verified = Head(events).verified
      BY <1>4, <2>0, <2>2 DEF EventRead
    <3>3. HomeNews # {}
      <4>1. Head(events) = events[1] /\ 1 \in DOMAIN events
        BY <3>2 DEF ChainOk
      <4> QED BY <3>2, <4>1 DEF HomeNews
    <3>4. Head(events).verified = registry[Home].verified
      BY <1>7, <3>1, <3>3, LastNews
    <3> QED BY <1>5, <3>2, <3>4
  <2>3. CASE c.op \notin {"DECIDE", "SYNC"}
    <3>1. events' = events
      BY <1>4, <2>3 DEF SaveWrite
    <3>2. HomeNews = {}
      BY <1>7, <3>1 DEF HomeNews
    <3>3. c.mine.verified = user.verified
      BY <1>4, <2>3 DEF RowRead
    <3> QED BY <1>5, <2>0, <3>2, <3>3 DEF HomeKept
  <2> QED BY <2>1, <2>2, <2>3
<1> QED BY <1>1, <1>6, <1>7

\* The transaction of handleKycAction commits what the registry was told.
LEMMA CommitKeepsHome ==
  ASSUME IInv, OneTruthfulCall, HomeKept, Settled, FromHome' = FromHome,
         NEW p \in Clerks, HandleCommit(p)
  PROVE  /\ user'.wallet = Home <=> FromHome
         /\ user'.wallet = Home /\ HomeNews' = {} => user'.verified = registry'[Home].verified
<1> USE DEF IInv
<1>1. p \in Procs /\ call[p].pc = "SENT" /\ user' \in {Written(call[p]), user} /\ UNCHANGED <<registry, events>>
  BY DEF HandleCommit, chainVars, Procs
<1>2. call[p] \in EntityCall /\ Truthful(p, call[p])
  BY <1>1, Shapes, RunningCall DEF CallsOk
<1>3. PICK c \in EntityCall : c = call[p]
  BY <1>2
<1>4. RowRead(c) /\ c.op = "HANDLE" /\ c.pc = "SENT"
  BY <1>1, <1>2, <1>3, RowKnown DEF OwnPlace
<1>5. Written(c).wallet = user.wallet /\ Written(c).verified = c.mine.verified
  BY <1>4, WritesMine DEF RowRead
<1>6. user.wallet = Home => c.mine.verified = registry[Home].verified
  BY <1>4 DEF RowRead
<1>7. HomeNews' = HomeNews
  BY <1>1 DEF HomeNews
<1>8. CASE user' = user
  BY <1>1, <1>7, <1>8 DEF HomeKept
<1>9. CASE user' = Written(c)
  BY <1>1, <1>5, <1>6, <1>9 DEF HomeKept
<1> QED BY <1>1, <1>3, <1>8, <1>9

LEMMA HomeStep ==
  ASSUME IInv, ContainerOk, NewsIsTrue, OneTruthfulCall, HomeKept, calm', [Next]_vars
  PROVE  HomeKept'
<1> USE DEF IInv
<1> SUFFICES ASSUME Settled'
             PROVE  /\ user'.wallet = Home <=> FromHome'
                    /\ user'.wallet = Home /\ HomeNews' = {} => user'.verified = registry'[Home].verified
  BY DEF HomeKept
<1>1. Settled /\ FromHome' = FromHome
  BY RequestsGoOn, FromHomeStays
<1>2. ASSUME NEW p \in Procs, SaveWrite(p)
      PROVE  /\ user'.wallet = Home <=> FromHome
             /\ user'.wallet = Home /\ HomeNews' = {} => user'.verified = registry'[Home].verified
  BY <1>1, <1>2, SavedKeepsHome
<1>3. ASSUME NEW p \in Clerks, HandleCommit(p)
      PROVE  /\ user'.wallet = Home <=> FromHome
             /\ user'.wallet = Home /\ HomeNews' = {} => user'.verified = registry'[Home].verified
  BY <1>1, <1>3, CommitKeepsHome
<1>4. ASSUME NEW p \in Operators, Relink(p) \/ RecoveryFailed(p)
      PROVE  FALSE
  <2>1. p \in Procs /\ CallOk(call[p], registered, Filed)
    BY DEF CallsOk, Procs
  <2>2. call[p].pc \in {"NEXT", "FAILED"} /\ recovery' = recovery
    BY <1>4 DEF Relink, RecoveryFailed, assetVars
  <2>3. call[p] \in RecoveryCall /\ Truthful(p, call[p])
    BY <2>1, <2>2, Shapes, RunningCall
  <2>4. RequestRead(call[p]) /\ call[p].request \in Recoveries
    BY <2>3, RequestKnown DEF RecoveryCall
  <2>5. recovery[call[p].request].status \notin {None, "PENDING_DOCUMENTS"}
    BY <2>2, <2>4 DEF RequestRead
  <2> QED BY <1>1, <2>4, <2>5 DEF Settled
<1>5. ASSUME user' = user, ~SaveWrite(Indexer)
      PROVE  user.wallet = Home /\ HomeNews' = {} => user.verified = registry'[Home].verified
  <2> SUFFICES ASSUME user.wallet = Home, HomeNews' = {}
               PROVE  user.verified = registry'[Home].verified
    OBVIOUS
  <2>1. HomeNews = {} => user.verified = registry[Home].verified
    BY <1>1 DEF HomeKept
  <2>2. CASE UNCHANGED <<registry, events>>
    BY <2>1, <2>2 DEF HomeNews
  <2>3. ASSUME NEW w \in MaybeWallet, NEW status \in BOOLEAN, RegisterIdentity(w, status)
        PROVE  user.verified = registry'[Home].verified
    <3>0. DOMAIN events = 1 .. Len(events) /\ Len(events) \in Nat
      BY DEF ChainOk
    <3>1. /\ DOMAIN events' = 1 .. Len(events) + 1
          /\ \A i \in 1 .. Len(events) : events'[i] = events[i]
          /\ events'[Len(events) + 1] = [wallet |-> w, verified |-> status]
      BY <2>3 DEF RegisterIdentity, ChainOk
    <3>2. w # Home
      <4>1. Len(events) + 1 \in DOMAIN events'
        BY <3>0, <3>1
      <4> QED BY <3>1, <4>1 DEF HomeNews
    <3>3. HomeNews = {}
      <4>1. \A i \in 1 .. Len(events) : i \in 1 .. Len(events) + 1
        BY <3>0
      <4> QED BY <3>0, <3>1, <4>1 DEF HomeNews
    <3>4. registry'[Home] = registry[Home]
      BY <2>3, <3>2 DEF RegisterIdentity, ChainOk
    <3> QED BY <2>1, <3>3, <3>4
  <2>4. ASSUME NEW w \in MaybeWallet, NEW frozen \in BOOLEAN, ToggleFreeze(w, frozen)
        PROVE  user.verified = registry'[Home].verified
    <3>1. registry'[Home].verified = registry[Home].verified /\ events' = events
      BY <2>4 DEF ToggleFreeze, ChainOk
    <3> QED BY <2>1, <3>1 DEF HomeNews
  <2>5. CASE registry' = registry /\ events' = Tail(events) /\ HandleIdentityUpdated
    <3>1. CASE HomeNews = {}
      BY <2>1, <2>5, <3>1
    <3>2. CASE HomeNews # {}
      <4>1. Head(events).wallet = Home /\ Head(events).verified = registry[Home].verified /\ events # <<>>
        BY <2>5, <3>2, LastNews
      <4>2. events' # events
        <5>1. Len(events) \in Nat /\ Len(events) # 0
          BY <4>1 DEF ChainOk
        <5>2. Len(events') = Len(events) - 1
          BY <2>5, <5>1 DEF ChainOk
        <5> QED BY <5>1, <5>2
      <4>3. user.verified = Head(events).verified
        BY <2>5, <4>1, <4>2 DEF HandleIdentityUpdated
      <4> QED BY <2>5, <4>1, <4>3
    <3> QED BY <3>1, <3>2
  <2> QED BY <1>5, <2>2, <2>3, <2>4, <2>5, ChainSteps
<1>6. CASE user' = user /\ ~SaveWrite(Indexer)
  BY <1>1, <1>5, <1>6 DEF HomeKept
<1>7. Indexer \in Procs
  BY DEF Procs
<1> QED BY <1>1, <1>2, <1>3, <1>4, <1>6, <1>7, UserWriters

\* One call goes on, if it runs or none does, and finds what it will read.
CallGoesOn(p) ==
  \E c : /\ call' = [call EXCEPT ![p] = c]
         /\ c \in {Idle, Done} \/ Truthful(p, c)'
         /\ Resting(p) => Alone

LEMMA GoesOnAlone ==
  ASSUME CallsOk, OneTruthfulCall, NEW p \in Procs, CallGoesOn(p)
  PROVE  OneTruthfulCall'
<1>1. PICK c : /\ call' = [call EXCEPT ![p] = c]
               /\ c \in {Idle, Done} \/ Truthful(p, c)'
               /\ Resting(p) => Alone
  BY DEF CallGoesOn
<1>2. call'[p] = c /\ \A q \in Procs : q # p => call'[q] = call[q]
  BY <1>1 DEF CallsOk
<1>3. \A q \in Procs : q # p => Resting(q)
  BY <1>1 DEF OneTruthfulCall, Alone, Resting
<1>4. \A q \in Procs : q # p => Resting(q)'
  BY <1>2, <1>3 DEF Resting
<1>5. Resting(p)' \/ Truthful(p, call[p])'
  BY <1>1, <1>2 DEF Resting
<1>6. \A q \in Procs : Resting(q)' \/ Truthful(q, call[q])'
  BY <1>4, <1>5
<1> QED BY <1>4, <1>6 DEF OneTruthfulCall

LEMMA EndGoesOn ==
  ASSUME NEW p, End(p), Resting(p) => Alone
  PROVE  CallGoesOn(p)
BY DEF End, CallGoesOn

\* A call about the row that has just read it.
LEMMA BeginGoesOn ==
  ASSUME NEW p \in Clerks, NEW c \in EntityCall, call' = [call EXCEPT ![p] = c], Alone,
         UNCHANGED <<user, container>>,
         c.op # "SYNC", c.pc \notin {"WRITE", "HELD", "SENT"}, OwnPlace(c),
         c.op # "LINK" => c.mine.wallet = user.wallet,
         c.op \notin {"DECIDE", "HANDLE"} => c.mine.verified = user.verified,
         c.op = "DECIDE" /\ c.pc = "SELECT" => c.mine.wallet # Home,
         c.op = "LINK" => LinkRead(c)
  PROVE  CallGoesOn(p)
<1>1. RowRead(c)'
  BY DEF RowRead
<1>2. OwnPlace(c)'
  BY DEF OwnPlace
<1>3. LinkRead(c)' <=> LinkRead(c)
  BY DEF LinkRead, FromHome
<1>4. p # Indexer
  OBVIOUS
<1>5. Truthful(p, c)'
  BY <1>1, <1>2, <1>3, <1>4 DEF Truthful, EntityCall
<1> QED BY <1>5 DEF CallGoesOn

LEMMA NewEntityFields ==
  ASSUME NEW op, NEW pc, NEW row, NEW decision
  PROVE  /\ Entity(op, pc, row).op = op /\ Entity(op, pc, row).pc = pc /\ Entity(op, pc, row).mine = row
         /\ LET c == [Entity(op, pc, row) EXCEPT !.decision = decision]
            IN  c.op = op /\ c.pc = pc /\ c.mine = row
BY DEF Entity

LEMMA ClerkBegins ==
  ASSUME IInv, ContainerOk, calm', NEW p \in Clerks,
         \/ \E status \in {"APPROVED", "REJECTED"} : Decide(p, status) \/ Handle(p, status) \/ Review(p, status)
         \/ Freeze(p) \/ SubmitKyc(p) \/ UpdatePartnerStatus(p) \/ SaveProfile(p) \/ ProvisionMobileWallet(p)
         \/ \E w \in Wallets : SyncWalletAddress(p, w) \/ SyncPrivyWallet(p, w)
  PROVE  CallGoesOn(p)
<1> USE DEF IInv
<1>0. user \in Row /\ user.wallet \in MaybeWallet
  BY DEF RowOk, Row
<1>1. ASSUME NEW op \in {"DECIDE", "HANDLE", "REVIEW"}, NEW pc \in {"SELECT", "REGISTER", "KYC", "REVIEW"},
             NEW row \in Row, NEW status \in {"APPROVED", "REJECTED"},
             Begin(p, [Entity(op, pc, row) EXCEPT !.decision = status]),
             UNCHANGED <<user, container>>, row.wallet = user.wallet,
             op = "REVIEW" => row.verified = user.verified, pc = "KYC" => op = "HANDLE",
             op = "DECIDE" /\ pc = "SELECT" => row.wallet # Home
      PROVE  CallGoesOn(p)
  <2>1. PICK c \in EntityCall : c = [Entity(op, pc, row) EXCEPT !.decision = status]
    BY NewEntity
  <2>2. c.op = op /\ c.pc = pc /\ c.mine = row
    BY <2>1, NewEntityFields
  <2>3. call' = [call EXCEPT ![p] = c] /\ Alone
    BY <1>1, <2>1 DEF Begin
  <2> QED BY <1>1, <2>2, <2>3, BeginGoesOn DEF OwnPlace
<1>2. ASSUME NEW status \in {"APPROVED", "REJECTED"}, Decide(p, status) \/ Handle(p, status) \/ Review(p, status)
      PROVE  CallGoesOn(p)
  <2>1. PICK row : row = [user EXCEPT !.verified = (status = "APPROVED")]
    OBVIOUS
  <2>2. row \in Row /\ row.wallet = user.wallet
    BY <1>0, <2>1, Rows DEF Row
  <2>3. UNCHANGED <<user, container>>
    BY <1>2 DEF Decide, Handle, Review, assetVars
  <2>4. CASE Decide(p, status)
    <3>1. user.wallet = None => row.wallet # Home
      BY <2>2 DEF None
    <3>2. CASE user.wallet = None
      BY <1>1, <2>1, <2>2, <2>3, <2>4, <3>1, <3>2 DEF Decide
    <3>3. CASE user.wallet # None
      BY <1>1, <2>1, <2>2, <2>3, <2>4, <3>3 DEF Decide
    <3> QED BY <3>2, <3>3
  <2>5. CASE Handle(p, status)
    BY <1>1, <2>1, <2>2, <2>3, <2>5 DEF Handle
  <2>6. CASE Review(p, status)
    BY <1>0, <1>1, <2>3, <2>6 DEF Review
  <2> QED BY <1>2, <2>4, <2>5, <2>6
<1>3. ASSUME NEW op \in {"FREEZE", "SUBMIT", "PARTNER", "PROFILE", "LINK"},
             NEW pc \in {"SELECT", "TOGGLE", "SUBMIT", "PARTNER", "PRIVY"}, NEW row \in Row,
             call' = [call EXCEPT ![p] = Entity(op, pc, row)], Alone,
             UNCHANGED <<user, container>>, row.verified = user.verified,
             pc = "TOGGLE" => op = "FREEZE", pc = "PRIVY" => op = "LINK",
             op # "LINK" \/ pc = "PRIVY" => row.wallet = user.wallet,
             op = "LINK" => /\ user.wallet = Home /\ FromHome => row.wallet = Home
                            /\ user.wallet # Home /\ ~FromHome => row.wallet # Home
      PROVE  CallGoesOn(p)
  <2>1. PICK c \in EntityCall : c = Entity(op, pc, row)
    BY NewEntity
  <2>2. c.op = op /\ c.pc = pc /\ c.mine = row
    BY <2>1, NewEntityFields
  <2>3. OwnPlace(c) /\ (c.op = "LINK" => LinkRead(c))
    BY <1>3, <2>2 DEF OwnPlace, LinkRead
  <2> QED BY <1>3, <2>1, <2>2, <2>3, BeginGoesOn
<1>4. CASE SubmitKyc(p) \/ UpdatePartnerStatus(p) \/ SaveProfile(p) \/ ProvisionMobileWallet(p)
  <2>1. UNCHANGED <<user, container>> /\ Alone
    BY <1>4 DEF SubmitKyc, UpdatePartnerStatus, SaveProfile, ProvisionMobileWallet, assetVars, Begin
  <2> QED
    BY <1>0, <1>3, <1>4, <2>1 DEF SubmitKyc, UpdatePartnerStatus, SaveProfile, ProvisionMobileWallet, Begin
<1>5. CASE Freeze(p)
  <2>1. PICK row : row = [user EXCEPT !.active = ~@]
    OBVIOUS
  <2>2. row \in Row /\ row.wallet = user.wallet /\ row.verified = user.verified
    BY <1>0, <2>1, Rows DEF Row
  <2>3. UNCHANGED <<user, container>> /\ Alone
    BY <1>5 DEF Freeze, assetVars, Begin
  <2>4. CASE user.wallet = None
    BY <1>3, <1>5, <2>1, <2>2, <2>3, <2>4 DEF Freeze, Begin
  <2>5. CASE user.wallet # None
    BY <1>3, <1>5, <2>1, <2>2, <2>3, <2>5 DEF Freeze, Begin
  <2> QED BY <2>4, <2>5
<1>6. ASSUME NEW w \in Wallets, SyncWalletAddress(p, w) \/ SyncPrivyWallet(p, w)
      PROVE  CallGoesOn(p)
  <2>1. UNCHANGED <<user, container>> /\ Alone
    BY <1>6 DEF SyncWalletAddress, SyncPrivyWallet, assetVars, Begin
  <2>2. PICK v \in MaybeWallet, privy \in BOOLEAN :
          /\ call' = [call EXCEPT ![p] = Entity("LINK", "SELECT", [user EXCEPT !.wallet = v, !.privy = privy])]
          /\ v = w \/ (user.wallet # None /\ v = user.wallet) \/ (user.wallet = None /\ v = NormalizeAddress(w))
    BY <1>6, LinksWhat
  <2>3. PICK row : row = [user EXCEPT !.wallet = v, !.privy = privy]
    OBVIOUS
  <2>4. row \in Row /\ row.wallet = v /\ row.verified = user.verified
    BY <1>0, <2>3, Rows DEF Row
  <2>5. w \in Named \cup ToSet(container)
        /\ (user.wallet = None \/ NormalizeAddress(user.wallet) = NormalizeAddress(w))
    BY <1>6 DEF SyncWalletAddress, SyncPrivyWallet
  <2>6. /\ user.wallet = Home => v = Home
        /\ user.wallet # Home /\ ~FromHome => v # Home
    <3>1. Home # None /\ (v = Home => user.wallet = Home \/ w = Home)
      BY <2>2, Addresses DEF None, MaybeWallet
    <3>2. ~FromHome => w # Home
      BY <2>5 DEF FromHome
    <3>3. user.wallet = Home => w = Home
      BY <1>0, <2>5, <3>1, Addresses DEF MaybeWallet
    <3> QED BY <2>2, <3>1, <3>2, <3>3, Addresses
  <2> QED BY <1>3, <2>1, <2>2, <2>3, <2>4, <2>6
<1> QED BY <1>2, <1>4, <1>5, <1>6

\* A call about the row goes on with what it has, to a place of its own.
LEMMA PlaceGoesOn ==
  ASSUME NEW p, call[p] \in EntityCall, ~Resting(p), Truthful(p, call[p]), NEW pc, Step(p, pc),
         UNCHANGED <<user, container>>,
         call[p].op = "SYNC" => events # <<>> /\ events' # <<>> /\ Head(events') = Head(events),
         pc \in {"SELECT", "HELD", "SENT", "AGAIN"},
         pc \in {"HELD", "SENT"} => call[p].op = "HANDLE" /\ call[p].pc \in {"WRITE", "HELD"},
         \/ call[p].op = "DECIDE" /\ pc = "SELECT"
         \/ pc = "SENT"
         => (call[p].mine.wallet = Home => call[p].mine.verified = registry'[Home].verified)
  PROVE  CallGoesOn(p)
<1>1. PICK old \in EntityCall : old = call[p]
  OBVIOUS
<1>2. PICK c : c = [old EXCEPT !.pc = pc]
  OBVIOUS
<1>3. /\ c.pc = pc /\ c.op = old.op /\ c.mine = old.mine /\ c.columns = old.columns
      /\ old.op \notin {"DOCUMENTS", "ONE", "SWEEP"}
  BY <1>2 DEF EntityCall
<1>4. /\ RowRead(old) /\ OwnPlace(old)
      /\ old.op = "LINK" => LinkRead(old)
      /\ old.op = "SYNC" => EventRead(old)
      /\ old.op = "SYNC" <=> p = Indexer
  BY <1>1, RowKnown
<1>5. c.columns = {f \in Columns : c.mine[f] # user[f]} \/ pc \notin {"HELD", "SENT"}
  BY <1>1, <1>3, <1>4 DEF RowRead
<1>6. RowRead(c)'
  <2>1. (c.op # "LINK" => c.mine.wallet = user'.wallet)
        /\ (c.op \notin {"DECIDE", "HANDLE", "SYNC"} => c.mine.verified = user'.verified)
    BY <1>3, <1>4 DEF RowRead
  <2>2. \/ c.op = "DECIDE" /\ c.pc \in {"SELECT", "WRITE"}
        \/ c.op = "HANDLE" /\ c.pc = "SENT"
        => (c.mine.wallet = Home => c.mine.verified = registry'[Home].verified)
    BY <1>1, <1>3
  <2> QED BY <1>3, <1>5, <2>1, <2>2 DEF RowRead
<1>7. OwnPlace(c)'
  BY <1>1, <1>3 DEF OwnPlace
<1>8. c.op = "LINK" => LinkRead(c)'
  BY <1>3, <1>4 DEF LinkRead, FromHome
<1>9. c.op = "SYNC" => EventRead(c)'
  BY <1>1, <1>3, <1>4 DEF EventRead
<1>10. Truthful(p, c)'
  BY <1>3, <1>4, <1>6, <1>7, <1>8, <1>9 DEF Truthful
<1>11. call' = [call EXCEPT ![p] = c]
  BY <1>1, <1>2 DEF Step
<1> QED BY <1>10, <1>11 DEF CallGoesOn

LEMMA ClerkSteps ==
  ASSUME IInv, ContainerOk, OneTruthfulCall, NEW p \in Clerks,
         \/ DecideRegister(p) \/ HandleKyc(p) \/ HandleWrite(p) \/ HandleRegister(p) \/ HandleCommit(p)
         \/ PartnerRegister(p) \/ ReviewSave(p) \/ FreezeToggle(p) \/ SubmitKycSave(p)
         \/ ProvisionPick(p) \/ PrivyFails(p)
  PROVE  CallGoesOn(p)
<1> USE DEF IInv
<1>1. /\ p \in Procs /\ CallOk(call[p], registered, Filed) /\ p # Indexer
      /\ call[p].pc \in {"REGISTER", "KYC", "WRITE", "HELD", "SENT", "PARTNER", "REVIEW", "AGAIN",
                         "TOGGLE", "SUBMIT", "PRIVY", "WALLET"}
  BY DEF DecideRegister, HandleKyc, HandleWrite, HandleRegister, HandleCommit, PartnerRegister,
     ReviewSave, FreezeToggle, SubmitKycSave, ProvisionPick, PrivyFails, Procs, CallsOk
<1>2. ~Resting(p) /\ Truthful(p, call[p])
  BY <1>1, RunningCall
<1>3. End(p) => CallGoesOn(p)
  BY <1>2, EndGoesOn
<1>4. CASE call[p].pc = "WALLET"
  BY <1>3, <1>4 DEF DecideRegister, HandleKyc, HandleWrite, HandleRegister, HandleCommit,
     PartnerRegister, ReviewSave, FreezeToggle, SubmitKycSave, ProvisionPick, PrivyFails
<1> SUFFICES ASSUME call[p].pc # "WALLET" PROVE CallGoesOn(p)
  BY <1>4
<1>5. call[p] \in EntityCall
  BY <1>1, Shapes
<1>6. /\ RowRead(call[p]) /\ OwnPlace(call[p])
      /\ call[p].op = "LINK" => LinkRead(call[p])
      /\ call[p].op # "SYNC"
  BY <1>1, <1>2, <1>5, RowKnown
<1>7. call[p].mine \in Row /\ call[p].mine.wallet \in MaybeWallet
  <2>1. call[p].mine \in Row
    BY <1>5 DEF EntityCall
  <2> QED BY <2>1 DEF Row
<1>8. \A status : RegisterIdentity(Home, status) => registry'[Home].verified = status
  BY DEF RegisterIdentity, ChainOk
<1>9. CASE DecideRegister(p)
  <2>1. call[p].pc = "REGISTER" /\ UNCHANGED <<user, container>>
    BY <1>9 DEF DecideRegister, assetVars
  <2>2. \/ RegisterIdentity(NormalizeAddress(call[p].mine.wallet), call[p].mine.verified) /\ Step(p, "SELECT")
        \/ End(p)
    BY <1>9 DEF DecideRegister, Sends
  <2>3. ASSUME RegisterIdentity(NormalizeAddress(call[p].mine.wallet), call[p].mine.verified), Step(p, "SELECT")
        PROVE  CallGoesOn(p)
    <3>1. call[p].mine.wallet = Home => registry'[Home].verified = call[p].mine.verified
      BY <1>7, <1>8, <2>3, Addresses
    <3> QED BY <1>2, <1>5, <1>6, <2>1, <2>3, <3>1, PlaceGoesOn
  <2> QED BY <1>3, <2>2, <2>3
<1>10. CASE HandleKyc(p)
  <2>1. call[p].pc = "KYC" /\ UNCHANGED <<user, container>> /\ Step(p, "SELECT")
    BY <1>10 DEF HandleKyc, assetVars
  <2>2. call[p].op = "HANDLE"
    BY <1>6, <2>1 DEF OwnPlace
  <2> QED BY <1>2, <1>5, <1>6, <2>1, <2>2, PlaceGoesOn
<1>11. CASE HandleWrite(p)
  <2>1. call[p].pc = "WRITE" /\ call[p].op = "HANDLE" /\ UNCHANGED <<user, container>>
    BY <1>11 DEF HandleWrite, assetVars
  <2>2. CASE call[p].mine.wallet = None
    <3>1. Step(p, "SENT") /\ call[p].mine.wallet # Home
      BY <1>11, <2>2 DEF HandleWrite, None
    <3> QED BY <1>2, <1>5, <1>6, <2>1, <3>1, PlaceGoesOn
  <2>3. CASE call[p].mine.wallet # None
    <3>1. Step(p, "HELD")
      BY <1>11, <2>3 DEF HandleWrite
    <3> QED BY <1>2, <1>5, <1>6, <2>1, <3>1, PlaceGoesOn
  <2> QED BY <2>2, <2>3
<1>12. CASE HandleRegister(p)
  <2>1. call[p].pc = "HELD" /\ UNCHANGED <<user, container>>
    BY <1>12 DEF HandleRegister, assetVars
  <2>2. \/ RegisterIdentity(NormalizeAddress(call[p].mine.wallet), call[p].mine.verified) /\ Step(p, "SENT")
        \/ End(p)
    BY <1>12 DEF HandleRegister, Sends
  <2>3. ASSUME RegisterIdentity(NormalizeAddress(call[p].mine.wallet), call[p].mine.verified), Step(p, "SENT")
        PROVE  CallGoesOn(p)
    <3>1. call[p].mine.wallet = Home => registry'[Home].verified = call[p].mine.verified
      BY <1>7, <1>8, <2>3, Addresses
    <3>2. call[p].op = "HANDLE"
      BY <1>6, <2>1 DEF OwnPlace
    <3> QED BY <1>2, <1>5, <1>6, <2>1, <2>3, <3>1, <3>2, PlaceGoesOn
  <2> QED BY <1>3, <2>2, <2>3
<1>13. CASE HandleCommit(p) \/ PartnerRegister(p) \/ SubmitKycSave(p) \/ PrivyFails(p)
  BY <1>3, <1>13 DEF HandleCommit, PartnerRegister, SubmitKycSave, PrivyFails
<1>14. CASE ReviewSave(p)
  <2>1. UNCHANGED <<user, container>> /\ (Step(p, "AGAIN") \/ End(p))
    BY <1>14 DEF ReviewSave, assetVars
  <2>2. CASE Step(p, "AGAIN")
    BY <1>2, <1>5, <1>6, <2>1, <2>2, PlaceGoesOn
  <2> QED BY <1>3, <2>1, <2>2
<1>15. CASE FreezeToggle(p)
  <2>1. call[p].pc = "TOGGLE" /\ UNCHANGED <<user, container>> /\ (Step(p, "SELECT") \/ End(p))
    BY <1>15 DEF FreezeToggle, assetVars, Sends
  <2>2. call[p].op = "FREEZE"
    BY <1>6, <2>1 DEF OwnPlace
  <2>3. CASE Step(p, "SELECT")
    BY <1>2, <1>5, <1>6, <2>1, <2>2, <2>3, PlaceGoesOn
  <2> QED BY <1>3, <2>1, <2>3
<1>16. CASE ProvisionPick(p)
  <2>1. call[p].pc = "PRIVY" /\ call[p].op = "LINK" /\ LinkRead(call[p]) /\ call[p].mine.wallet = user.wallet
        /\ user' = user
    BY <1>6, <1>16 DEF ProvisionPick, OwnPlace, LinkRead
  <2>2. PICK w \in Wallets :
          /\ IF call[p].mine.wallet \in ToSet(container) THEN w = call[p].mine.wallet
             ELSE IF container # <<>> THEN w = Head(container) ELSE w \in Fresh
          /\ call' = [call EXCEPT ![p].pc = "SELECT", ![p].mine.wallet = w, ![p].mine.privy = TRUE]
    BY <1>16 DEF ProvisionPick
  <2>3. PICK row, c : /\ row = [call[p].mine EXCEPT !.wallet = w, !.privy = TRUE]
                      /\ c = [call[p] EXCEPT !.pc = "SELECT", !.mine = row]
    OBVIOUS
  <2>4. [[[call[p] EXCEPT !.pc = "SELECT"] EXCEPT !.mine.wallet = w] EXCEPT !.mine.privy = TRUE] = c
    BY <1>5, <1>7, <2>3 DEF EntityCall, Row
  <2>5. call' = [call EXCEPT ![p] = c]
    BY <1>1, <2>2, <2>4 DEF CallsOk
  <2>6. c.pc = "SELECT" /\ c.op = "LINK" /\ c.mine.wallet = w /\ c.mine.verified = call[p].mine.verified
    BY <1>5, <1>7, <2>1, <2>3 DEF EntityCall, Row
  <2>7. /\ user.wallet = Home /\ FromHome => w = Home
        /\ ~FromHome => w # Home
    <3>1. container # <<>> => Head(container) \in ToSet(container)
      <4>1. container # <<>> => Head(container) = container[1] /\ 1 \in DOMAIN container
        BY DEF ContainerOk
      <4> QED BY <4>1 DEF ToSet
    <3> QED BY <2>1, <2>2, <3>1 DEF FromHome, Fresh
  <2>8. FromHome' = FromHome
    BY <1>16, FromHomeStays DEF Next, WalletNext
  <2>9. LinkRead(c)'
    BY <2>1, <2>6, <2>7, <2>8 DEF LinkRead
  <2>10. RowRead(c)' /\ OwnPlace(c)'
    BY <1>6, <2>1, <2>6 DEF RowRead, OwnPlace
  <2>11. Truthful(p, c)'
    BY <1>1, <2>6, <2>9, <2>10 DEF Truthful
  <2> QED BY <1>2, <2>5, <2>11 DEF CallGoesOn
<1> QED BY <1>9, <1>10, <1>11, <1>12, <1>13, <1>14, <1>15, <1>16

LEMMA SaveGoesOn ==
  ASSUME IInv, OneTruthfulCall, NEW p \in Procs, SaveSelect(p) \/ SaveWrite(p) \/ SaveFails(p)
  PROVE  CallGoesOn(p)
<1> USE DEF IInv
<1>1. CallOk(call[p], registered, Filed) /\ call[p].pc \in {"SELECT", "WRITE"}
  BY DEF SaveSelect, SaveWrite, SaveFails, CallsOk
<1>2. ~Resting(p) /\ Truthful(p, call[p]) /\ call[p] \in EntityCall
  BY <1>1, Shapes, RunningCall
<1>3. CASE SaveWrite(p) \/ SaveFails(p)
  BY <1>2, <1>3, EndGoesOn DEF SaveWrite, SaveFails
<1>4. CASE SaveSelect(p)
  <2>1. PICK old \in EntityCall : old = call[p]
    BY <1>2
  <2>2. /\ RowRead(old) /\ OwnPlace(old)
        /\ old.op = "LINK" => LinkRead(old)
        /\ old.op = "SYNC" => EventRead(old)
        /\ old.op = "SYNC" <=> p = Indexer
    BY <1>2, <2>1, RowKnown
  <2>3. PICK c : c = [old EXCEPT !.pc = "WRITE", !.columns = {f \in Columns : old.mine[f] # user[f]}]
    OBVIOUS
  <2>4. /\ c.pc = "WRITE" /\ c.op = old.op /\ c.mine = old.mine
        /\ c.columns = {f \in Columns : c.mine[f] # user[f]}
        /\ old.op \notin {"DOCUMENTS", "ONE", "SWEEP"}
    BY <2>3 DEF EntityCall
  <2>5. call' = [call EXCEPT ![p] = c]
    BY <1>4, <2>1, <2>3 DEF SaveSelect
  <2>6. UNCHANGED <<user, registry, events, container>> /\ old.pc = "SELECT"
    BY <1>4, <2>1 DEF SaveSelect, chainVars, assetVars
  <2>7. RowRead(c)'
    BY <2>2, <2>4, <2>6 DEF RowRead
  <2>8. OwnPlace(c)' /\ (c.op = "LINK" => LinkRead(c)') /\ (c.op = "SYNC" => EventRead(c)')
    BY <2>2, <2>4, <2>6 DEF OwnPlace, LinkRead, FromHome, EventRead
  <2>9. Truthful(p, c)'
    BY <2>2, <2>4, <2>7, <2>8 DEF Truthful
  <2> QED BY <1>2, <2>5, <2>9 DEF CallGoesOn
<1> QED BY <1>3, <1>4

\* A recovery goes on with the request it has.
LEMMA RequestGoesOn ==
  ASSUME NEW p \in Operators, NEW c \in DocumentCall \cup RecoveryCall, call' = [call EXCEPT ![p] = c],
         Resting(p) => Alone, RequestRead(c)'
  PROVE  CallGoesOn(p)
<1>1. c.op \in {"DOCUMENTS", "ONE", "SWEEP"} /\ p # Indexer
  BY DEF DocumentCall, RecoveryCall
<1>2. Truthful(p, c)'
  BY <1>1 DEF Truthful
<1> QED BY <1>2 DEF CallGoesOn

LEMMA OperatorGoesOn ==
  ASSUME IInv, OneTruthfulCall, calm', NEW p \in Operators, RecoveryNext(p)
  PROVE  CallGoesOn(p)
<1> USE DEF IInv
<1>0. p \in Procs /\ CallOk(call[p], registered, Filed)
  BY DEF Procs, CallsOk
<1>1. ASSUME call[p].pc \in {"UPLOAD", "WALLET", "START", "NEXT", "MOVE", "COMPLETE", "FAILED", "REJECT"}
      PROVE  /\ ~Resting(p) /\ call[p] \in DocumentCall \cup RecoveryCall
             /\ RequestRead(call[p])
             /\ End(p) => CallGoesOn(p)
  <2>1. ~Resting(p) /\ Truthful(p, call[p])
    BY <1>0, <1>1, RunningCall
  <2>2. call[p] \in DocumentCall \cup RecoveryCall
    BY <1>0, <1>1, Shapes
  <2> QED BY <2>1, <2>2, RequestKnown, EndGoesOn
<1>2. ASSUME NEW c \in RecoveryCall, call[p] \in RecoveryCall, call[p].pc # "WALLET",
             call[p].pc \in {"START", "NEXT", "MOVE", "COMPLETE", "FAILED", "REJECT"},
             call' = [call EXCEPT ![p] = c], c.request = call[p].request, c.new = call[p].new,
             recovery' = recovery
      PROVE  CallGoesOn(p)
  <2>1. RequestRead(c)'
    BY <1>1, <1>2 DEF RequestRead
  <2> QED BY <1>1, <1>2, <2>1, RequestGoesOn
<1>3. ASSUME NEW pc \in {"NEXT", "COMPLETE", "FAILED", "REJECT"}, Step(p, pc), call[p] \in RecoveryCall,
             call[p].pc \in {"START", "NEXT", "MOVE", "COMPLETE", "FAILED", "REJECT"}, recovery' = recovery
      PROVE  CallGoesOn(p)
  <2>1. PICK c : c = [call[p] EXCEPT !.pc = pc]
    OBVIOUS
  <2>2. c \in RecoveryCall /\ c.request = call[p].request /\ c.new = call[p].new
    BY <1>3, <2>1 DEF RecoveryCall
  <2> QED BY <1>2, <1>3, <2>1, <2>2 DEF Step
<1>4. ASSUME NEW r \in Recoveries, SubmitVerification(p, r)
      PROVE  CallGoesOn(p)
  <2>1. PICK c : c = [op |-> "DOCUMENTS", pc |-> "UPLOAD", request |-> r, new |-> recovery[r].new]
    OBVIOUS
  <2>2. recovery[r].new \in MaybeWallet
    <3>1. recovery[r] \in Request
      BY <1>4 DEF SubmitVerification, RequestsOk, Filed
    <3> QED BY <3>1 DEF Request
  <2>3. c \in DocumentCall /\ c.request = r /\ c.new = recovery[r].new /\ c.pc = "UPLOAD"
    BY <2>1, <2>2 DEF DocumentCall
  <2>4. call' = [call EXCEPT ![p] = c] /\ Alone /\ recovery' = recovery
    BY <1>4, <2>1 DEF SubmitVerification, Begin, assetVars
  <2>5. RequestRead(c)'
    BY <2>3, <2>4 DEF RequestRead
  <2> QED BY <2>3, <2>4, <2>5, RequestGoesOn
<1>5. ASSUME NEW r \in Recoveries, NEW op \in {"ONE", "SWEEP"}, NEW todo \in SUBSET Tokens,
             NEW amount \in Nat, ApproveAndExecute(p, r, op, todo, amount)
      PROVE  CallGoesOn(p)
  <2>1. PICK c : c = [op |-> op, pc |-> "WALLET", request |-> r, old |-> recovery[r].old,
                      new |-> recovery[r].new, todo |-> todo, amount |-> amount, sent |-> FALSE,
                      token |-> None, units |-> 0]
    OBVIOUS
  <2>2. recovery[r].new \in MaybeWallet /\ recovery[r].old \in Wallets
    <3>1. recovery[r] \in Request
      BY <1>5 DEF ApproveAndExecute, RequestsOk, Filed, Open, None
    <3> QED BY <3>1 DEF Request
  <2>3. c \in RecoveryCall /\ c.request = r /\ c.new = recovery[r].new /\ c.pc = "WALLET"
    BY <2>1, <2>2 DEF RecoveryCall
  <2>4. call' = [call EXCEPT ![p] = c] /\ Alone /\ recovery' = recovery
    BY <1>5, <2>1 DEF ApproveAndExecute, Begin, assetVars
  <2>5. RequestRead(c)'
    BY <2>3, <2>4 DEF RequestRead
  <2> QED BY <2>3, <2>4, <2>5, RequestGoesOn
<1>6. CASE PrivyFails(p)
  <2>1. call[p].pc \in {"PRIVY", "WALLET"} /\ End(p)
    BY <1>6 DEF PrivyFails
  <2>2. ~Resting(p)
    BY <1>0, <2>1, RunningCall
  <2> QED BY <2>1, <2>2, EndGoesOn
<1>7. CASE VerificationSave(p) \/ RecoveryComplete(p) \/ RecoveryReject(p)
  BY <1>1, <1>7 DEF VerificationSave, RecoveryComplete, RecoveryReject
<1>8. CASE GenerateEmbeddedWallet(p)
  <2>1. call[p] \in RecoveryCall /\ call[p].request \in Filed /\ ~Resting(p)
    BY <1>0, <1>1, <1>8, Shapes DEF GenerateEmbeddedWallet, CallOk
  <2>2. PICK q \in Filed : q = call[p].request
    BY <2>1
  <2>3. PICK w \in MaybeWallet :
          /\ recovery' = [recovery EXCEPT ![q].status = "APPROVED", ![q].new = w]
          /\ call' = [call EXCEPT ![p].pc = "START", ![p].new = w]
    <3>1. (IF call[p].new = None THEN Fresh ELSE {call[p].new}) \subseteq MaybeWallet
      BY <2>1 DEF RecoveryCall, Fresh, MaybeWallet
    <3> QED BY <1>8, <2>2, <3>1 DEF GenerateEmbeddedWallet
  <2>4. PICK c : c = [call[p] EXCEPT !.pc = "START", !.new = w]
    OBVIOUS
  <2>5. c \in RecoveryCall /\ c.new = w /\ c.request = q
    BY <2>1, <2>2, <2>4 DEF RecoveryCall
  <2>6. call' = [call EXCEPT ![p] = c]
    BY <1>0, <2>3, <2>4 DEF CallsOk
  <2>7. recovery[q] \in Request /\ q \in Recoveries
    BY DEF RequestsOk, Filed
  <2>8. recovery'[q] = [recovery[q] EXCEPT !.status = "APPROVED", !.new = w]
    BY <2>3, <2>7 DEF RequestsOk
  <2>9. recovery'[q].status = "APPROVED" /\ recovery'[q].new = w
    BY <2>7, <2>8 DEF Request
  <2>10. RequestRead(c)'
    BY <2>5, <2>9 DEF RequestRead, None
  <2> QED BY <2>1, <2>5, <2>6, <2>10, RequestGoesOn
<1>9. CASE EnsureWalletWhitelisted(p)
  <2>1. call[p] \in RecoveryCall /\ call[p].request \in Filed /\ ~Resting(p)
    BY <1>0, <1>1, <1>9, Shapes DEF EnsureWalletWhitelisted, CallOk
  <2>2. PICK q \in Filed, new \in MaybeWallet : q = call[p].request /\ new = call[p].new
    BY <2>1 DEF RecoveryCall
  <2>3. PICK pc \in {"NEXT", "FAILED"} : Step(p, pc)
    BY <1>9 DEF EnsureWalletWhitelisted, Sends
  <2>4. PICK c : c = [call[p] EXCEPT !.pc = pc]
    OBVIOUS
  <2>5. c \in RecoveryCall /\ c.new = new /\ c.request = q /\ call' = [call EXCEPT ![p] = c]
    BY <2>1, <2>2, <2>3, <2>4 DEF RecoveryCall, Step
  <2>6. recovery' = [recovery EXCEPT ![q].status = "PROCESSING_BLOCKCHAIN", ![q].new = new]
    BY <1>9, <2>2 DEF EnsureWalletWhitelisted, SaveRequest
  <2>7. recovery[q] \in Request /\ q \in Recoveries
    BY DEF RequestsOk, Filed
  <2>8. recovery'[q] = [recovery[q] EXCEPT !.status = "PROCESSING_BLOCKCHAIN", !.new = new]
    BY <2>6, <2>7 DEF RequestsOk
  <2>9. recovery'[q].status = "PROCESSING_BLOCKCHAIN" /\ recovery'[q].new = new
    BY <2>7, <2>8 DEF Request
  <2>10. RequestRead(c)'
    BY <2>5, <2>9 DEF RequestRead, None
  <2> QED BY <2>1, <2>5, <2>10, RequestGoesOn
<1>10. ASSUME NEW t \in Tokens, SweepRead(p, t)
      PROVE  CallGoesOn(p)
  <2>1. call[p] \in RecoveryCall /\ call[p].pc = "NEXT" /\ recovery' = recovery
    BY <1>0, <1>10, Shapes DEF SweepRead, assetVars
  <2>2. balance[t][NormalizeAddress(call[p].old)] \in Nat /\ call[p].amount \in Nat
    BY <2>1, Addresses DEF TokensOk, RecoveryCall
  <2>3. PICK amount \in Nat :
          amount = IF call[p].amount = 0 THEN balance[t][NormalizeAddress(call[p].old)] ELSE call[p].amount
    BY <2>2
  <2>4. PICK next, move : /\ next = [call[p] EXCEPT !.todo = @ \ {t}]
                          /\ move = [next EXCEPT !.pc = "MOVE", !.token = t, !.units = amount]
    OBVIOUS
  <2>5. next \in RecoveryCall /\ next.request = call[p].request /\ next.new = call[p].new
    BY <2>1, <2>4 DEF RecoveryCall
  <2>6. move \in RecoveryCall /\ move.request = call[p].request /\ move.new = call[p].new
    BY <2>4, <2>5 DEF RecoveryCall
  <2>7. call' = [call EXCEPT ![p] = next] \/ call' = [call EXCEPT ![p] = move]
    BY <1>10, <2>3, <2>4 DEF SweepRead
  <2> QED BY <1>2, <2>1, <2>5, <2>6, <2>7
<1>11. CASE ExecuteWalletRecovery(p)
  <2>1. call[p] \in RecoveryCall /\ call[p].pc = "MOVE" /\ recovery' = recovery
    BY <1>0, <1>11, Shapes DEF ExecuteWalletRecovery
  <2>2. PICK c : c = [call[p] EXCEPT !.pc = "NEXT", !.sent = TRUE]
    OBVIOUS
  <2>3. c \in RecoveryCall /\ c.request = call[p].request /\ c.new = call[p].new
    BY <2>1, <2>2 DEF RecoveryCall
  <2>4. call' = [call EXCEPT ![p] = c] \/ Step(p, "FAILED")
    BY <1>0, <1>11, <2>2 DEF ExecuteWalletRecovery, CallsOk
  <2> QED BY <1>2, <1>3, <2>1, <2>3, <2>4
<1>12. CASE SweepFails(p) \/ Relink(p) \/ RecoveryFailed(p)
  <2>1. call[p].pc \in {"NEXT", "COMPLETE", "FAILED"} /\ recovery' = recovery
    BY <1>12 DEF SweepFails, Relink, RecoveryFailed, assetVars
  <2>2. call[p] \in RecoveryCall
    BY <1>0, <2>1, Shapes
  <2>3. \E pc \in {"NEXT", "COMPLETE", "FAILED", "REJECT"} : Step(p, pc)
    BY <1>12 DEF SweepFails, Relink, RecoveryFailed
  <2> QED BY <1>3, <2>1, <2>2, <2>3
<1>13. \A t \in Tokens : 0 .. Holding[t] \subseteq Nat /\ {t} \in SUBSET Tokens
  OBVIOUS
<1> QED
  BY <1>4, <1>5, <1>6, <1>7, <1>8, <1>9, <1>10, <1>11, <1>12, <1>13 DEF RecoveryNext

LEMMA IndexerGoesOn ==
  ASSUME IInv, OneTruthfulCall, calm', HandleIdentityUpdated
  PROVE  OneTruthfulCall'
<1> USE DEF IInv
<1>0. Indexer \in Procs /\ user \in Row /\ UNCHANGED <<user, registry, container, recovery>>
  BY DEF Procs, RowOk, HandleIdentityUpdated, assetVars
<1>1. CASE UNCHANGED call
  <2>1. \A p \in Procs : Resting(p)' <=> Resting(p)
    BY <1>1 DEF Resting
  <2>2. ASSUME NEW p \in Procs, ~Resting(p)
        PROVE  Truthful(p, call[p])'
    <3>1. PICK c : c = call[p]
      OBVIOUS
    <3>2. p # Indexer
      BY <2>2 DEF HandleIdentityUpdated, Resting
    <3>3. Truthful(p, c) /\ c.op # "SYNC"
      BY <2>2, <3>1, <3>2 DEF OneTruthfulCall, Truthful
    <3>4. Truthful(p, c)'
      BY <1>0, <3>2, <3>3 DEF Truthful, RowRead, OwnPlace, LinkRead, FromHome, RequestRead
    <3>5. call'[p] = c
      BY <1>1, <3>1
    <3> QED BY <3>4, <3>5
  <2> QED BY <2>1, <2>2 DEF OneTruthfulCall
<1>2. CASE call' # call
  <2>1. PICK c : c = Entity("SYNC", "SELECT", [user EXCEPT !.verified = Head(events).verified])
    OBVIOUS
  <2>2. /\ Begin(Indexer, c) /\ events' = events /\ events # <<>> /\ user.wallet = Head(events).wallet
    BY <1>2, <2>1 DEF HandleIdentityUpdated
  <2>3. PICK row : row = [user EXCEPT !.verified = Head(events).verified]
    OBVIOUS
  <2>4. row.wallet = user.wallet /\ row.verified = Head(events).verified
    BY <1>0, <2>3 DEF Row
  <2>5. c.op = "SYNC" /\ c.pc = "SELECT" /\ c.mine = row
    BY <2>1, <2>3, NewEntityFields
  <2>6. Truthful(Indexer, c)'
    BY <1>0, <2>2, <2>4, <2>5 DEF Truthful, RowRead, OwnPlace, EventRead
  <2>7. CallGoesOn(Indexer)
    <3>1. call' = [call EXCEPT ![Indexer] = c] /\ Alone
      BY <2>2 DEF Begin
    <3> QED BY <2>6, <3>1 DEF CallGoesOn
  <2> QED BY <1>0, <2>7, GoesOnAlone
<1> QED BY <1>1, <1>2

LEMMA NobodyRuns ==
  ASSUME \A p \in Procs : Resting(p)'
  PROVE  OneTruthfulCall'
BY DEF OneTruthfulCall

LEMMA OneCallStep ==
  ASSUME IInv, ContainerOk, OneTruthfulCall, calm', [Next]_vars
  PROVE  OneTruthfulCall'
<1> USE DEF IInv
<1>1. ASSUME NEW p \in Clerks, DecisionNext(p) \/ WalletNext(p)
      PROVE  OneTruthfulCall'
  <2>1. CallGoesOn(p)
    BY <1>1, ClerkBegins, ClerkSteps DEF DecisionNext, WalletNext
  <2> QED BY <2>1, GoesOnAlone DEF Procs
<1>2. ASSUME NEW p \in Operators, RecoveryNext(p)
      PROVE  OneTruthfulCall'
  BY <1>2, OperatorGoesOn, GoesOnAlone DEF Procs
<1>3. ASSUME NEW p \in Procs, SaveSelect(p) \/ SaveWrite(p) \/ SaveFails(p)
      PROVE  OneTruthfulCall'
  BY <1>3, SaveGoesOn, GoesOnAlone
<1>4. ASSUME NEW r \in Recoveries, NEW new \in Wallets \cup {None}, CreateRequest(r, new)
      PROVE  OneTruthfulCall'
  BY <1>4, NobodyRuns DEF CreateRequest, Alone, Resting
<1>5. CASE HandleIdentityUpdated
  BY <1>5, IndexerGoesOn
<1>6. CASE Crash
  BY <1>6, NobodyRuns DEF Crash, Resting
<1>7. CASE UNCHANGED vars
  <2>1. \A p \in Procs : Truthful(p, call[p]) => Truthful(p, call[p])'
    BY <1>7 DEF vars, Truthful, RowRead, OwnPlace, LinkRead, FromHome, EventRead, RequestRead
  <2> QED BY <1>7, <2>1 DEF vars, OneTruthfulCall, Resting
<1> QED BY <1>1, <1>2, <1>3, <1>4, <1>5, <1>6, <1>7 DEF Next

\* What is no longer calm never is again.
LEMMA CalmBefore ==
  ASSUME [Next]_vars, calm'
  PROVE  calm
BY DEF Next, vars, DecisionNext, WalletNext, RecoveryNext, Decide, Handle, Review, DecideRegister,
   HandleKyc, HandleWrite, HandleRegister, HandleCommit, UpdatePartnerStatus, PartnerRegister,
   ReviewSave, Freeze, FreezeToggle, SubmitKyc, SubmitKycSave, SyncWalletAddress, SyncPrivyWallet,
   SaveProfile, ProvisionMobileWallet, ProvisionPick, PrivyFails, SubmitVerification,
   ApproveAndExecute, VerificationSave, GenerateEmbeddedWallet, EnsureWalletWhitelisted, SweepRead,
   ExecuteWalletRecovery, SweepFails, Relink, RecoveryComplete, RecoveryFailed, RecoveryReject,
   SaveSelect, SaveWrite, SaveFails, CreateRequest, HandleIdentityUpdated, Crash, Begin

LEMMA CalmStep ==
  ASSUME IInv, ContainerOk, CalmInv, [Next]_vars
  PROVE  CalmInv'
<1>1. NewsIsTrue' /\ TokensFromHome'
  BY NewsStep, TokensStay DEF CalmInv
<1>2. ASSUME calm'
      PROVE  OneTruthfulCall' /\ HoldingsAsked' /\ HomeKept'
  <2>1. OneTruthfulCall /\ HoldingsAsked /\ HomeKept /\ NewsIsTrue
    BY <1>2, CalmBefore DEF CalmInv
  <2> QED BY <1>2, <2>1, OneCallStep, HoldingsStep, HomeStep
<1> QED BY <1>1, <1>2 DEF CalmInv

\* While calls do not overlap, no event is lost and the user keeps its wallet,
\* every token is in the user's wallet or one a request names, and the row says
\* of the first wallet what the registry does, whatever fails or crashes half
\* way (approveKyc, handleKycAction, approveAndExecute, handleIdentityUpdated).
THEOREM CalmCallsAgree == Spec => []CalmAgrees
<1> DEFINE Inv == TypesInv /\ CalmInv
<1>1. Init => Inv
  BY TypesInit, CalmInit
<1>2. Inv /\ [Next]_vars => Inv'
  <2>1. TypesInv => IInv /\ ContainerOk
    BY DEF TypesInv
  <2> QED BY <2>1, TypesStep, CalmStep
<1>3. Inv => CalmAgrees
  BY CalmSuffices DEF TypesInv
<1> QED BY <1>1, <1>2, <1>3, PTL DEF Spec
=============================================================================
