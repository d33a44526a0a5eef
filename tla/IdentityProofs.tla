--------------------------- MODULE IdentityProofs ---------------------------
(***************************************************************************)
(* Safety of Identity for every set of requests, customers and accounts,   *)
(* every workload, fault model and discipline: types, where a request can  *)
(* be, and what holds however requests overlap.                            *)
(***************************************************************************)
EXTENDS Identity, TLAPS, FiniteSetTheorems

-----------------------------------------------------------------------------
(* What the requests are, and which variables a step can change.           *)

\* The statements a request can await, by what it asks for.
PinStepName == {"pinFind", "pinCheck", "pinSelect", "pinCompare", "pinUpdate"}

SavedStepName == {"addFind", "addInsert", "changeFind", "useFind", "changeSave"}

WalletStepName == {"createWallet", "spendFind", "spendReset", "record", "upgradeFind",
                   "upgradeSave"}

KycStepName == {"submitFind", "submitInsert", "submitSave", "reviewFind", "reviewSave",
                "userUpdate", "accountsFind", "nextFind", "nextSave"}

UserStepName == {"registerFind", "create", "tokenUpdate", "loginFind", "refreshFind",
                 "logoutUpdate", "activeFind", "activeSave"}

Awaited == {"authenticate"} \cup PinStepName \cup SavedStepName \cup WalletStepName
            \cup KycStepName \cup UserStepName

\* Every request asks for what the workload says and awaits some statement.
Located == job \in Workload /\ pc \in [Request -> {"new"} \cup Answered \cup Awaited]

LEMMA JobFields ==
    ASSUME Located, NEW r \in Request
    PROVE  /\ job[r].kind \in Kind
           /\ job[r].user \in User
           /\ job[r].account \in Account
           /\ job[r].tier \in Tier
           /\ job[r].amount \in Nat
           /\ job[r].pin \in Pin
           /\ job[r].newPin \in Pin
           /\ Whom(r) \in User
<1>1. job[r] \in JobType
  BY WorkloadAssumption DEF Located
<1> QED BY <1>1, HolderAssumption DEF JobType, Whom

LEMMA FirstStepType == \A kind \in Kind : FirstStep[kind] \in Awaited
BY DEF FirstStep, Kind, CustomerKind, OtherKind, Awaited, PinStepName, SavedStepName,
   WalletStepName, KycStepName, UserStepName

\* What is not itself a step of a service is one of these.
LEMMA Cases ==
    ASSUME [Next]_identity
    PROVE  \/ \E r \in Request :
               \/ Arrive(r) /\ UNCHANGED <<users, wallets, submission, entry, pins, beneficiaries>>
               \/ UsersStep(r) /\ UNCHANGED <<wallets, submission, entry, pins, beneficiaries>>
               \/ WalletsStep(r) /\ UNCHANGED <<users, submission, entry, pins, beneficiaries>>
               \/ KycStep(r) /\ UNCHANGED <<pins, beneficiaries>>
               \/ PinStep(r) /\ UNCHANGED <<users, wallets, submission, entry, beneficiaries>>
               \/ TryAgain(r) /\ UNCHANGED <<users, wallets, submission, entry, beneficiaries>>
               \/ BeneficiariesStep(r)
                   /\ UNCHANGED <<users, wallets, submission, entry, pins>>
               \/ AuditStep(r)
                   /\ UNCHANGED <<requests, users, wallets, submission, pins, beneficiaries>>
               \/ FailRequest(r)
           \/ MonthPasses /\ UNCHANGED <<users, submission, entry, pins, beneficiaries>>
           \/ LockExpires /\ UNCHANGED <<users, wallets, submission, entry, beneficiaries>>
           \/ PurgeOldAuditLogs
               /\ UNCHANGED <<requests, users, wallets, submission, pins, beneficiaries>>
           \/ Restart
           \/ UNCHANGED identity
BY DEF Next

LEMMA LocatedNext == Located /\ [Next]_identity => Located'
<1> SUFFICES ASSUME Located, [Next]_identity PROVE Located'
  OBVIOUS
<1> USE DEF Located, At, Goto, requests, Answered, Awaited, PinStepName, SavedStepName,
        WalletStepName, KycStepName, UserStepName
<1>1. ASSUME NEW r \in Request, Arrive(r) PROVE Located'
  BY <1>1, JobFields, FirstStepType DEF Arrive
<1>2. ASSUME NEW r \in Request, UsersStep(r) PROVE Located'
  <2>1. CASE Authenticate(r)
    BY <2>1, JobFields, FirstStepType DEF Authenticate
  <2>2. CASE RegisterFind(r) \/ CreateUser(r) \/ LoginFind(r) \/ RefreshFind(r)
    BY <2>2 DEF RegisterFind, CreateUser, LoginFind, RefreshFind
  <2>3. CASE TokenUpdate(r) \/ Logout(r) \/ ActiveFind(r) \/ ActiveSave(r)
    BY <2>3 DEF TokenUpdate, Logout, ActiveFind, ActiveSave
  <2> QED BY <1>2, <2>1, <2>2, <2>3 DEF UsersStep
<1>3. ASSUME NEW r \in Request, WalletsStep(r) PROVE Located'
  BY <1>3 DEF WalletsStep, CreateForAccount, SpendFind, SpendReset, Validated, RecordSpend,
     UpgradeTier, TierFind, TierSave
<1>4. ASSUME NEW r \in Request, KycStep(r) PROVE Located'
  <2>1. CASE SubmitFind(r) \/ SubmitInsert(r) \/ SubmitSave(r) \/ ReviewFind(r)
    BY <2>1 DEF SubmitFind, SubmitInsert, SubmitSave, ReviewFind
  <2>2. CASE ReviewSave(r) \/ UserUpdate(r) \/ AccountsFind(r)
    BY <2>2 DEF ReviewSave, UserUpdate, AccountsFind, Proceed
  <2>3. CASE NextFind(r) \/ NextSave(r) \/ UpgradeFails(r)
    BY <2>3 DEF NextFind, NextSave, UpgradeFails, Proceed, TierFind
  <2> QED BY <1>4, <2>1, <2>2, <2>3 DEF KycStep
<1>5. ASSUME NEW r \in Request, PinStep(r) \/ TryAgain(r) PROVE Located'
  BY <1>5 DEF PinStep, PinFind, PinCheck, PinSelect, PinCompare, PinUpdate, TryAgain
<1>6. ASSUME NEW r \in Request, BeneficiariesStep(r) PROVE Located'
  BY <1>6 DEF BeneficiariesStep, AddFind, AddInsert, ChangeFind, UseFind, ChangeSave, Take
<1>7. ASSUME NEW r \in Request, FailRequest(r) PROVE Located'
  BY <1>7 DEF FailRequest, Fail
<1>8. ASSUME Restart PROVE Located'
  BY <1>8 DEF Restart, Crash
<1>9. ASSUME UNCHANGED requests PROVE Located'
  BY <1>9
<1>10. MonthPasses \/ LockExpires \/ UNCHANGED identity => UNCHANGED requests
  BY DEF MonthPasses, LockExpires, identity
<1> QED BY Cases, <1>1, <1>2, <1>3, <1>4, <1>5, <1>6, <1>7, <1>8, <1>9, <1>10

-----------------------------------------------------------------------------
(* A request is only at the statements of its kind, and only Arrive sets    *)
(* out.                                                                     *)

\* The kinds of request that reach a statement.
Fits(kind, step) ==
    /\ step = "authenticate" => kind \in CustomerKind
    /\ step \in {"registerFind", "create"} => kind = "register"
    /\ step = "loginFind" => kind = "login"
    /\ step = "refreshFind" => kind = "refresh"
    /\ step = "tokenUpdate" => kind \in {"register", "login", "refresh"}
    /\ step = "logoutUpdate" => kind = "logout"
    /\ step \in {"activeFind", "activeSave"} => kind \in {"activate", "deactivate"}
    /\ step \in {"submitFind", "submitInsert", "submitSave"} => kind = "submit"
    /\ step \in {"reviewFind", "reviewSave", "userUpdate"} => kind \in {"approve", "reject"}
    /\ step \in {"accountsFind", "nextFind", "nextSave"} => kind = "approve"
    /\ step \in {"upgradeFind", "upgradeSave"} => kind = "upgrade"
    /\ step = "createWallet" => kind = "createWallet"
    /\ step \in {"spendFind", "spendReset", "record"} => kind = "spend"
    /\ step = "pinFind" => kind = "setPin"
    /\ step \in {"pinCheck", "pinSelect", "pinCompare"} => kind \in {"changePin", "verifyPin"}
    /\ step = "pinUpdate" => kind \in {"setPin", "changePin"}
    /\ step \in {"addFind", "addInsert"} => kind = "add"
    /\ step = "changeFind" => kind \in {"update", "remove"}
    /\ step = "useFind" => kind = "use"
    /\ step = "changeSave" => kind \in {"update", "remove", "use"}

\* Where a request is says what it is.
ControlInv == Located /\ \A r \in Request : Fits(job[r].kind, pc[r])

\* Nobody's request changes, and nobody but an arriving request sets out.
Onward == job' = job /\ \A s \in Request : InFlight(s)' => InFlight(s)

LEMMA FirstStepFits == \A kind \in Kind : Fits(kind, FirstStep[kind])
BY DEF FirstStep, Kind, CustomerKind, OtherKind, Fits

LEMMA MovesFit ==
    ASSUME ControlInv, NEW r \in Request, NEW x, Goto(r, x), Fits(job[r].kind, x), Located'
    PROVE  ControlInv'
BY DEF ControlInv, Goto, Located

LEMMA MovesOnward ==
    ASSUME Located, NEW r \in Request, NEW x, Goto(r, x), InFlight(r) \/ x \in {"new"} \cup Answered
    PROVE  Onward
BY DEF Located, Goto, Onward, InFlight

LEMMA ControlInit == IdentityInit => ControlInv
BY DEF IdentityInit, RequestsInit, ControlInv, Located, Fits

LEMMA ControlNext ==
    ASSUME ControlInv, [Next]_identity
    PROVE  /\ ControlInv'
           /\ (\E r \in Request : Arrive(r)) \/ Onward
<1>0. Located /\ Located'
  BY LocatedNext DEF ControlInv
<1> USE <1>0 DEF At, requests
<1> DEFINE Kept == ControlInv' /\ Onward
<1>m. ASSUME NEW r \in Request, NEW x, Goto(r, x), Fits(job[r].kind, x),
             InFlight(r) \/ x \in {"new"} \cup Answered
      PROVE Kept
  BY <1>m, MovesFit, MovesOnward
<1>f. ASSUME NEW r \in Request PROVE Fits(job[r].kind, pc[r]) /\ job[r].kind \in Kind
  BY JobFields DEF ControlInv
<1> HIDE DEF Kept
<1> USE DEF Fits, Answered, InFlight
<1>1. ASSUME NEW r \in Request, Arrive(r) PROVE ControlInv'
  <2>1. CASE job[r].kind \in CustomerKind
    BY <1>1, <2>1, MovesFit DEF Arrive
  <2>2. CASE job[r].kind \notin CustomerKind
    BY <1>1, <2>2, <1>f, FirstStepFits, MovesFit DEF Arrive
  <2> QED BY <2>1, <2>2
<1>2. ASSUME NEW r \in Request, UsersStep(r) PROVE Kept
  <2>1. CASE Authenticate(r)
    <3>1. InFlight(r) /\ job[r].kind \in Kind
      BY <2>1, <1>f DEF Authenticate
    <3>2. Goto(r, FirstStep[job[r].kind]) \/ Goto(r, "refused")
      BY <2>1 DEF Authenticate
    <3> QED BY <3>1, <3>2, FirstStepFits, <1>m
  <2>2. CASE RegisterFind(r) \/ CreateUser(r) \/ LoginFind(r) \/ RefreshFind(r)
    BY <2>2, <1>m, <1>f DEF RegisterFind, CreateUser, LoginFind, RefreshFind
  <2>3. CASE TokenUpdate(r) \/ Logout(r) \/ ActiveFind(r) \/ ActiveSave(r)
    BY <2>3, <1>m, <1>f DEF TokenUpdate, Logout, ActiveFind, ActiveSave
  <2> QED BY <1>2, <2>1, <2>2, <2>3 DEF UsersStep
<1>3. ASSUME NEW r \in Request, WalletsStep(r) PROVE Kept
  <2>1. CASE CreateForAccount(r) \/ RecordSpend(r)
    BY <2>1, <1>m, <1>f DEF CreateForAccount, RecordSpend
  <2>2. CASE SpendFind(r) \/ SpendReset(r)
    BY <2>2, <1>m, <1>f DEF SpendFind, SpendReset, Validated
  <2>3. CASE UpgradeTier(r)
    BY <2>3, <1>m, <1>f DEF UpgradeTier, TierFind, TierSave
  <2> QED BY <1>3, <2>1, <2>2, <2>3 DEF WalletsStep
<1>4. ASSUME NEW r \in Request, KycStep(r) PROVE Kept
  <2>1. CASE SubmitFind(r) \/ SubmitInsert(r) \/ SubmitSave(r) \/ ReviewFind(r)
    BY <2>1, <1>m, <1>f DEF SubmitFind, SubmitInsert, SubmitSave, ReviewFind
  <2>2. CASE ReviewSave(r) \/ UserUpdate(r)
    BY <2>2, <1>m, <1>f DEF ReviewSave, UserUpdate, Approving
  <2>3. CASE AccountsFind(r) \/ NextSave(r)
    BY <2>3, <1>m, <1>f DEF AccountsFind, NextSave, Proceed
  <2>4. CASE NextFind(r) \/ UpgradeFails(r)
    BY <2>4, <1>m, <1>f DEF NextFind, UpgradeFails, Proceed, TierFind
  <2> QED BY <1>4, <2>1, <2>2, <2>3, <2>4 DEF KycStep
<1>5. ASSUME NEW r \in Request, PinStep(r) \/ TryAgain(r) PROVE Kept
  BY <1>5, <1>m, <1>f DEF PinStep, PinFind, PinCheck, PinSelect, PinCompare, PinUpdate, TryAgain
<1>6. ASSUME NEW r \in Request, BeneficiariesStep(r) PROVE Kept
  BY <1>6, <1>m, <1>f
     DEF BeneficiariesStep, AddFind, AddInsert, ChangeFind, UseFind, ChangeSave, Take
<1>7. ASSUME NEW r \in Request, FailRequest(r) PROVE Kept
  BY <1>7, <1>m DEF FailRequest, Fail
<1>8. ASSUME Restart PROVE Kept
  BY <1>8 DEF Restart, Crash, Kept, ControlInv, Onward, Located
<1>9. ASSUME UNCHANGED requests PROVE Kept
  BY <1>9 DEF Kept, ControlInv, Onward
<1>10. MonthPasses \/ LockExpires \/ UNCHANGED identity => UNCHANGED requests
  BY DEF MonthPasses, LockExpires, identity
<1>11. Kept \/ (ControlInv' /\ \E r \in Request : Arrive(r))
  BY Cases, <1>1, <1>2, <1>3, <1>4, <1>5, <1>6, <1>7, <1>8, <1>9, <1>10
<1> QED BY <1>11 DEF Kept

\* Requests about one customer that are in flight together are of one group.
ApartInv ==
    \A r, s \in Request :
        r # s /\ InFlight(r) /\ InFlight(s) /\ Whom(r) = Whom(s)
            => \E group \in Together : {job[r].kind, job[s].kind} \subseteq group

\* Requests of these kinds are in no group: they wait for the customer's others,
\* and those for them.
Queued(kinds) == \A group \in Together : kinds \cap group = {}

LEMMA ApartNext ==
    ASSUME ControlInv, ApartInv, [Next]_identity
    PROVE  ApartInv'
<1>1. CASE Onward
  BY <1>1 DEF Onward, ApartInv, Whom
<1>2. ASSUME NEW q \in Request, Arrive(q) PROVE ApartInv'
  <2>1. job' = job /\ \A s \in Request : s # q => pc'[s] = pc[s]
    BY <1>2 DEF Arrive, Goto, ControlInv, Located
  <2>2. \A s \in Request : s # q => (InFlight(s)' <=> InFlight(s))
    BY <2>1 DEF InFlight
  <2>3. \A s \in Request : Whom(s)' = Whom(s)
    BY <2>1 DEF Whom
  <2> SUFFICES ASSUME NEW r \in Request, NEW s \in Request, r # s,
                      InFlight(r)', InFlight(s)', Whom(r)' = Whom(s)'
               PROVE  \E group \in Together : {job'[r].kind, job'[s].kind} \subseteq group
    BY DEF ApartInv
  <2>4. CASE r = q
    BY <2>1, <2>2, <2>3, <2>4, <1>2 DEF Arrive, MayArrive
  <2>5. CASE s = q
    <3>1. \E group \in Together : {job[s].kind, job[r].kind} \subseteq group
      BY <2>2, <2>3, <2>5, <1>2 DEF Arrive, MayArrive
    <3> QED BY <2>1, <3>1
  <2>6. CASE r # q /\ s # q
    BY <2>1, <2>2, <2>3, <2>6 DEF ApartInv
  <2> QED BY <2>4, <2>5, <2>6
<1> QED BY <1>1, <1>2, ControlNext

\* The two together: what the other invariants are built on.
BaseInv == ControlInv /\ ApartInv

LEMMA BaseInit == IdentityInit => BaseInv
<1>1. IdentityInit => \A r \in Request : ~InFlight(r)
  BY DEF IdentityInit, RequestsInit, InFlight
<1> QED BY <1>1, ControlInit DEF BaseInv, ApartInv

LEMMA BaseNext == BaseInv /\ [Next]_identity => BaseInv'
BY ControlNext, ApartNext DEF BaseInv

\* A queued request is the only one about its customer in flight.
LEMMA QueuedAlone ==
    ASSUME BaseInv, NEW kinds, Queued(kinds), NEW r \in Request, job[r].kind \in kinds, InFlight(r),
           NEW s \in Request, InFlight(s), Whom(r) = Whom(s)
    PROVE  r = s
BY DEF BaseInv, ApartInv, Queued

-----------------------------------------------------------------------------
(* The steps of one service lead to its own statements, or out of all of   *)
(* them.                                                                    *)

\* The statements behind the first of a handler.
UserInner == {"create", "tokenUpdate", "activeSave"}
WalletInner == {"spendReset", "record", "upgradeSave"}
KycInner == {"submitInsert", "submitSave", "reviewSave", "userUpdate", "accountsFind", "nextFind",
             "nextSave"}
PinInner == {"pinSelect", "pinCompare", "pinUpdate"}
SavedInner == {"addInsert", "changeSave"}

Inner == UserInner \cup WalletInner \cup KycInner \cup PinInner \cup SavedInner

\* r awaits something outside of these statements afterwards.
Leads(r, steps) == job' = job /\ \E x : x \notin steps /\ pc' = [pc EXCEPT ![r] = x]

\* Nobody comes to one of these statements.
NoneEnters(steps) == job' = job /\ \A s \in Request : pc'[s] \in steps => pc'[s] = pc[s]

LEMMA LeadsOnly ==
    ASSUME Located, NEW r \in Request, NEW steps, Leads(r, steps)
    PROVE  NoneEnters(steps)
BY DEF Located, Leads, NoneEnters

\* r moves and nobody else.
OnlyMoves(r) == job' = job /\ \A s \in Request : s # r => pc'[s] = pc[s]

LEMMA LeadsMoves ==
    ASSUME ControlInv, NEW r \in Request, NEW steps, Leads(r, steps)
    PROVE  OnlyMoves(r) /\ NoneEnters(steps)
BY LeadsOnly DEF ControlInv, Located, Leads, OnlyMoves

LEMMA FirstStepOuter == \A kind \in Kind : FirstStep[kind] \notin Inner
BY DEF FirstStep, Kind, CustomerKind, OtherKind, UserInner, WalletInner, KycInner, PinInner,
   SavedInner, Inner

LEMMA UsersActor ==
    ASSUME ControlInv, NEW r \in Request, UsersStep(r)
    PROVE  /\ InFlight(r) /\ OnlyMoves(r) /\ NoneEnters(Inner \ UserInner)
           /\ job[r].kind \in CustomerKind \cup {"register", "login", "refresh", "activate",
                                                "deactivate"}
<1> USE DEF InFlight, Answered, At, Goto, UserInner, WalletInner, KycInner, PinInner, SavedInner,
            Inner
<1>1. InFlight(r) /\ Leads(r, Inner \ UserInner)
  <2>1. CASE Authenticate(r)
    <3>1. FirstStep[job[r].kind] \notin Inner
      BY JobFields, FirstStepOuter DEF ControlInv
    <3> QED BY <2>1, <3>1 DEF Authenticate, Leads
  <2>2. CASE ~Authenticate(r)
    BY <2>2 DEF UsersStep, RegisterFind, CreateUser, LoginFind, RefreshFind, TokenUpdate,
       Logout, ActiveFind, ActiveSave, Leads
  <2> QED BY <2>1, <2>2
<1>2. job[r].kind \in CustomerKind \cup {"register", "login", "refresh", "activate", "deactivate"}
  BY DEF UsersStep, Authenticate, RegisterFind, CreateUser, LoginFind, RefreshFind, TokenUpdate,
     Logout, ActiveFind, ActiveSave, ControlInv, Fits, CustomerKind
<1> QED BY <1>1, <1>2, LeadsMoves

LEMMA WalletsActor ==
    ASSUME ControlInv, NEW r \in Request, WalletsStep(r)
    PROVE  /\ InFlight(r) /\ OnlyMoves(r) /\ NoneEnters(Inner \ WalletInner)
           /\ job[r].kind \in {"upgrade", "createWallet", "spend"}
<1> USE DEF InFlight, Answered, At, Goto, UserInner, WalletInner, KycInner, PinInner, SavedInner,
            Inner
<1>1. InFlight(r) /\ Leads(r, Inner \ WalletInner)
  BY DEF WalletsStep, CreateForAccount, SpendFind, SpendReset, Validated, RecordSpend,
     UpgradeTier, TierFind, TierSave, Leads
<1>2. job[r].kind \in {"upgrade", "createWallet", "spend"}
  BY DEF WalletsStep, CreateForAccount, SpendFind, SpendReset, RecordSpend, UpgradeTier,
     ControlInv, Fits
<1> QED BY <1>1, <1>2, LeadsMoves

LEMMA KycActor ==
    ASSUME ControlInv, NEW r \in Request, KycStep(r)
    PROVE  /\ InFlight(r) /\ OnlyMoves(r) /\ NoneEnters(Inner \ KycInner)
           /\ job[r].kind \in {"submit", "approve", "reject"}
<1> USE DEF InFlight, Answered, At, Goto, UserInner, WalletInner, KycInner, PinInner, SavedInner,
            Inner
<1> DEFINE Acts == InFlight(r) /\ Leads(r, Inner \ KycInner)
<1>1. CASE AccountsFind(r) \/ NextSave(r)
  <2>1. Acts
    BY <1>1 DEF AccountsFind, NextSave, Proceed, Leads
  <2> QED BY <1>1, <2>1, LeadsMoves DEF AccountsFind, NextSave, ControlInv, Fits
<1>2. CASE NextFind(r) \/ UpgradeFails(r)
  <2>1. Acts
    BY <1>2 DEF NextFind, UpgradeFails, Proceed, TierFind, Leads
  <2> QED BY <1>2, <2>1, LeadsMoves DEF NextFind, UpgradeFails, ControlInv, Fits
<1>3. CASE SubmitFind(r) \/ SubmitInsert(r) \/ SubmitSave(r)
  <2>1. Acts
    BY <1>3 DEF SubmitFind, SubmitInsert, SubmitSave, Leads
  <2> QED BY <1>3, <2>1, LeadsMoves DEF SubmitFind, SubmitInsert, SubmitSave, ControlInv, Fits
<1>4. CASE ReviewFind(r) \/ ReviewSave(r) \/ UserUpdate(r)
  <2>1. Acts
    BY <1>4 DEF ReviewFind, ReviewSave, UserUpdate, Leads
  <2> QED BY <1>4, <2>1, LeadsMoves DEF ReviewFind, ReviewSave, UserUpdate, ControlInv, Fits
<1> QED BY <1>1, <1>2, <1>3, <1>4 DEF KycStep

LEMMA PinActor ==
    ASSUME ControlInv, NEW r \in Request, PinStep(r)
    PROVE  /\ InFlight(r) /\ OnlyMoves(r) /\ NoneEnters(Inner \ PinInner)
           /\ job[r].kind \in {"setPin", "changePin", "verifyPin"}
<1> USE DEF InFlight, Answered, At, Goto, UserInner, WalletInner, KycInner, PinInner, SavedInner,
            Inner
<1>1. InFlight(r) /\ Leads(r, Inner \ PinInner)
  BY DEF PinStep, PinFind, PinCheck, PinSelect, PinCompare, PinUpdate, Leads
<1>2. job[r].kind \in {"setPin", "changePin", "verifyPin"}
  BY DEF PinStep, PinFind, PinCheck, PinSelect, PinCompare, PinUpdate, ControlInv, Fits
<1> QED BY <1>1, <1>2, LeadsMoves

LEMMA BeneficiariesActor ==
    ASSUME ControlInv, NEW r \in Request, BeneficiariesStep(r)
    PROVE  /\ InFlight(r) /\ OnlyMoves(r) /\ NoneEnters(Inner \ SavedInner)
           /\ job[r].kind \in {"add", "update", "remove", "use"}
<1> USE DEF InFlight, Answered, At, Goto, UserInner, WalletInner, KycInner, PinInner, SavedInner,
            Inner
<1>1. InFlight(r) /\ Leads(r, Inner \ SavedInner)
  BY DEF BeneficiariesStep, AddFind, AddInsert, ChangeFind, UseFind, ChangeSave, Take, Leads
<1>2. job[r].kind \in {"add", "update", "remove", "use"}
  BY DEF BeneficiariesStep, AddFind, AddInsert, ChangeFind, UseFind, ChangeSave, ControlInv, Fits
<1> QED BY <1>1, <1>2, LeadsMoves

\* Setting out, trying again, failing.
LEMMA OtherActor ==
    ASSUME ControlInv, NEW r \in Request
    PROVE  /\ Arrive(r) => /\ OnlyMoves(r) /\ NoneEnters(Inner) /\ pc[r] = "new"
                           /\ pc'[r] \notin {"new"} \cup Answered
           /\ TryAgain(r) => /\ OnlyMoves(r) /\ NoneEnters(Inner) /\ job[r].kind = "verifyPin"
                             /\ pc[r] \in Answered /\ pc'[r] = "new"
           /\ FailRequest(r) => /\ OnlyMoves(r) /\ NoneEnters(Inner) /\ InFlight(r)
                                /\ pc'[r] = "error"
<1>1. job[r].kind \in Kind /\ Located
  BY JobFields DEF ControlInv
<1>2. FirstStep[job[r].kind] \notin {"new"} \cup Answered \cup Inner
  BY <1>1, FirstStepType, FirstStepOuter DEF Awaited, PinStepName, SavedStepName, WalletStepName,
     KycStepName, UserStepName, Answered
<1> USE DEF Goto, At
<1>3. Arrive(r) \/ TryAgain(r) \/ FailRequest(r) => Leads(r, Inner)
  BY <1>2 DEF Arrive, TryAgain, FailRequest, Fail, Leads, UserInner, WalletInner, KycInner,
     PinInner, SavedInner, Inner
<1>4. Arrive(r) \/ TryAgain(r) \/ FailRequest(r) => OnlyMoves(r) /\ NoneEnters(Inner)
  BY <1>3, LeadsMoves
<1> QED BY <1>1, <1>2, <1>4 DEF Located, Arrive, TryAgain, FailRequest, Fail, Answered

\* A restart takes nobody further, and timers leave the requests alone.
LEMMA NoActor ==
    ASSUME ControlInv
    PROVE  /\ Restart => /\ NoneEnters(Inner)
                         /\ \A s \in Request :
                                pc'[s] = IF InFlight(s) THEN "lost" ELSE pc[s]
           /\ MonthPasses \/ LockExpires \/ UNCHANGED identity => UNCHANGED requests
           /\ UNCHANGED requests => NoneEnters(Inner)
BY DEF ControlInv, Located, Restart, Crash, NoneEnters, MonthPasses, LockExpires, identity,
   requests, UserInner, WalletInner, KycInner, PinInner, SavedInner, Inner

LEMMA EntersLess ==
    ASSUME NEW few, NEW many, few \subseteq many, NoneEnters(many)
    PROVE  NoneEnters(few)
BY DEF NoneEnters

\* Into the statements of a service lead only its own steps.
LEMMA Entrances ==
    ASSUME ControlInv, [Next]_identity
    PROVE  /\ (\E r \in Request : UsersStep(r)) \/ NoneEnters(UserInner)
           /\ (\E r \in Request : WalletsStep(r)) \/ NoneEnters(WalletInner)
           /\ (\E r \in Request : KycStep(r)) \/ NoneEnters(KycInner)
           /\ (\E r \in Request : PinStep(r)) \/ NoneEnters(PinInner)
           /\ (\E r \in Request : BeneficiariesStep(r)) \/ NoneEnters(SavedInner)
<1>1. \A S \in {UserInner, WalletInner, KycInner, PinInner, SavedInner} : S \subseteq Inner
  BY DEF Inner
<1>2. \A S, T \in {UserInner, WalletInner, KycInner, PinInner, SavedInner} :
        S = T \/ S \subseteq Inner \ T
  BY DEF Inner, UserInner, WalletInner, KycInner, PinInner, SavedInner
<1>3. ASSUME NEW S \in {UserInner, WalletInner, KycInner, PinInner, SavedInner}
      PROVE  \/ NoneEnters(S)
             \/ S = UserInner /\ \E r \in Request : UsersStep(r)
             \/ S = WalletInner /\ \E r \in Request : WalletsStep(r)
             \/ S = KycInner /\ \E r \in Request : KycStep(r)
             \/ S = PinInner /\ \E r \in Request : PinStep(r)
             \/ S = SavedInner /\ \E r \in Request : BeneficiariesStep(r)
  BY Cases, UsersActor, WalletsActor, KycActor, PinActor, BeneficiariesActor, OtherActor, NoActor,
     EntersLess, <1>1, <1>2
<1>4. /\ UserInner \notin {WalletInner, KycInner, PinInner, SavedInner}
      /\ WalletInner \notin {KycInner, PinInner, SavedInner}
      /\ KycInner \notin {PinInner, SavedInner} /\ PinInner # SavedInner
  BY DEF UserInner, WalletInner, KycInner, PinInner, SavedInner
<1> QED BY <1>3, <1>4

-----------------------------------------------------------------------------
(* Type correctness.                                                       *)

LEMMA NoUserType == NoUser \in UserRow
BY DEF NoUser, UserRow, KycStatus

LEMMA UsersTypeNext == Located /\ UsersTypeOK /\ [Next]_identity => UsersTypeOK'
<1> SUFFICES ASSUME Located, UsersTypeOK, [Next]_identity PROVE UsersTypeOK'
  OBVIOUS
<1> USE NoUserType DEF UsersTypeOK, users
<1>j. ASSUME NEW r \in Request PROVE Whom(r) \in User
  BY JobFields
<1>1. ASSUME NEW r \in Request, UsersStep(r) PROVE UsersTypeOK'
  <2>1. CASE Authenticate(r) \/ RegisterFind(r) \/ LoginFind(r) \/ RefreshFind(r) \/ Logout(r)
    BY <2>1 DEF Authenticate, RegisterFind, LoginFind, RefreshFind, Logout
  <2>2. CASE CreateUser(r)
    <3>1. [NoUser EXCEPT !.registered = TRUE, !.isActive = TRUE] \in UserRow
      BY DEF NoUser, UserRow, KycStatus
    <3> QED BY <2>2, <3>1 DEF CreateUser
  <2>3. CASE TokenUpdate(r)
    BY <2>3 DEF TokenUpdate, SetUser, UserRow, KycStatus
  <2>4. CASE ActiveFind(r)
    <3>1. [user[Whom(r)] EXCEPT !.isActive = (job[r].kind = "activate")] \in UserRow
      BY <1>j DEF UserRow
    <3> QED BY <2>4, <3>1 DEF ActiveFind
  <2>5. CASE ActiveSave(r)
    BY <2>5 DEF ActiveSave
  <2> QED BY <1>1, <2>1, <2>2, <2>3, <2>4, <2>5 DEF UsersStep
<1>2. ASSUME NEW r \in Request, KycStep(r) PROVE UsersTypeOK'
  <2>1. CASE UserUpdate(r)
    BY <2>1, <1>j DEF UserUpdate, SetUser, UserRow, KycStatus
  <2>2. CASE ~UserUpdate(r)
    BY <1>2, <2>2 DEF KycStep, SubmitFind, SubmitInsert, SubmitSave, ReviewFind, ReviewSave,
       AccountsFind, NextFind, NextSave, UpgradeFails
  <2> QED BY <2>1, <2>2
<1>3. ASSUME NEW gone, DropMemory(gone) PROVE UsersTypeOK'
  BY <1>3 DEF DropMemory
<1>4. UNCHANGED users => UsersTypeOK'
  OBVIOUS
<1>5. \/ \E r \in Request : UsersStep(r) \/ KycStep(r)
      \/ \E gone : DropMemory(gone)
      \/ UNCHANGED users
  BY Cases DEF FailRequest, Restart, MonthPasses, LockExpires, PurgeOldAuditLogs, identity
<1> QED BY <1>1, <1>2, <1>3, <1>4, <1>5

LEMMA NoWalletType == NoWallet \in Wallet
BY DEF NoWallet, Wallet

\* The accounts an approval has yet to upgrade are the customer's, and there is
\* one as long as it upgrades.
TodoInv ==
    \A r \in Request :
        /\ todo[r] \subseteq {a \in Account : Holder[a] = Whom(r)}
        /\ pc[r] \in {"nextFind", "nextSave"} => todo[r] # {}

LEMMA CurrentType ==
    ASSUME NEW r \in Request, todo[r] # {}
    PROVE  Current(r) \in todo[r]
BY DEF Current

LEMMA TodoNext ==
    ASSUME ControlInv, todo \in [Request -> SUBSET Account], TodoInv, [Next]_identity
    PROVE  TodoInv'
<1> USE DEF TodoInv
<1>1. ASSUME NEW r \in Request, KycStep(r) PROVE TodoInv'
  <2>0. Located
    BY DEF ControlInv
  <2>w. job' = job => \A s \in Request : Whom(s)' = Whom(s)
    BY DEF Whom
  <2>p. ASSUME NEW accounts \in SUBSET {a \in Account : Holder[a] = Whom(r)}, Proceed(r, accounts)
        PROVE TodoInv'
    <3>1. job' = job /\ \A s \in Request : s # r => pc'[s] = pc[s] /\ todo'[s] = todo[s]
      BY <2>p, <2>0 DEF Proceed, Goto, Located
    <3>2. todo'[r] = accounts /\ (accounts = {} => pc'[r] = "ok")
      BY <2>p, <2>0 DEF Proceed, Goto, Located
    <3> QED BY <3>1, <3>2, <2>w
  <2>1. CASE AccountsFind(r)
    BY <2>1, <2>p DEF AccountsFind
  <2>2. CASE NextFind(r)
    <3>1. CASE Proceed(r, todo[r] \ {Current(r)})
      BY <3>1, <2>p
    <3>2. CASE /\ TierFind(r, Current(r), "standard", "nextSave", "nextSave")
               /\ At(r, "nextFind") /\ UNCHANGED todo
      <4>1. Goto(r, "nextSave") /\ todo[r] # {}
        BY <3>2 DEF TierFind, At
      <4> QED BY <3>2, <4>1, <2>0, <2>w DEF Goto, Located
    <3> QED BY <2>2, <3>1, <3>2 DEF NextFind
  <2>3. CASE NextSave(r) \/ UpgradeFails(r)
    BY <2>3, <2>p DEF NextSave, UpgradeFails
  <2>4. CASE SubmitFind(r) \/ SubmitInsert(r) \/ SubmitSave(r)
    BY <2>4, <2>0, <2>w DEF SubmitFind, SubmitInsert, SubmitSave, Goto, wallets, Located
  <2>5. CASE ReviewFind(r) \/ ReviewSave(r) \/ UserUpdate(r)
    BY <2>5, <2>0, <2>w DEF ReviewFind, ReviewSave, UserUpdate, Goto, wallets, Located
  <2> QED BY <1>1, <2>1, <2>2, <2>3, <2>4, <2>5 DEF KycStep
<1>2. CASE NoneEnters(KycInner) /\ todo' = todo
  BY <1>2 DEF NoneEnters, KycInner, Whom
<1>3. ASSUME NEW r \in Request, FailRequest(r) PROVE TodoInv'
  BY <1>3 DEF FailRequest, Fail, DropMemory, Goto, ControlInv, Located, Whom
<1>4. ASSUME Restart PROVE TodoInv'
  BY <1>4 DEF Restart, Crash, DropMemory, InFlight, Answered, Whom, ControlInv, Located
<1>5. \/ \E r \in Request : KycStep(r) \/ FailRequest(r)
      \/ Restart
      \/ todo' = todo
  <2>1. ASSUME NEW r \in Request, WalletsStep(r) PROVE todo' = todo
    BY <2>1 DEF WalletsStep, CreateForAccount, SpendFind, SpendReset, RecordSpend, UpgradeTier
  <2> QED BY Cases, <2>1 DEF MonthPasses, LockExpires, PurgeOldAuditLogs, identity, wallets
<1> QED BY <1>1, <1>2, <1>3, <1>4, <1>5, Entrances

LEMMA WalletsTypeNext ==
    ASSUME Located, TodoInv, WalletsTypeOK, [Next]_identity
    PROVE  WalletsTypeOK'
<1> USE NoWalletType DEF WalletsTypeOK, wallets
<1>j. ASSUME NEW r \in Request
      PROVE job[r].account \in Account /\ job[r].tier \in Tier /\ job[r].amount \in Nat
  BY JobFields
<1>t. ASSUME NEW w \in Wallet, NEW tier \in Tier PROVE [w EXCEPT !.tier = tier] \in Wallet
  BY DEF Wallet
<1>1. ASSUME NEW r \in Request, WalletsStep(r) PROVE WalletsTypeOK'
  <2>1. CASE CreateForAccount(r)
    <3>1. [NoWallet EXCEPT !.tier = "basic"] \in Wallet
      BY DEF NoWallet, Wallet, Tier
    <3> QED BY <2>1, <3>1, <1>j DEF CreateForAccount
  <2>2. CASE SpendFind(r)
    <3>1. [wallet[job[r].account] EXCEPT !.monthlySpend = 0, !.due = FALSE] \in Wallet
      BY <1>j DEF Wallet
    <3> QED BY <2>2, <3>1, <1>j DEF SpendFind, Validated, Hold
  <2>3. CASE SpendReset(r)
    BY <2>3, <1>j DEF SpendReset, Validated, Hold
  <2>4. CASE RecordSpend(r)
    <3> DEFINE a == job[r].account
    <3>1. /\ a \in Account /\ job[r].amount \in Nat
          /\ wallet[a].monthlySpend \in Nat /\ spent[a] \in Nat
      BY <1>j DEF Wallet
    <3>2. [wallet[a] EXCEPT !.monthlySpend = @ + job[r].amount] \in Wallet
      BY <3>1 DEF Wallet
    <3>3. wallet' = [wallet EXCEPT ![a] = [wallet[a] EXCEPT !.monthlySpend = @ + job[r].amount]]
      BY <2>4 DEF RecordSpend
    <3>4. wallet' \in [Account -> Wallet]
      BY <3>1, <3>2, <3>3
    <3>5. spent' \in [Account -> Nat]
      BY <2>4, <3>1 DEF RecordSpend
    <3> QED BY <2>4, <3>4, <3>5 DEF RecordSpend
  <2>5. CASE UpgradeTier(r)
    BY <2>5, <1>j, <1>t DEF UpgradeTier, TierFind, TierSave, Hold
  <2> QED BY <1>1, <2>1, <2>2, <2>3, <2>4, <2>5 DEF WalletsStep
<1>2. ASSUME NEW r \in Request, KycStep(r) PROVE WalletsTypeOK'
  <2> DEFINE rest == todo[r] \ {Current(r)}
  <2>p. ASSUME NEW accounts \in SUBSET Account, Proceed(r, accounts)
        PROVE todo' \in [Request -> SUBSET Account]
    BY <2>p DEF Proceed
  <2>r. rest \in SUBSET Account
    OBVIOUS
  <2> HIDE DEF rest
  <2>1. CASE AccountsFind(r)
    BY <2>1, <2>p DEF AccountsFind
  <2>2. CASE NextFind(r)
    <3>1. CASE Proceed(r, rest) /\ UNCHANGED <<wallet, loaded, inMonth, spent>>
      BY <3>1, <2>p, <2>r
    <3>2. CASE /\ TierFind(r, Current(r), "standard", "nextSave", "nextSave")
               /\ wallet[Current(r)].tier # "none" /\ UNCHANGED todo
      <4>1. loaded' = [loaded EXCEPT ![r] = [wallet[Current(r)] EXCEPT !.tier = "standard"]]
        BY <3>2 DEF TierFind, Hold
      <4>2. Current(r) \in Account /\ "standard" \in Tier
        BY <2>2, CurrentType DEF NextFind, At, TodoInv, Tier
      <4> QED BY <3>2, <4>1, <4>2, <1>t DEF TierFind
    <3> QED BY <2>2, <3>1, <3>2 DEF NextFind, rest
  <2>3. CASE NextSave(r)
    BY <2>3, <2>p, <2>r DEF NextSave, Hold, rest
  <2>4. CASE UpgradeFails(r)
    BY <2>4, <2>p, <2>r DEF UpgradeFails, Hold, rest
  <2>5. CASE UNCHANGED wallets
    BY <2>5
  <2> QED BY <1>2, <2>1, <2>2, <2>3, <2>4, <2>5
          DEF KycStep, SubmitFind, SubmitInsert, SubmitSave, ReviewFind, ReviewSave, UserUpdate
<1>3. ASSUME NEW gone, DropMemory(gone) PROVE WalletsTypeOK'
  BY <1>3 DEF DropMemory
<1>4. ASSUME MonthPasses PROVE WalletsTypeOK'
  BY <1>4 DEF MonthPasses, Wallet
<1>5. UNCHANGED wallets => WalletsTypeOK'
  OBVIOUS
<1>6. \/ \E r \in Request : WalletsStep(r) \/ KycStep(r)
      \/ \E gone : DropMemory(gone)
      \/ MonthPasses
      \/ UNCHANGED wallets
  BY Cases DEF FailRequest, Restart, LockExpires, PurgeOldAuditLogs, identity
<1> QED BY <1>1, <1>2, <1>3, <1>4, <1>5, <1>6

LEMMA KycTypeNext == Located /\ KycTypeOK /\ [Next]_identity => KycTypeOK'
<1> SUFFICES ASSUME Located, KycTypeOK, [Next]_identity PROVE KycTypeOK'
  OBVIOUS
<1> USE DEF KycTypeOK
<1>1. ASSUME NEW r \in Request, KycStep(r) PROVE KycTypeOK'
  <2>1. CASE SubmitInsert(r) \/ SubmitSave(r) \/ ReviewSave(r)
    BY <2>1 DEF SubmitInsert, SubmitSave, ReviewSave, SetSubmission, SubmissionStatus
  <2>2. CASE UNCHANGED submission
    BY <2>2
  <2> QED BY <1>1, <2>1, <2>2
          DEF KycStep, SubmitFind, ReviewFind, UserUpdate, AccountsFind, NextFind, NextSave,
              UpgradeFails
<1>2. (\E r \in Request : KycStep(r)) \/ UNCHANGED submission
  BY Cases DEF FailRequest, Restart, DropMemory, MonthPasses, LockExpires, PurgeOldAuditLogs,
     identity
<1> QED BY <1>1, <1>2

LEMMA PinTypeNext == Located /\ PinTypeOK /\ [Next]_identity => PinTypeOK'
<1> SUFFICES ASSUME Located, PinTypeOK, [Next]_identity PROVE PinTypeOK'
  OBVIOUS
<1> USE DEF PinTypeOK, pins, MAX_ATTEMPTS
<1>j. ASSUME NEW r \in Request
      PROVE Whom(r) \in User /\ job[r].pin \in Pin /\ job[r].newPin \in Pin
  BY JobFields
<1>c. ASSUME NEW u \in User, Clear(u), pin' \in [User -> Pin \cup {NoPin}],
             seen' \in [Request -> Pin \cup {NoPin}]
      PROVE PinTypeOK'
  BY <1>c DEF Clear
<1>1. ASSUME NEW r \in Request, PinStep(r) PROVE PinTypeOK'
  <2>1. CASE PinFind(r) \/ PinCheck(r)
    BY <2>1 DEF PinFind, PinCheck
  <2>2. CASE PinSelect(r)
    BY <2>2, <1>j DEF PinSelect, See
  <2>3. CASE PinCompare(r)
    <3>1. pin' = pin /\ seen' \in [Request -> Pin \cup {NoPin}]
      BY <2>3 DEF PinCompare, See
    <3>2. CASE Clear(Whom(r))
      BY <3>1, <3>2, <1>j, <1>c
    <3>3. CASE Miss(Whom(r))
      BY <3>1, <3>3, <1>j DEF Miss, Smaller
    <3> QED BY <2>3, <3>2, <3>3 DEF PinCompare
  <2>4. CASE PinUpdate(r)
    <3>1. seen' = seen /\ pin' \in [User -> Pin \cup {NoPin}]
      BY <2>4, <1>j DEF PinUpdate
    <3>2. CASE Clear(Whom(r))
      BY <3>1, <3>2, <1>j, <1>c
    <3> QED BY <2>4, <3>1, <3>2 DEF PinUpdate
  <2> QED BY <1>1, <2>1, <2>2, <2>3, <2>4 DEF PinStep
<1>2. ASSUME NEW r \in Request, FailRequest(r) PROVE PinTypeOK'
  BY <1>2 DEF FailRequest
<1>3. ASSUME Restart PROVE PinTypeOK'
  BY <1>3 DEF Restart, PinForgotten
<1>4. ASSUME LockExpires PROVE PinTypeOK'
  BY <1>4 DEF LockExpires
<1>5. \/ \E r \in Request : PinStep(r) \/ FailRequest(r)
      \/ Restart \/ LockExpires
      \/ UNCHANGED pins
  BY Cases DEF TryAgain, MonthPasses, PurgeOldAuditLogs, identity
<1> QED BY <1>1, <1>2, <1>3, <1>4, <1>5

\* An entry that waits for another attempt has not had the last one.
AuditInv == AuditTypeOK /\ \A r \in Request : entry[r].state = "waiting" => entry[r].attempt < MAX_RETRIES

LEMMA AuditNext == AuditInv /\ [Next]_identity => AuditInv'
<1> SUFFICES ASSUME AuditInv, [Next]_identity PROVE AuditInv'
  OBVIOUS
<1> USE DEF AuditInv, AuditTypeOK, MAX_RETRIES
<1>n. \A state \in AuditState \ {"waiting"} :
        LET e == [NoEntry EXCEPT !.state = state] IN e \in Entry /\ e.state = state
  BY DEF NoEntry, Entry
<1>l. ASSUME NEW r \in Request, Log(r) PROVE AuditInv'
  <2>1. [entry[r] EXCEPT !.state = "saving"] \in Entry
    BY DEF Entry, AuditState
  <2> QED BY <1>l, <2>1 DEF Log
<1>1. ASSUME NEW r \in Request, KycStep(r) PROVE AuditInv'
  <2>1. Log(r) \/ UNCHANGED entry
    BY <1>1 DEF KycStep, SubmitFind, SubmitInsert, SubmitSave, ReviewFind, ReviewSave, UserUpdate,
       AccountsFind, NextFind, NextSave, UpgradeFails, Proceed
  <2> QED BY <1>l, <2>1
<1>2. ASSUME NEW r \in Request, AuditStep(r) PROVE AuditInv'
  <2>s. ASSUME NEW state \in {"stored", "givenUp"}, Settle(r, state) PROVE AuditInv'
    BY <2>s, <1>n DEF Settle, AuditState
  <2>1. CASE AuditStored(r)
    BY <2>1, <2>s DEF AuditStored
  <2>2. CASE AuditRejected(r)
    <3>1. CASE entry[r].attempt < MAX_RETRIES
      <4> DEFINE idle == [entry[r] EXCEPT !.state = "waiting"]
      <4>1. idle \in Entry /\ idle.attempt = entry[r].attempt
        BY DEF Entry, AuditState
      <4>2. entry' = [entry EXCEPT ![r] = idle]
        BY <2>2, <3>1 DEF AuditRejected
      <4> QED BY <3>1, <4>1, <4>2
    <3>2. CASE ~(entry[r].attempt < MAX_RETRIES)
      BY <2>2, <3>2, <2>s DEF AuditRejected
    <3> QED BY <3>1, <3>2
  <2>3. CASE AuditRetry(r)
    <3> DEFINE again == [entry[r] EXCEPT !.state = "saving", !.attempt = @ + 1]
    <3>1. again \in Entry
      BY <2>3 DEF AuditRetry, Entry, AuditState
    <3>2. again.state = "saving"
      BY DEF Entry
    <3>3. entry' = [entry EXCEPT ![r] = again]
      BY <2>3 DEF AuditRetry
    <3> QED BY <3>1, <3>2, <3>3
  <2> QED BY <1>2, <2>1, <2>2, <2>3 DEF AuditStep
<1>3. ASSUME Restart PROVE AuditInv'
  BY <1>3, <1>n DEF Restart, AuditLost, AuditState
<1>4. ASSUME PurgeOldAuditLogs PROVE AuditInv'
  BY <1>4, <1>n DEF PurgeOldAuditLogs, AuditState
<1>5. \/ \E r \in Request : KycStep(r) \/ AuditStep(r)
      \/ Restart \/ PurgeOldAuditLogs
      \/ UNCHANGED entry
  BY Cases DEF FailRequest, MonthPasses, LockExpires, identity
<1> QED BY <1>1, <1>2, <1>3, <1>4, <1>5

LEMMA UnsavedType ==
    ASSUME Located, NEW r \in Request
    PROVE  Unsaved(r) \in BeneficiaryRow
BY JobFields DEF Unsaved, BeneficiaryRow

LEMMA ChangedType ==
    ASSUME NEW r \in Request, job[r].kind \in {"update", "remove", "use"},
           NEW row \in BeneficiaryRow
    PROVE  Changed(r, row) \subseteq BeneficiaryRow
<1>1. CASE job[r].kind = "update"
  BY <1>1 DEF Changed
<1>2. CASE job[r].kind = "remove"
  <2>1. Changed(r, row) = {[row EXCEPT !.isActive = FALSE]}
    BY <1>2 DEF Changed
  <2>2. [row EXCEPT !.isActive = FALSE] \in BeneficiaryRow
    BY DEF BeneficiaryRow
  <2> QED BY <2>1, <2>2
<1>3. CASE job[r].kind = "use"
  BY <1>3 DEF Changed
<1> QED BY <1>1, <1>2, <1>3

LEMMA BeneficiariesTypeNext ==
    ASSUME ControlInv, BeneficiariesTypeOK, [Next]_identity
    PROVE  BeneficiariesTypeOK'
<1>0. Located
  BY DEF ControlInv
<1> USE <1>0, UnsavedType DEF BeneficiariesTypeOK, beneficiaries
<1>1. ASSUME NEW r \in Request, BeneficiariesStep(r) PROVE BeneficiariesTypeOK'
  <2>1. CASE AddFind(r)
    BY <2>1 DEF AddFind
  <2>2. CASE AddInsert(r)
    <3>1. [Unsaved(r) EXCEPT !.saved = TRUE] \in BeneficiaryRow
      BY DEF BeneficiaryRow
    <3> QED BY <2>2, <3>1 DEF AddInsert, Insert
  <2>t. ASSUME NEW b \in Request, Take(r, b), UNCHANGED beneficiary,
               job[r].kind \in {"update", "remove", "use"}
        PROVE BeneficiariesTypeOK'
    <3>1. Changed(r, beneficiary[b]) \subseteq BeneficiaryRow
      BY <2>t, ChangedType
    <3>2. Targets(r, b) \subseteq Request
      BY DEF Targets
    <3>3. copy' \in [Request -> BeneficiaryRow]
      BY <2>t, <3>1 DEF Take
    <3>4. target' \in [Request -> SUBSET Request]
      BY <2>t, <3>2 DEF Take
    <3> QED BY <2>t, <3>3, <3>4
  <2>3. CASE ChangeFind(r)
    <3>1. job[r].kind \in {"update", "remove", "use"}
      BY <2>3 DEF ChangeFind, At, ControlInv, Fits
    <3> QED BY <2>3, <2>t, <3>1 DEF ChangeFind
  <2>4. CASE UseFind(r)
    <3>1. job[r].kind \in {"update", "remove", "use"}
      BY <2>4 DEF UseFind, At, ControlInv, Fits
    <3> QED BY <2>4, <2>t, <3>1 DEF UseFind, Namesakes
  <2>5. CASE ChangeSave(r)
    BY <2>5 DEF ChangeSave
  <2> QED BY <1>1, <2>1, <2>2, <2>3, <2>4, <2>5 DEF BeneficiariesStep
<1>2. ASSUME NEW gone, DropMemory(gone) PROVE BeneficiariesTypeOK'
  BY <1>2 DEF DropMemory
<1>3. \/ \E r \in Request : BeneficiariesStep(r)
      \/ \E gone : DropMemory(gone)
      \/ UNCHANGED beneficiaries
  BY Cases DEF FailRequest, Restart, MonthPasses, LockExpires, PurgeOldAuditLogs, identity
<1> QED BY <1>1, <1>2, <1>3

\* Types and control: the invariant all others extend.
CoreInv ==
    /\ BaseInv /\ TodoInv /\ AuditInv
    /\ UsersTypeOK /\ WalletsTypeOK /\ KycTypeOK /\ PinTypeOK /\ BeneficiariesTypeOK

LEMMA CoreInit == IdentityInit => CoreInv
<1> SUFFICES ASSUME IdentityInit PROVE CoreInv
  OBVIOUS
<1>1. BaseInv /\ Located
  BY BaseInit DEF BaseInv, ControlInv
<1>2. UsersTypeOK /\ KycTypeOK
  BY InitialUserAssumption, InitialSubmissionAssumption, NoUserType
     DEF IdentityInit, UsersInit, UsersTypeOK, KycInit, KycTypeOK
<1>3. WalletsTypeOK
  BY InitialWalletAssumption, NoWalletType DEF IdentityInit, WalletsInit, WalletsTypeOK, Wallet
<1>4. PinTypeOK
  BY InitialPinAssumption DEF IdentityInit, PinInit, PinTypeOK, MAX_ATTEMPTS
<1>5. AuditInv
  BY DEF IdentityInit, AuditInit, AuditInv, AuditTypeOK, NoEntry, Entry, AuditState, MAX_RETRIES
<1>6. BeneficiariesTypeOK
  BY <1>1, UnsavedType DEF IdentityInit, BeneficiariesInit, BeneficiariesTypeOK
<1>7. TodoInv
  BY DEF IdentityInit, RequestsInit, WalletsInit, TodoInv
<1> QED BY <1>1, <1>2, <1>3, <1>4, <1>5, <1>6, <1>7 DEF CoreInv

LEMMA CoreNext == CoreInv /\ [Next]_identity => CoreInv'
BY BaseNext, TodoNext, AuditNext, UsersTypeNext, WalletsTypeNext, KycTypeNext, PinTypeNext,
   BeneficiariesTypeNext DEF CoreInv, BaseInv, ControlInv, WalletsTypeOK

LEMMA Core == Spec => []CoreInv
<1>1. CoreInv /\ [Next]_identity => CoreInv'
  BY CoreNext
<1> QED BY CoreInit, <1>1, PTL DEF Spec

\* Rows, entities, counters and audit entries have their types, whatever the
\* workload, the faults and the discipline: no entry is tried once too often.
THEOREM IdentityTypeCorrect == Spec => []IdentityTypeOK
<1>1. CoreInv => IdentityTypeOK
  BY DEF CoreInv, IdentityTypeOK, AuditInv
<1> QED BY <1>1, Core, PTL

-----------------------------------------------------------------------------
(* One user per email.                                                     *)

\* A row that is there stays, also when it is saved as a whole.
RegisteredInv ==
    /\ OneUserPerEmail
    /\ \A r \in Request :
        /\ Created(r) => user[Whom(r)].registered
        /\ pc[r] = "activeSave" => entity[r].registered

LEMMA RegisteredInit == IdentityInit => RegisteredInv
BY DEF IdentityInit, RequestsInit, RegisteredInv, OneUserPerEmail, Created

\* Nobody is registered by a step that erases no row and takes no registration
\* further.
LEMMA NobodyRegisters ==
    ASSUME RegisteredInv, job' = job,
           \A u \in User : user[u].registered => user'[u].registered,
           \A s \in Request : Created(s)' => Created(s),
           \A s \in Request : pc'[s] = "activeSave" => pc[s] = "activeSave" /\ entity'[s] = entity[s],
           \A s \in Request : Whom(s) \in User
    PROVE  RegisteredInv'
<1>1. \A s \in Request : Whom(s)' = Whom(s)
  BY DEF Whom
<1>2. OneUserPerEmail'
  BY <1>1 DEF OneUserPerEmail, RegisteredInv
<1> QED BY <1>1, <1>2 DEF RegisteredInv

LEMMA RegisteredNext ==
    ASSUME CoreInv, RegisteredInv, [Next]_identity
    PROVE  RegisteredInv'
<1>0. ControlInv /\ Located /\ UsersTypeOK
  BY DEF CoreInv, BaseInv, ControlInv
<1>j. \A s \in Request : Whom(s) \in User
  BY <1>0, JobFields
<1>1. ASSUME NEW r \in Request, UsersStep(r) PROVE RegisteredInv'
  <2>0. OnlyMoves(r)
    BY <1>0, <1>1, UsersActor
  <2>w. \A s \in Request : Whom(s)' = Whom(s)
    BY <2>0 DEF OnlyMoves, Whom
  <2> USE DEF At, Goto, Located, UsersTypeOK, Created, OnlyMoves
  <2>1. CASE Authenticate(r) \/ RegisterFind(r) \/ LoginFind(r) \/ RefreshFind(r) \/ Logout(r)
    <3>1. UNCHANGED users /\ pc'[r] # "activeSave"
      <4>1. \A kind \in Kind : FirstStep[kind] # "activeSave"
        BY DEF FirstStep, Kind, CustomerKind, OtherKind
      <4> QED BY <1>0, <2>1, <4>1, JobFields
              DEF Authenticate, RegisterFind, LoginFind, RefreshFind, Logout
    <3>2. Created(r)' => Created(r)
      <4>1. \A kind \in Kind : FirstStep[kind] \notin {"tokenUpdate", "ok"}
        BY DEF FirstStep, Kind, CustomerKind, OtherKind
      <4>2. CASE Authenticate(r)
        BY <1>0, <4>1, <4>2, JobFields DEF Authenticate
      <4>3. CASE RegisterFind(r)
        BY <1>0, <4>3 DEF RegisterFind
      <4>4. CASE LoginFind(r) \/ RefreshFind(r) \/ Logout(r)
        BY <1>0, <4>4 DEF LoginFind, RefreshFind, Logout, ControlInv, Fits
      <4> QED BY <2>1, <4>2, <4>3, <4>4
    <3> QED BY <1>j, <2>0, <3>1, <3>2, NobodyRegisters DEF users
  <2>2. CASE CreateUser(r)
    <3>1. CASE user[Whom(r)].registered
      BY <1>0, <1>j, <2>0, <2>2, <3>1, NobodyRegisters DEF CreateUser
    <3>2. CASE ~user[Whom(r)].registered
      <4>1. user'[Whom(r)].registered
        BY <1>0, <1>j, <2>2, <3>2 DEF CreateUser, NoUser
      <4>2. \A u \in User : user[u].registered => user'[u].registered
        BY <1>0, <1>j, <2>2, <3>2 DEF CreateUser, NoUser
      <4>3. \A s \in Request : Created(s)' => Created(s) \/ s = r
        BY <2>0
      <4>4. \A s \in Request : Created(s) /\ s # r => Whom(s) # Whom(r)
        BY <3>2 DEF RegisteredInv
      <4>5. OneUserPerEmail'
        BY <2>w, <4>3, <4>4 DEF OneUserPerEmail, RegisteredInv
      <4>6. \A s \in Request : pc'[s] = "activeSave" => pc[s] = "activeSave" /\ entity'[s] = entity[s]
        BY <1>0, <2>0, <2>2, <3>2 DEF CreateUser
      <4> QED BY <1>j, <2>w, <4>1, <4>2, <4>3, <4>5, <4>6 DEF RegisteredInv
    <3> QED BY <3>1, <3>2
  <2>3. CASE TokenUpdate(r)
    <3>1. \A u \in User : user'[u].registered = user[u].registered
      BY <1>0, <1>j, <2>3 DEF TokenUpdate, SetUser, UserRow
    <3> QED BY <1>0, <1>j, <2>0, <2>3, <3>1, NobodyRegisters DEF TokenUpdate
  <2>4. CASE ActiveFind(r)
    <3>0. ~Created(r)'
      BY <1>0, <2>0, <2>4 DEF ActiveFind, ControlInv, Fits
    <3>1. pc'[r] = "activeSave" => entity'[r].registered
      BY <1>0, <1>j, <2>4 DEF ActiveFind, UserRow
    <3>2. user' = user /\ \A s \in Request : s # r => entity'[s] = entity[s]
      BY <1>0, <2>4 DEF ActiveFind
    <3>3. OneUserPerEmail'
      BY <2>0, <2>w, <3>0 DEF OneUserPerEmail, RegisteredInv
    <3> QED BY <2>0, <2>w, <3>0, <3>1, <3>2, <3>3 DEF RegisteredInv
  <2>5. CASE ActiveSave(r)
    <3>0. ~Created(r)'
      BY <1>0, <2>0, <2>5 DEF ActiveSave, ControlInv, Fits
    <3>1. \A u \in User : user[u].registered => user'[u].registered
      BY <1>0, <1>j, <2>5 DEF ActiveSave, RegisteredInv
    <3>2. \A s \in Request : pc'[s] = "activeSave" => pc[s] = "activeSave" /\ entity'[s] = entity[s]
      BY <1>0, <2>0, <2>5 DEF ActiveSave
    <3> QED BY <1>j, <2>0, <3>0, <3>1, <3>2, NobodyRegisters
  <2> QED BY <1>1, <2>1, <2>2, <2>3, <2>4, <2>5 DEF UsersStep
<1>2. ASSUME NEW r \in Request, KycStep(r) PROVE RegisteredInv'
  <2>0. OnlyMoves(r) /\ job[r].kind # "register"
    BY <1>0, <1>2, KycActor
  <2>1. \A u \in User : user'[u].registered = user[u].registered
    <3>1. CASE UserUpdate(r)
      BY <1>0, <1>j, <3>1 DEF UserUpdate, SetUser, UserRow, UsersTypeOK
    <3>2. CASE UNCHANGED users
      BY <3>2 DEF users
    <3> QED BY <1>2, <3>1, <3>2
            DEF KycStep, SubmitFind, SubmitInsert, SubmitSave, ReviewFind, ReviewSave, AccountsFind,
                NextFind, NextSave, UpgradeFails
  <2>2. entity' = entity
    BY <1>2 DEF KycStep, SubmitFind, SubmitInsert, SubmitSave, ReviewFind, ReviewSave, UserUpdate,
       AccountsFind, NextFind, NextSave, UpgradeFails, users
  <2>3. \A s \in Request : pc'[s] = "activeSave" => pc[s] = "activeSave"
    BY <1>0, <1>2, KycActor DEF NoneEnters, Inner, UserInner, KycInner
  <2>4. \A s \in Request : Created(s)' => Created(s)
    BY <2>0 DEF OnlyMoves, Created
  <2> QED BY <1>j, <2>0, <2>1, <2>2, <2>3, <2>4, NobodyRegisters DEF OnlyMoves
<1>3. ASSUME NEW r \in Request, FailRequest(r) PROVE RegisteredInv'
  <2>1. OnlyMoves(r) /\ pc'[r] = "error"
    BY <1>0, <1>3, OtherActor
  <2>2. user' = user /\ \A s \in Request : s # r => entity'[s] = entity[s]
    BY <1>3 DEF FailRequest, DropMemory
  <2> QED BY <1>j, <2>1, <2>2, NobodyRegisters DEF OnlyMoves, Created
<1>4. ASSUME Restart PROVE RegisteredInv'
  <2>1. job' = job /\ user' = user
    BY <1>4 DEF Restart, Crash, DropMemory
  <2>2. \A s \in Request : pc'[s] = IF InFlight(s) THEN "lost" ELSE pc[s]
    BY <1>0, <1>4, NoActor
  <2>3. \A s \in Request : Created(s)' => Created(s)
    BY <2>1, <2>2 DEF Created
  <2>4. \A s \in Request : pc'[s] # "activeSave"
    BY <2>2 DEF InFlight, Answered
  <2> QED BY <1>j, <2>1, <2>3, <2>4, NobodyRegisters
<1>5. ASSUME NEW r \in Request,
             WalletsStep(r) \/ PinStep(r) \/ BeneficiariesStep(r) \/ Arrive(r) \/ TryAgain(r),
             UNCHANGED users
      PROVE  RegisteredInv'
  <2>1. OnlyMoves(r) /\ NoneEnters(UserInner)
    BY <1>0, <1>5, WalletsActor, PinActor, BeneficiariesActor, OtherActor
       DEF NoneEnters, Inner, UserInner, WalletInner, PinInner, SavedInner
  <2>2. ~Created(r)'
    <3>1. CASE job[r].kind # "register"
      BY <2>1, <3>1 DEF OnlyMoves, Created
    <3>2. CASE Arrive(r)
      <4>1. pc'[r] # "ok" /\ pc[r] = "new"
        BY <1>0, <3>2, OtherActor DEF Answered
      <4>2. pc'[r] # "tokenUpdate"
        BY <2>1, <4>1 DEF NoneEnters, UserInner
      <4> QED BY <4>1, <4>2 DEF Created
    <3> QED BY <1>0, <1>5, <3>1, <3>2, WalletsActor, PinActor, BeneficiariesActor, OtherActor
  <2>3. \A s \in Request : pc'[s] = "activeSave" => pc[s] = "activeSave"
    BY <2>1 DEF NoneEnters, UserInner
  <2> QED BY <1>j, <1>5, <2>1, <2>2, <2>3, NobodyRegisters DEF OnlyMoves, Created, users
<1>6. ASSUME UNCHANGED requests, UNCHANGED users PROVE RegisteredInv'
  BY <1>j, <1>6, NobodyRegisters DEF requests, users, Created
<1>7. \/ \E r \in Request :
           \/ UsersStep(r) \/ KycStep(r) \/ FailRequest(r)
           \/ /\ WalletsStep(r) \/ PinStep(r) \/ BeneficiariesStep(r) \/ Arrive(r) \/ TryAgain(r)
              /\ UNCHANGED users
      \/ Restart
      \/ UNCHANGED requests /\ UNCHANGED users
  BY Cases DEF MonthPasses, LockExpires, identity
<1> QED BY <1>1, <1>2, <1>3, <1>4, <1>5, <1>6, <1>7

\* Of the registrations with one email one succeeds at most, however they and
\* everything else that writes users overlap, for every workload and fault.
THEOREM OnePerEmail == Spec => []OneUserPerEmail
<1>1. CoreInv /\ RegisteredInv /\ [Next]_identity => RegisteredInv'
  BY RegisteredNext
<1>2. RegisteredInv => OneUserPerEmail
  BY DEF RegisteredInv
<1> QED BY RegisteredInit, Core, <1>1, <1>2, PTL DEF Spec

-----------------------------------------------------------------------------
(* Wrong PINs.                                                             *)

\* The attempts at a customer's PIN that have passed the check of the lock.
Trying(u) == {r \in Request : Whom(r) = u /\ pc[r] \in {"pinSelect", "pinCompare"}}

\* As long as a PIN is not locked its misses are counted; once it is, every one
\* more takes an attempt that had passed the check before.
Counted(u) ==
    /\ u \notin locked => misses[u] <= count[u] /\ misses[u] < MAX_ATTEMPTS
    /\ u \in locked =>
        misses[u] + Cardinality(Trying(u)) <= MAX_ATTEMPTS + Cardinality(Request) - 1

TryInv == \A u \in User : Counted(u)

LEMMA TryInit == IdentityInit => TryInv
BY DEF IdentityInit, PinInit, TryInv, Counted, MAX_ATTEMPTS

LEMMA TryingSize ==
    ASSUME IsFiniteSet(Request), NEW u
    PROVE  /\ IsFiniteSet(Trying(u))
           /\ Cardinality(Trying(u)) \in Nat
           /\ Cardinality(Request) \in Nat
           /\ Cardinality(Trying(u)) <= Cardinality(Request)
           /\ \A few : few \subseteq Trying(u) =>
                Cardinality(few) \in Nat /\ Cardinality(few) <= Cardinality(Trying(u))
<1>1. Trying(u) \subseteq Request
  BY DEF Trying
<1> QED BY <1>1, FS_Subset, FS_CardinalityType

\* While no attempt passes the check, and misses are neither added nor counted
\* differently, the invariant stays.
LEMMA TryQuiet ==
    ASSUME IsFiniteSet(Request), PinTypeOK, TryInv, NEW u \in User,
           Trying(u)' \subseteq Trying(u), u \in locked' <=> u \in locked,
           misses'[u] = misses[u], count'[u] = count[u]
    PROVE  Counted(u)'
<1>1. /\ Cardinality(Trying(u)') \in Nat /\ Cardinality(Trying(u)) \in Nat
      /\ Cardinality(Trying(u)') <= Cardinality(Trying(u))
      /\ Cardinality(Request) \in Nat
  BY TryingSize
<1>2. misses[u] \in Nat
  BY DEF PinTypeOK
<1> QED BY <1>1, <1>2 DEF TryInv, Counted, MAX_ATTEMPTS

LEMMA TryNext ==
    ASSUME IsFiniteSet(Request), CoreInv, TryInv, [Next]_identity
    PROVE  TryInv'
<1>0. ControlInv /\ Located /\ PinTypeOK
  BY DEF CoreInv, BaseInv, ControlInv
<1>j. \A s \in Request : Whom(s) \in User
  BY <1>0, JobFields
<1>z. ASSUME NEW u \in User, u \notin locked', misses'[u] = 0, count'[u] \in 0 .. MAX_ATTEMPTS
      PROVE  Counted(u)'
  BY <1>z DEF Counted, MAX_ATTEMPTS
<1>c. ASSUME NEW v \in User, Clear(v), \A u \in User : Trying(u)' \subseteq Trying(u)
      PROVE TryInv'
  <2>1. /\ v \notin locked' /\ misses'[v] = 0 /\ count'[v] = 0
        /\ \A u \in User : u # v => /\ u \in locked' <=> u \in locked
                                    /\ misses'[u] = misses[u] /\ count'[u] = count[u]
    BY <1>0, <1>c DEF Clear, PinTypeOK
  <2>2. 0 \in 0 .. MAX_ATTEMPTS
    BY DEF MAX_ATTEMPTS
  <2> SUFFICES ASSUME NEW u \in User
               PROVE  Counted(u)'
    BY DEF TryInv
  <2> QED BY <1>0, <1>c, <1>z, <2>1, <2>2, TryQuiet
<1>s. ASSUME NoneEnters(PinInner) PROVE \A u \in User : Trying(u)' \subseteq Trying(u)
  <2>1. \A s \in Request : Whom(s)' = Whom(s)
    BY <1>s DEF NoneEnters, Whom
  <2> QED BY <1>s, <2>1 DEF NoneEnters, PinInner, Trying
<1>q. ASSUME \A u \in User : Trying(u)' \subseteq Trying(u), UNCHANGED <<count, locked, misses>>
      PROVE TryInv'
  <2> SUFFICES ASSUME NEW u \in User
               PROVE  Counted(u)'
    BY DEF TryInv
  <2> QED BY <1>0, <1>q, TryQuiet
<1>1. ASSUME NEW r \in Request, PinStep(r) PROVE TryInv'
  <2>0. OnlyMoves(r)
    BY <1>0, <1>1, PinActor
  <2>w. \A s \in Request : Whom(s)' = Whom(s)
    BY <2>0 DEF OnlyMoves, Whom
  <2> USE DEF At, Goto
  <2>s. ASSUME pc'[r] \in {"pinSelect", "pinCompare"} => pc[r] \in {"pinSelect", "pinCompare"}
        PROVE \A u \in User : Trying(u)' \subseteq Trying(u)
    BY <2>0, <2>w, <2>s DEF OnlyMoves, Trying
  <2>1. CASE PinFind(r)
    <3>1. pc'[r] = "pinUpdate"
      BY <1>0, <2>1 DEF PinFind, Located
    <3> QED BY <1>q, <2>1, <2>s, <3>1 DEF PinFind, pins
  <2>2. CASE PinCheck(r)
    <3>1. UNCHANGED <<count, locked, misses>>
      BY <2>2 DEF PinCheck, pins
    <3>2. CASE Whom(r) \in locked
      <4>1. pc'[r] = "refused"
        BY <1>0, <2>2, <3>2 DEF PinCheck, Located
      <4> QED BY <1>q, <2>s, <3>1, <4>1
    <3>3. CASE Whom(r) \notin locked
      <4>1. \A u \in User : u # Whom(r) => Trying(u)' \subseteq Trying(u)
        BY <2>0, <2>w DEF OnlyMoves, Trying
      <4> SUFFICES ASSUME NEW u \in User
                   PROVE  Counted(u)'
        BY DEF TryInv
      <4>2. CASE u = Whom(r)
        BY <3>1, <3>3, <4>2 DEF TryInv, Counted
      <4>3. CASE u # Whom(r)
        BY <1>0, <3>1, <4>1, <4>3, TryQuiet
      <4> QED BY <4>2, <4>3
    <3> QED BY <3>2, <3>3
  <2>3. CASE PinSelect(r)
    BY <1>q, <2>3, <2>s DEF PinSelect
  <2>4. CASE PinCompare(r)
    <3>1. pc[r] = "pinCompare" /\ \A u \in User : Trying(u)' \subseteq Trying(u)
      BY <2>4, <2>s DEF PinCompare
    <3>2. CASE Clear(Whom(r))
      BY <1>c, <1>j, <3>1, <3>2
    <3>3. CASE Miss(Whom(r)) /\ Goto(r, "refused")
      <4>v. PICK v \in User : v = Whom(r)
        BY <1>j
      <4>0. v \in User /\ count[v] \in 0 .. MAX_ATTEMPTS /\ misses[v] \in Nat
        BY <1>0 DEF PinTypeOK
      <4>1. /\ count'[v] = Smaller(count[v] + 1, MAX_ATTEMPTS)
            /\ misses'[v] = misses[v] + 1
            /\ v \in locked' <=> v \in locked \/ count'[v] = MAX_ATTEMPTS
            /\ \A u \in User : u # v => /\ u \in locked' <=> u \in locked
                                        /\ misses'[u] = misses[u] /\ count'[u] = count[u]
        BY <1>0, <3>3, <4>0, <4>v DEF Miss, PinTypeOK
      <4>2. r \in Trying(v) /\ Trying(v)' \subseteq Trying(v) \ {r}
        <5>1. pc'[r] = "refused"
          BY <1>0, <3>3 DEF Located
        <5> QED BY <3>1, <4>v, <5>1, <2>w DEF Trying
      <4>3. /\ Cardinality(Trying(v) \ {r}) = Cardinality(Trying(v)) - 1
            /\ IsFiniteSet(Trying(v) \ {r})
        BY <4>2, TryingSize, FS_RemoveElement
      <4>4. /\ Cardinality(Trying(v)') \in Nat /\ Cardinality(Trying(v)) \in Nat
            /\ Cardinality(Request) \in Nat
            /\ Cardinality(Trying(v)') <= Cardinality(Trying(v)) - 1
            /\ Cardinality(Trying(v)) <= Cardinality(Request)
        BY <4>2, <4>3, TryingSize, FS_Subset
      <4> SUFFICES ASSUME NEW u \in User
                   PROVE  Counted(u)'
        BY DEF TryInv
      <4>5. CASE u = v
        <5>1. CASE v \in locked
          <6>1. misses[v] + Cardinality(Trying(v)) <= MAX_ATTEMPTS + Cardinality(Request) - 1
            BY <4>0, <5>1 DEF TryInv, Counted
          <6> QED BY <4>0, <4>1, <4>4, <4>5, <5>1, <6>1 DEF Counted, MAX_ATTEMPTS
        <5>2. CASE v \notin locked
          <6>1. misses[v] <= count[v] /\ misses[v] < MAX_ATTEMPTS
            BY <4>0, <5>2 DEF TryInv, Counted
          <6> QED BY <4>0, <4>1, <4>4, <4>5, <5>2, <6>1 DEF Counted, MAX_ATTEMPTS, Smaller
        <5> QED BY <5>1, <5>2
      <4>6. CASE u # v
        BY <1>0, <3>1, <4>1, <4>6, TryQuiet
      <4> QED BY <4>5, <4>6
    <3> QED BY <2>4, <3>2, <3>3 DEF PinCompare
  <2>5. CASE PinUpdate(r)
    <3>1. \A u \in User : Trying(u)' \subseteq Trying(u)
      <4>1. pc'[r] = "ok"
        BY <1>0, <2>5 DEF PinUpdate, Located
      <4> QED BY <2>s, <4>1
    <3> QED BY <1>c, <1>j, <1>q, <2>5, <3>1 DEF PinUpdate
  <2> QED BY <1>1, <2>1, <2>2, <2>3, <2>4, <2>5 DEF PinStep
<1>2. ASSUME NEW r \in Request, FailRequest(r) PROVE TryInv'
  <2>1. NoneEnters(PinInner)
    BY <1>0, <1>2, OtherActor DEF NoneEnters, Inner
  <2> QED BY <1>2, <1>q, <1>s, <2>1 DEF FailRequest
<1>3. ASSUME Restart PROVE TryInv'
  BY <1>3 DEF Restart, PinForgotten, TryInv, Counted, MAX_ATTEMPTS
<1>4. ASSUME LockExpires PROVE TryInv'
  <2>1. \A u \in User : Trying(u)' \subseteq Trying(u)
    BY <1>0, <1>4, <1>s, NoActor, EntersLess DEF Inner
  <2>2. PICK v \in locked : /\ locked' = locked \ {v} /\ count' = count
                            /\ misses' = [misses EXCEPT ![v] = 0]
    BY <1>4 DEF LockExpires
  <2>3. v \in User /\ count'[v] \in 0 .. MAX_ATTEMPTS /\ misses'[v] = 0 /\ v \notin locked'
    BY <1>0, <2>2 DEF PinTypeOK
  <2> SUFFICES ASSUME NEW u \in User
               PROVE  Counted(u)'
    BY DEF TryInv
  <2>4. CASE u = v
    BY <1>z, <2>3, <2>4
  <2>5. CASE u # v
    <3>1. (u \in locked' <=> u \in locked) /\ misses'[u] = misses[u] /\ count'[u] = count[u]
      BY <1>0, <2>2, <2>5 DEF PinTypeOK
    <3> QED BY <1>0, <2>1, <3>1, TryQuiet
  <2> QED BY <2>4, <2>5
<1>5. CASE UNCHANGED pins /\ NoneEnters(PinInner)
  BY <1>5, <1>q, <1>s DEF pins
<1>6. \/ \E r \in Request : PinStep(r) \/ FailRequest(r)
      \/ Restart \/ LockExpires
      \/ UNCHANGED pins
  BY Cases DEF TryAgain, MonthPasses, PurgeOldAuditLogs, identity
<1> QED BY <1>0, <1>1, <1>2, <1>3, <1>4, <1>5, <1>6, Entrances

\* However many attempts at a PIN overlap, and however often it is unlocked, the
\* wrong ones between two unlockings stay below MAX_ATTEMPTS plus the requests.
THEOREM Misses == ASSUME IsFiniteSet(Request) PROVE Spec => []MissesBounded
<1>1. CoreInv /\ TryInv /\ [Next]_identity => TryInv'
  BY TryNext
<1>2. CoreInv /\ TryInv => MissesBounded
  <2> SUFFICES ASSUME CoreInv, TryInv, NEW u \in User
               PROVE  misses[u] <= MAX_ATTEMPTS + Cardinality(Request) - 1
    BY DEF MissesBounded
  <2>1. misses[u] \in Nat /\ Cardinality(Trying(u)) \in Nat /\ Cardinality(Request) \in Nat
    BY TryingSize DEF CoreInv, PinTypeOK
  <2> QED BY <2>1 DEF TryInv, Counted, MAX_ATTEMPTS
<1> QED BY TryInit, Core, <1>1, <1>2, PTL DEF Spec
=============================================================================
