--------------------------- MODULE WalletsProofs ---------------------------
(***************************************************************************)
(* Wallets, as part of Identity: what is spent in a month stays within the *)
(* limit, if spends, upgrades and approvals wait their turn.  Each of them *)
(* loads a wallet and later saves it, or counts on what it has read.       *)
(***************************************************************************)
EXTENDS IdentityProofs

\* The kinds of request that act on a wallet they have read before.
WalletKind == {"spend", "upgrade", "approve"}

\* The statements at which they do.
Relying == {"spendReset", "record", "upgradeSave", "nextSave"}

\* The account such a request is about at the moment.
Subject(r) == IF job[r].kind = "approve" THEN Current(r) ELSE job[r].account

\* What was spent this month is part of what a wallet counts.
RowInv(a) ==
    /\ wallet[a].tier = "none" => wallet[a] = NoWallet
    /\ IF wallet[a].due THEN spent[a] = 0 ELSE spent[a] <= wallet[a].monthlySpend

\* What r relies on is still so.
ReliesInv(r) ==
    /\ r \in inMonth => pc[r] \in {"spendReset", "record"}
    /\ pc[r] = "spendReset" =>
        /\ wallet[job[r].account].due /\ wallet[job[r].account].tier # "none"
        /\ loaded[r].tier = wallet[job[r].account].tier /\ loaded[r].monthlySpend = 0
        /\ r \in inMonth => ~loaded[r].due
    /\ pc[r] = "record" =>
        /\ wallet[job[r].account].tier # "none"
        /\ r \in inMonth =>
            ~wallet[job[r].account].due /\ WithinLimit(wallet[job[r].account], job[r].amount)
    /\ pc[r] = "upgradeSave" =>
        /\ wallet[job[r].account].tier # "none"
        /\ loaded[r] = [wallet[job[r].account] EXCEPT !.tier = job[r].tier]
    /\ pc[r] = "nextSave" =>
        /\ wallet[Current(r)].tier # "none"
        /\ loaded[r] = [wallet[Current(r)] EXCEPT !.tier = "standard"]

SpendInv ==
    /\ \A a \in Account : RowInv(a)
    /\ \A r \in Request : ReliesInv(r)

LEMMA SpendInit == IdentityInit => SpendInv
<1> SUFFICES ASSUME IdentityInit PROVE SpendInv
  OBVIOUS
<1>1. ASSUME NEW a \in Account PROVE RowInv(a)
  <2>1. InitialWallet[a].monthlySpend \in Nat
    BY InitialWalletAssumption DEF Wallet
  <2> QED BY <2>1, InitialWalletAssumption DEF IdentityInit, WalletsInit, RowInv
<1>2. ASSUME NEW r \in Request PROVE ReliesInv(r)
  BY DEF IdentityInit, RequestsInit, WalletsInit, ReliesInv
<1> QED BY <1>1, <1>2 DEF SpendInv

LEMMA RelyingSubject ==
    ASSUME CoreInv, NEW r \in Request, pc[r] \in Relying
    PROVE  /\ job[r].kind \in WalletKind /\ InFlight(r)
           /\ Subject(r) \in Account /\ Holder[Subject(r)] = Whom(r)
           /\ Subject(r) = IF pc[r] = "nextSave" THEN Current(r) ELSE job[r].account
<1>0. ControlInv /\ Located
  BY DEF CoreInv, BaseInv, ControlInv
<1>1. /\ pc[r] = "nextSave" => job[r].kind = "approve"
      /\ pc[r] = "upgradeSave" => job[r].kind = "upgrade"
      /\ pc[r] \in {"spendReset", "record"} => job[r].kind = "spend"
  BY <1>0 DEF ControlInv, Fits
<1>2. InFlight(r)
  BY DEF Relying, InFlight, Answered
<1>3. CASE pc[r] = "nextSave"
  <2>1. Current(r) \in todo[r] /\ todo[r] \subseteq {a \in Account : Holder[a] = Whom(r)}
    BY <1>3, CurrentType DEF CoreInv, TodoInv
  <2> QED BY <1>1, <1>2, <1>3, <2>1 DEF Subject, WalletKind
<1>4. CASE pc[r] # "nextSave"
  BY <1>0, <1>1, <1>2, <1>4, JobFields DEF Relying, Subject, WalletKind, Whom
<1> QED BY <1>3, <1>4

\* Of two requests that act on one account, none relies on what the other writes.
LEMMA SubjectsApart ==
    ASSUME Queued(WalletKind), CoreInv,
           NEW r \in Request, InFlight(r), job[r].kind \in WalletKind,
           NEW s \in Request, pc[s] \in Relying, r # s,
           NEW a \in Account, Holder[a] = Whom(r)
    PROVE  Subject(s) # a
<1>1. InFlight(s) /\ Holder[Subject(s)] = Whom(s)
  BY RelyingSubject
<1> QED BY <1>1, QueuedAlone DEF CoreInv

\* Who does not move relies on the same as long as its wallet is the same.
LEMMA Bystander ==
    ASSUME CoreInv, NEW s \in Request, ReliesInv(s), job' = job, pc'[s] = pc[s],
           loaded'[s] = loaded[s], todo'[s] = todo[s], s \in inMonth' => s \in inMonth,
           pc[s] \in Relying => wallet'[Subject(s)] = wallet[Subject(s)]
    PROVE  ReliesInv(s)'
<1>1. CASE pc[s] \in Relying
  <2>1. Subject(s) = IF pc[s] = "nextSave" THEN Current(s) ELSE job[s].account
    BY <1>1, RelyingSubject
  <2>2. Current(s)' = Current(s)
    BY DEF Current
  <2> QED BY <1>1, <2>1, <2>2 DEF ReliesInv, WithinLimit
<1>2. CASE pc[s] \notin Relying
  BY <1>2 DEF ReliesInv, Relying
<1> QED BY <1>1, <1>2

\* Who relies on nothing keeps the invariant.
LEMMA Carefree ==
    ASSUME NEW s \in Request, pc'[s] \notin Relying, s \notin inMonth'
    PROVE  ReliesInv(s)'
BY DEF ReliesInv, Relying

\* A step of r that writes at most the wallet of `a`, of its own customer.
LEMMA OneWrites ==
    ASSUME Queued(WalletKind), CoreInv, SpendInv, NEW r \in Request, OnlyMoves(r),
           InFlight(r), job[r].kind \in WalletKind, NEW a \in Account, Holder[a] = Whom(r),
           \A c \in Account : c # a => wallet'[c] = wallet[c] /\ spent'[c] = spent[c],
           \A s \in Request : s # r =>
                /\ loaded'[s] = loaded[s] /\ todo'[s] = todo[s]
                /\ s \in inMonth' => s \in inMonth,
           RowInv(a)', ReliesInv(r)'
    PROVE  SpendInv'
<1>1. ASSUME NEW c \in Account PROVE RowInv(c)'
  BY DEF RowInv, SpendInv
<1>2. ASSUME NEW s \in Request, s # r PROVE ReliesInv(s)'
  <2>1. pc[s] \in Relying => Subject(s) # a /\ Subject(s) \in Account
    BY <1>2, SubjectsApart, RelyingSubject
  <2> QED BY <1>2, <2>1, Bystander DEF SpendInv, OnlyMoves
<1> QED BY <1>1, <1>2 DEF SpendInv

\* A step that writes no wallet.
LEMMA NobodyWrites ==
    ASSUME CoreInv, SpendInv, NEW r \in Request, OnlyMoves(r), UNCHANGED <<wallet, spent>>,
           \A s \in Request : s # r =>
                /\ loaded'[s] = loaded[s] /\ todo'[s] = todo[s]
                /\ s \in inMonth' => s \in inMonth,
           ReliesInv(r)'
    PROVE  SpendInv'
<1>1. ASSUME NEW c \in Account PROVE RowInv(c)'
  BY DEF RowInv, SpendInv
<1>2. ASSUME NEW s \in Request, s # r PROVE ReliesInv(s)'
  BY <1>2, Bystander DEF SpendInv, OnlyMoves
<1> QED BY <1>1, <1>2 DEF SpendInv

LEMMA CreateStep ==
    ASSUME CoreInv, SpendInv, NEW r \in Request, CreateForAccount(r)
    PROVE  SpendInv' /\ spent' = spent
<1>0. ControlInv /\ Located /\ WalletsTypeOK
  BY DEF CoreInv, BaseInv, ControlInv
<1>1. OnlyMoves(r)
  BY <1>0, WalletsActor DEF WalletsStep
<1>2. pc'[r] \in {"ok", "error"} /\ r \notin inMonth'
  BY <1>0 DEF CreateForAccount, At, Goto, Located, SpendInv, ReliesInv
<1>3. ReliesInv(r)'
  BY <1>2, Carefree DEF Relying
<1>4. PICK a \in Account : a = job[r].account
  BY <1>0, JobFields
<1>5. CASE wallet[a].tier = "none"
  <2>1. wallet' = [wallet EXCEPT ![a] = [NoWallet EXCEPT !.tier = "basic"]]
    BY <1>4, <1>5 DEF CreateForAccount
  <2>2. wallet'[a].tier = "basic" /\ wallet'[a].due /\ wallet[a].due /\ spent'[a] = spent[a]
    BY <1>0, <1>5, <2>1 DEF CreateForAccount, NoWallet, WalletsTypeOK, SpendInv, RowInv
  <2>3. \A c \in Account : c # a => wallet'[c] = wallet[c] /\ spent'[c] = spent[c]
    BY <1>0, <2>1 DEF CreateForAccount, WalletsTypeOK
  <2>4. ASSUME NEW c \in Account PROVE RowInv(c)'
    BY <2>2, <2>3 DEF SpendInv, RowInv
  <2>5. ASSUME NEW s \in Request, s # r PROVE ReliesInv(s)'
    <3>1. pc[s] \in Relying => Subject(s) \in Account /\ wallet[Subject(s)].tier # "none"
      BY RelyingSubject DEF SpendInv, ReliesInv, Relying
    <3>2. pc[s] \in Relying => wallet'[Subject(s)] = wallet[Subject(s)]
      BY <1>5, <2>3, <3>1
    <3> QED BY <1>1, <2>5, <3>2, Bystander DEF CreateForAccount, SpendInv, OnlyMoves
  <2> QED BY <1>3, <2>4, <2>5 DEF SpendInv, CreateForAccount
<1>6. CASE wallet[a].tier # "none"
  BY <1>1, <1>3, <1>4, <1>6, NobodyWrites DEF CreateForAccount
<1> QED BY <1>5, <1>6

LEMMA FindStep ==
    ASSUME CoreInv, SpendInv, NEW r \in Request, SpendFind(r)
    PROVE  SpendInv' /\ spent' = spent
<1>0. ControlInv /\ Located /\ WalletsTypeOK
  BY DEF CoreInv, BaseInv, ControlInv
<1>1. OnlyMoves(r) /\ r \notin inMonth
  BY <1>0, WalletsActor DEF WalletsStep, SpendFind, At, SpendInv, ReliesInv
<1>2. job[r].account \in Account /\ wallet[job[r].account] \in Wallet
  BY <1>0, JobFields DEF WalletsTypeOK
<1> DEFINE w == wallet[job[r].account]
<1>3. UNCHANGED <<wallet, todo, spent>>
  BY DEF SpendFind
<1>4. CASE Goto(r, "refused") /\ UNCHANGED loaded /\ inMonth' \in {inMonth, (inMonth \cup {r}) \ {r}}
  <2>1. pc'[r] = "refused" /\ r \notin inMonth'
    BY <1>0, <1>1, <1>4 DEF Goto, Located
  <2>2. ReliesInv(r)'
    BY <2>1, Carefree DEF Relying
  <2> QED BY <1>1, <1>3, <1>4, <2>2, NobodyWrites
<1>5. CASE /\ w.tier # "none" /\ w.due /\ Goto(r, "spendReset") /\ inMonth' = inMonth \cup {r}
           /\ Hold(r, [w EXCEPT !.monthlySpend = 0, !.due = FALSE])
  <2>1. pc'[r] = "spendReset" /\ loaded'[r] = [w EXCEPT !.monthlySpend = 0, !.due = FALSE]
    BY <1>0, <1>5 DEF Goto, Hold, Located, WalletsTypeOK
  <2>2. loaded'[r].tier = w.tier /\ loaded'[r].monthlySpend = 0 /\ ~loaded'[r].due
    BY <1>2, <2>1 DEF Wallet
  <2>3. ReliesInv(r)'
    BY <1>1, <1>3, <1>5, <2>1, <2>2 DEF ReliesInv, OnlyMoves
  <2>4. \A s \in Request : s # r => loaded'[s] = loaded[s]
    BY <1>0, <1>5 DEF Hold, WalletsTypeOK
  <2> QED BY <1>1, <1>3, <1>5, <2>3, <2>4, NobodyWrites
<1>6. CASE /\ w.tier # "none" /\ ~w.due /\ WithinLimit(w, job[r].amount) /\ Goto(r, "record")
           /\ inMonth' = inMonth \cup {r} /\ UNCHANGED loaded
  <2>1. pc'[r] = "record"
    BY <1>0, <1>6 DEF Goto, Located
  <2>2. ReliesInv(r)'
    BY <1>1, <1>3, <1>6, <2>1 DEF ReliesInv, OnlyMoves, WithinLimit
  <2> QED BY <1>1, <1>3, <1>6, <2>2, NobodyWrites
<1> QED BY <1>3, <1>4, <1>5, <1>6 DEF SpendFind, Validated

LEMMA ResetStep ==
    ASSUME Queued(WalletKind), CoreInv, SpendInv, NEW r \in Request, SpendReset(r)
    PROVE  SpendInv' /\ spent' = spent
<1>0. ControlInv /\ Located /\ WalletsTypeOK /\ pc[r] = "spendReset"
  BY DEF CoreInv, BaseInv, ControlInv, SpendReset, At
<1>1. OnlyMoves(r) /\ InFlight(r) /\ job[r].kind \in WalletKind
  BY <1>0, WalletsActor DEF WalletsStep, ControlInv, Fits, WalletKind
<1>2. PICK a \in Account : a = job[r].account /\ Holder[a] = Whom(r)
  BY <1>0, JobFields DEF ControlInv, Fits, Whom
<1>3. /\ wallet' = [wallet EXCEPT ![a] = loaded[r]]
      /\ loaded' = [loaded EXCEPT ![r] = NoWallet]
      /\ UNCHANGED <<todo, spent>>
  BY <1>2 DEF SpendReset, Hold
<1>4. /\ wallet[a].due /\ wallet[a].tier # "none" /\ loaded[r].tier = wallet[a].tier
      /\ loaded[r].monthlySpend = 0
      /\ r \in inMonth => ~loaded[r].due
  BY <1>0, <1>2 DEF SpendInv, ReliesInv
<1>5. wallet'[a] = loaded[r] /\ \A c \in Account : c # a => wallet'[c] = wallet[c]
  BY <1>0, <1>3 DEF WalletsTypeOK
<1>6. RowInv(a)'
  BY <1>3, <1>4, <1>5 DEF SpendInv, RowInv
<1>7. \A s \in Request : s # r => loaded'[s] = loaded[s]
  BY <1>0, <1>3 DEF WalletsTypeOK
<1>8. CASE WithinLimit(loaded[r], job[r].amount) /\ Goto(r, "record") /\ inMonth' = inMonth
  <2>1. pc'[r] = "record" /\ job' = job
    BY <1>0, <1>8 DEF Goto, Located
  <2>2. ReliesInv(r)'
    BY <1>2, <1>4, <1>5, <1>8, <2>1 DEF ReliesInv, WithinLimit
  <2> QED BY <1>1, <1>2, <1>3, <1>5, <1>6, <1>7, <1>8, <2>2, OneWrites
<1>9. CASE Goto(r, "refused") /\ inMonth' = inMonth \ {r}
  <2>1. pc'[r] = "refused"
    BY <1>0, <1>9 DEF Goto, Located
  <2>2. ReliesInv(r)'
    BY <1>9, <2>1, Carefree DEF Relying
  <2> QED BY <1>1, <1>2, <1>3, <1>5, <1>6, <1>7, <1>9, <2>2, OneWrites
<1> QED BY <1>8, <1>9 DEF SpendReset, Validated

LEMMA RecordStep ==
    ASSUME Queued(WalletKind), CoreInv, SpendInv, NEW r \in Request, RecordSpend(r)
    PROVE  /\ SpendInv'
           /\ \A a \in Account : spent'[a] > spent[a] => spent'[a] <= MonthlyLimit[wallet[a].tier]
<1>0. ControlInv /\ Located /\ WalletsTypeOK /\ pc[r] = "record"
  BY DEF CoreInv, BaseInv, ControlInv, RecordSpend, At
<1>1. OnlyMoves(r) /\ InFlight(r) /\ job[r].kind \in WalletKind
  BY <1>0, WalletsActor DEF WalletsStep, ControlInv, Fits, WalletKind
<1>2. PICK a \in Account : a = job[r].account /\ Holder[a] = Whom(r)
  BY <1>0, JobFields DEF ControlInv, Fits, Whom
<1>3. /\ job[r].amount \in Nat /\ wallet[a].monthlySpend \in Nat /\ spent[a] \in Nat
      /\ wallet[a] \in Wallet
  BY <1>0, JobFields DEF WalletsTypeOK, Wallet
<1>4. wallet' = [wallet EXCEPT ![a] =
                    [wallet[a] EXCEPT !.monthlySpend = wallet[a].monthlySpend + job[r].amount]]
  BY <1>2 DEF RecordSpend
<1>5. /\ wallet'[a].tier = wallet[a].tier /\ wallet'[a].due = wallet[a].due
      /\ wallet'[a].monthlySpend = wallet[a].monthlySpend + job[r].amount
      /\ \A c \in Account : c # a => wallet'[c] = wallet[c]
  BY <1>0, <1>3, <1>4 DEF WalletsTypeOK, Wallet
<1>6. /\ spent'[a] = IF r \in inMonth THEN spent[a] + job[r].amount ELSE spent[a]
      /\ \A c \in Account : c # a => spent'[c] = spent[c]
  BY <1>0, <1>2 DEF RecordSpend, WalletsTypeOK
<1>7. r \in inMonth => /\ ~wallet[a].due
                       /\ wallet[a].monthlySpend + job[r].amount <= MonthlyLimit[wallet[a].tier]
  BY <1>0, <1>2 DEF SpendInv, ReliesInv, WithinLimit
<1>8. RowInv(a)'
  <2>1. wallet[a].tier # "none"
    BY <1>0, <1>2 DEF SpendInv, ReliesInv
  <2>2. IF wallet[a].due THEN spent[a] = 0 ELSE spent[a] <= wallet[a].monthlySpend
    BY DEF SpendInv, RowInv
  <2> QED BY <1>3, <1>5, <1>6, <1>7, <2>1, <2>2 DEF RowInv
<1>9. ReliesInv(r)'
  <2>1. pc'[r] = "ok" /\ r \notin inMonth'
    BY <1>0 DEF RecordSpend, Goto, Located
  <2> QED BY <2>1, Carefree DEF Relying
<1>10. SpendInv'
  BY <1>1, <1>2, <1>5, <1>6, <1>8, <1>9, OneWrites DEF RecordSpend
<1>11. r \in inMonth => spent[a] <= wallet[a].monthlySpend
  BY <1>7 DEF SpendInv, RowInv
<1>12. r \in inMonth => spent[a] + job[r].amount <= MonthlyLimit[wallet[a].tier]
  <2>1. wallet[a].tier \in Tier
    BY <1>0, <1>2, <1>3 DEF SpendInv, ReliesInv, Wallet
  <2>2. MonthlyLimit[wallet[a].tier] \in Nat
    BY <2>1, LimitAssumption
  <2> QED BY <1>3, <1>7, <1>11, <2>2
<1>13. ASSUME NEW c \in Account, spent'[c] > spent[c]
       PROVE  spent'[c] <= MonthlyLimit[wallet[c].tier]
  <2>1. \A n \in Nat : ~(n > n)
    OBVIOUS
  <2>2. c = a /\ r \in inMonth
    BY <1>0, <1>6, <1>13, <2>1 DEF WalletsTypeOK
  <2> QED BY <1>6, <1>12, <2>2
<1> QED BY <1>10, <1>13

\* Saving the tier of the wallet of `a`, after which r relies on nothing.
LEMMA TierWritten ==
    ASSUME Queued(WalletKind), CoreInv, SpendInv, NEW r \in Request, OnlyMoves(r), InFlight(r),
           job[r].kind \in WalletKind, NEW a \in Account, Holder[a] = Whom(r),
           NEW tier \in Tier, wallet[a].tier # "none", loaded[r] = [wallet[a] EXCEPT !.tier = tier],
           wallet' = [wallet EXCEPT ![a] = loaded[r]], loaded' = [loaded EXCEPT ![r] = NoWallet],
           \A s \in Request : s # r => todo'[s] = todo[s],
           UNCHANGED <<inMonth, spent>>, r \notin inMonth, pc'[r] \notin Relying
    PROVE  SpendInv'
<1>0. WalletsTypeOK
  BY DEF CoreInv
<1>1. /\ wallet'[a] = loaded[r] /\ \A c \in Account : c # a => wallet'[c] = wallet[c]
      /\ \A s \in Request : s # r => loaded'[s] = loaded[s]
  BY <1>0 DEF WalletsTypeOK
<1>2. /\ wallet'[a].tier # "none" /\ wallet'[a].due = wallet[a].due
      /\ wallet'[a].monthlySpend = wallet[a].monthlySpend
  <2>1. wallet[a] \in Wallet
    BY <1>0 DEF WalletsTypeOK
  <2> QED BY <1>1, <2>1 DEF Wallet, Tier
<1>3. RowInv(a)'
  <2>1. IF wallet[a].due THEN spent[a] = 0 ELSE spent[a] <= wallet[a].monthlySpend
    BY DEF SpendInv, RowInv
  <2> QED BY <1>2, <2>1 DEF RowInv
<1>4. ReliesInv(r)'
  BY Carefree
<1> QED BY <1>1, <1>3, <1>4, OneWrites

\* Loading the wallet of `a` to set its tier.
LEMMA TierLoaded ==
    ASSUME CoreInv, SpendInv, NEW r \in Request, OnlyMoves(r), NEW a \in Account,
           UNCHANGED <<wallet, spent, inMonth, todo>>, r \notin inMonth,
           NEW tier, Hold(r, [wallet[a] EXCEPT !.tier = tier]), wallet[a].tier # "none",
           \/ pc'[r] = "upgradeSave" /\ a = job[r].account /\ tier = job[r].tier
           \/ pc'[r] = "nextSave" /\ a = Current(r) /\ tier = "standard"
    PROVE  SpendInv'
<1>1. /\ loaded'[r] = [wallet[a] EXCEPT !.tier = tier]
      /\ \A s \in Request : s # r => loaded'[s] = loaded[s]
  BY DEF Hold, CoreInv, WalletsTypeOK
<1>2. Current(r)' = Current(r) /\ job' = job
  BY DEF Current, OnlyMoves
<1>3. ReliesInv(r)'
  BY <1>1, <1>2 DEF ReliesInv
<1> QED BY <1>1, <1>3, NobodyWrites

LEMMA UpgradeStep ==
    ASSUME Queued(WalletKind), CoreInv, SpendInv, NEW r \in Request, UpgradeTier(r)
    PROVE  SpendInv' /\ spent' = spent
<1>0. ControlInv /\ Located /\ WalletsTypeOK /\ job[r].kind = "upgrade"
  BY DEF CoreInv, BaseInv, ControlInv, UpgradeTier, At, Fits
<1>1. OnlyMoves(r) /\ InFlight(r) /\ job[r].kind \in WalletKind
  BY <1>0, WalletsActor DEF WalletsStep, WalletKind
<1>2. PICK a \in Account : a = job[r].account /\ Holder[a] = Whom(r) /\ job[r].tier \in Tier
  BY <1>0, JobFields DEF Whom
<1>3. r \notin inMonth /\ UNCHANGED <<todo, inMonth, spent>>
  BY DEF SpendInv, ReliesInv, UpgradeTier, At, TierFind, TierSave
<1>4. CASE At(r, "upgradeFind") /\ TierFind(r, a, job[r].tier, "upgradeSave", "refused")
  <2>1. wallet' = wallet
    BY <1>4 DEF TierFind
  <2>2. CASE wallet[a].tier = "none"
    <3>1. pc'[r] = "refused" /\ loaded' = loaded
      BY <1>0, <1>4, <2>2 DEF TierFind, Goto, Located
    <3>2. ReliesInv(r)'
      BY <1>3, <3>1, Carefree DEF Relying
    <3> QED BY <1>1, <1>3, <2>1, <3>1, <3>2, NobodyWrites
  <2>3. CASE wallet[a].tier # "none"
    <3>1. pc'[r] = "upgradeSave" /\ Hold(r, [wallet[a] EXCEPT !.tier = job[r].tier])
      BY <1>0, <1>4, <2>3 DEF TierFind, Goto, Located
    <3> QED BY <1>1, <1>2, <1>3, <2>1, <2>3, <3>1, TierLoaded
  <2> QED BY <1>3, <2>2, <2>3
<1>5. CASE At(r, "upgradeSave") /\ TierSave(r, a, "ok")
  <2>1. pc'[r] = "ok" /\ pc'[r] \notin Relying
    BY <1>0, <1>5 DEF TierSave, Goto, Located, Relying
  <2>2. /\ wallet' = [wallet EXCEPT ![a] = loaded[r]]
        /\ loaded' = [loaded EXCEPT ![r] = NoWallet]
    BY <1>5 DEF TierSave, Hold
  <2>3. wallet[a].tier # "none" /\ loaded[r] = [wallet[a] EXCEPT !.tier = job[r].tier]
    BY <1>2, <1>5 DEF At, SpendInv, ReliesInv
  <2> QED BY <1>1, <1>2, <1>3, <2>1, <2>2, <2>3, TierWritten
<1> QED BY <1>2, <1>4, <1>5 DEF UpgradeTier

LEMMA KycWalletStep ==
    ASSUME Queued(WalletKind), CoreInv, SpendInv, NEW r \in Request, KycStep(r)
    PROVE  SpendInv' /\ spent' = spent
<1>0. ControlInv /\ Located /\ WalletsTypeOK
  BY DEF CoreInv, BaseInv, ControlInv
<1>1. OnlyMoves(r) /\ InFlight(r) /\ job[r].kind \in {"submit", "approve", "reject"}
  BY <1>0, KycActor
<1>2. r \notin inMonth
  <2>1. pc[r] \notin {"spendReset", "record"}
    BY <1>0, <1>1 DEF ControlInv, Fits
  <2> QED BY <2>1 DEF SpendInv, ReliesInv
<1>3. UNCHANGED <<inMonth, spent>>
  BY DEF KycStep, SubmitFind, SubmitInsert, SubmitSave, ReviewFind, ReviewSave, UserUpdate,
     AccountsFind, NextFind, NextSave, UpgradeFails, wallets, TierFind
<1>p. ASSUME NEW accounts, Proceed(r, accounts)
      PROVE pc'[r] \in {"ok", "nextFind"} /\ \A s \in Request : s # r => todo'[s] = todo[s]
  BY <1>0, <1>p DEF Proceed, Goto, Located, WalletsTypeOK
<1>q. ASSUME NEW accounts, Proceed(r, accounts), wallet' = wallet,
             \A s \in Request : s # r => loaded'[s] = loaded[s]
      PROVE SpendInv'
  <2>1. ReliesInv(r)'
    BY <1>2, <1>3, <1>p, <1>q, Carefree DEF Relying
  <2> QED BY <1>1, <1>3, <1>p, <1>q, <2>1, NobodyWrites
<1>4. CASE AccountsFind(r)
  BY <1>3, <1>4, <1>q DEF AccountsFind
<1>5. CASE NextFind(r)
  <2>1. Current(r) \in Account
    BY <1>5, CurrentType DEF NextFind, At, CoreInv, TodoInv, WalletsTypeOK
  <2>2. CASE /\ wallet[Current(r)].tier # "none" /\ UNCHANGED todo
             /\ TierFind(r, Current(r), "standard", "nextSave", "nextSave")
    <3>1. pc'[r] = "nextSave" /\ Hold(r, [wallet[Current(r)] EXCEPT !.tier = "standard"])
      BY <1>0, <2>2 DEF TierFind, Goto, Located
    <3>2. wallet' = wallet
      BY <2>2 DEF TierFind
    <3> QED BY <1>1, <1>2, <1>3, <2>1, <2>2, <3>1, <3>2, TierLoaded
  <2>3. CASE Proceed(r, todo[r] \ {Current(r)}) /\ UNCHANGED <<wallet, loaded, inMonth, spent>>
    BY <1>3, <1>q, <2>3
  <2> QED BY <1>3, <1>5, <2>2, <2>3 DEF NextFind
<1>6. CASE NextSave(r)
  <2>1. pc[r] = "nextSave" /\ job[r].kind \in WalletKind
    BY <1>0, <1>6 DEF NextSave, At, ControlInv, Fits, WalletKind
  <2>2. PICK a \in Account : a = Current(r) /\ Holder[a] = Whom(r)
    BY <2>1, RelyingSubject DEF Relying
  <2>3. wallet[a].tier # "none" /\ loaded[r] = [wallet[a] EXCEPT !.tier = "standard"]
    BY <2>1, <2>2 DEF SpendInv, ReliesInv
  <2>4. /\ wallet' = [wallet EXCEPT ![a] = loaded[r]]
        /\ loaded' = [loaded EXCEPT ![r] = NoWallet]
        /\ Proceed(r, todo[r] \ {Current(r)})
    BY <1>6, <2>2 DEF NextSave, Hold
  <2>5. pc'[r] \notin Relying /\ \A s \in Request : s # r => todo'[s] = todo[s]
    BY <1>p, <2>4 DEF Relying
  <2>6. "standard" \in Tier
    BY DEF Tier
  <2> QED BY <1>1, <1>2, <1>3, <2>1, <2>2, <2>3, <2>4, <2>5, <2>6, TierWritten
<1>7. CASE UpgradeFails(r)
  <2>1. \A s \in Request : s # r => loaded'[s] = loaded[s]
    BY <1>0, <1>7 DEF UpgradeFails, Hold, WalletsTypeOK
  <2> QED BY <1>3, <1>7, <1>q, <2>1 DEF UpgradeFails
<1>8. CASE /\ UNCHANGED wallets
           /\ \/ SubmitFind(r) \/ SubmitInsert(r) \/ SubmitSave(r)
              \/ ReviewFind(r) \/ ReviewSave(r) \/ UserUpdate(r)
  <2>1. pc'[r] \notin Relying
    BY <1>0, <1>8 DEF SubmitFind, SubmitInsert, SubmitSave, ReviewFind, ReviewSave, UserUpdate, Goto,
       Located, Relying
  <2>2. ReliesInv(r)'
    BY <1>2, <1>3, <2>1, Carefree
  <2> QED BY <1>1, <1>3, <1>8, <2>2, NobodyWrites DEF wallets
<1> QED BY <1>4, <1>5, <1>6, <1>7, <1>8
        DEF KycStep, SubmitFind, SubmitInsert, SubmitSave, ReviewFind, ReviewSave, UserUpdate

\* The reset date passes: tier and counter stay, and a new tier is set as before.
LEMMA DueFields ==
    ASSUME NEW w \in Wallet
    PROVE  /\ [w EXCEPT !.due = TRUE].due
           /\ [w EXCEPT !.due = TRUE].tier = w.tier
           /\ [w EXCEPT !.due = TRUE].monthlySpend = w.monthlySpend
BY DEF Wallet

LEMMA DueTier ==
    ASSUME NEW w \in Wallet, NEW tier
    PROVE  [[w EXCEPT !.tier = tier] EXCEPT !.due = TRUE] =
                [[w EXCEPT !.due = TRUE] EXCEPT !.tier = tier]
BY DEF Wallet

LEMMA MonthStep ==
    ASSUME CoreInv, SpendInv, MonthPasses
    PROVE  SpendInv' /\ \A a \in Account : spent'[a] = 0
<1>0. WalletsTypeOK
  BY DEF CoreInv
<1>1. job' = job /\ pc' = pc /\ todo' = todo /\ inMonth' = {}
  BY DEF MonthPasses, requests
<1>2. \A a \in Account : spent'[a] = 0
  BY DEF MonthPasses
<1>w. ASSUME NEW a \in Account
      PROVE  /\ wallet[a] \in Wallet /\ wallet'[a] = [wallet[a] EXCEPT !.due = TRUE]
             /\ wallet'[a].due /\ wallet'[a].tier = wallet[a].tier
             /\ wallet'[a].monthlySpend = wallet[a].monthlySpend
  <2>1. wallet[a] \in Wallet
    BY <1>0 DEF WalletsTypeOK
  <2>2. wallet'[a] = [wallet[a] EXCEPT !.due = TRUE]
    BY DEF MonthPasses
  <2> QED BY <2>1, <2>2, DueFields
<1>l. ASSUME NEW r \in Request
      PROVE  /\ loaded'[r] = [loaded[r] EXCEPT !.due = TRUE]
             /\ loaded'[r].tier = loaded[r].tier
             /\ loaded'[r].monthlySpend = loaded[r].monthlySpend
  <2>1. loaded[r] \in Wallet
    BY <1>0 DEF WalletsTypeOK
  <2>2. loaded'[r] = [loaded[r] EXCEPT !.due = TRUE]
    BY DEF MonthPasses
  <2> QED BY <2>1, <2>2, DueFields
<1>t. ASSUME NEW r \in Request, NEW a \in Account, NEW tier,
             loaded[r] = [wallet[a] EXCEPT !.tier = tier]
      PROVE  loaded'[r] = [wallet'[a] EXCEPT !.tier = tier]
  <2>1. /\ wallet[a] \in Wallet /\ wallet'[a] = [wallet[a] EXCEPT !.due = TRUE]
        /\ loaded'[r] = [loaded[r] EXCEPT !.due = TRUE]
    BY <1>l, <1>w
  <2>2. [[wallet[a] EXCEPT !.tier = tier] EXCEPT !.due = TRUE] =
            [[wallet[a] EXCEPT !.due = TRUE] EXCEPT !.tier = tier]
    BY <2>1, DueTier
  <2> QED BY <1>t, <2>1, <2>2
<1>3. ASSUME NEW a \in Account PROVE RowInv(a)'
  <2>1. wallet[a] = NoWallet => wallet'[a] = NoWallet
    BY <1>w DEF NoWallet
  <2> QED BY <1>2, <1>w, <2>1 DEF SpendInv, RowInv
<1>4. ASSUME NEW r \in Request PROVE ReliesInv(r)'
  <2>1. job[r].account \in Account /\ Current(r)' = Current(r)
    BY <1>1, JobFields DEF CoreInv, BaseInv, ControlInv, Current
  <2>2. ReliesInv(r)
    BY DEF SpendInv
  <2>3. CASE pc[r] = "nextSave"
    <3>1. Current(r) \in Account
      BY <2>3, RelyingSubject DEF Relying
    <3>2. /\ wallet[Current(r)].tier # "none"
          /\ loaded[r] = [wallet[Current(r)] EXCEPT !.tier = "standard"]
      BY <2>2, <2>3 DEF ReliesInv
    <3>3. wallet'[Current(r)].tier # "none"
      BY <1>w, <3>1, <3>2
    <3>4. loaded'[r] = [wallet'[Current(r)] EXCEPT !.tier = "standard"]
      BY <1>t, <3>1, <3>2
    <3> QED BY <1>1, <2>1, <2>3, <3>3, <3>4 DEF ReliesInv
  <2>4. CASE pc[r] = "upgradeSave"
    <3>1. /\ wallet[job[r].account].tier # "none"
          /\ loaded[r] = [wallet[job[r].account] EXCEPT !.tier = job[r].tier]
      BY <2>2, <2>4 DEF ReliesInv
    <3>2. wallet'[job[r].account].tier # "none"
      BY <1>w, <2>1, <3>1
    <3>3. loaded'[r] = [wallet'[job[r].account] EXCEPT !.tier = job[r].tier]
      BY <1>t, <2>1, <3>1
    <3> QED BY <1>1, <2>4, <3>2, <3>3 DEF ReliesInv
  <2>5. CASE pc[r] \in {"spendReset", "record"}
    <3>1. wallet'[job[r].account].due /\ wallet'[job[r].account].tier = wallet[job[r].account].tier
      BY <1>w, <2>1
    <3> QED BY <1>1, <1>l, <2>2, <2>5, <3>1 DEF ReliesInv
  <2>6. CASE pc[r] \notin Relying
    BY <1>1, <2>6, Carefree
  <2> QED BY <2>3, <2>4, <2>5, <2>6 DEF Relying
<1> QED BY <1>2, <1>3, <1>4 DEF SpendInv

LEMMA SpendNext ==
    ASSUME Queued(WalletKind), CoreInv, SpendInv, [Next]_identity
    PROVE  /\ SpendInv'
           /\ \A a \in Account : spent'[a] > spent[a] => spent'[a] <= MonthlyLimit[wallet[a].tier]
<1>0. ControlInv /\ Located /\ WalletsTypeOK
  BY DEF CoreInv, BaseInv, ControlInv
<1> DEFINE Fair == \A a \in Account :
                        spent'[a] > spent[a] => spent'[a] <= MonthlyLimit[wallet[a].tier]
<1>n. ASSUME \A a \in Account : spent'[a] = spent[a] \/ spent'[a] = 0 PROVE Fair
  <2>1. \A n \in Nat : ~(n > n) /\ ~(0 > n)
    OBVIOUS
  <2> QED BY <1>0, <1>n, <2>1 DEF WalletsTypeOK
<1> HIDE DEF Fair
<1>1. ASSUME NEW r \in Request, WalletsStep(r) PROVE SpendInv' /\ Fair
  BY <1>1, <1>n, CreateStep, FindStep, ResetStep, RecordStep, UpgradeStep DEF WalletsStep, Fair
<1>2. ASSUME NEW r \in Request, KycStep(r) PROVE SpendInv' /\ Fair
  BY <1>2, <1>n, KycWalletStep
<1>3. ASSUME MonthPasses PROVE SpendInv' /\ Fair
  BY <1>3, <1>n, MonthStep
<1>4. ASSUME NEW r \in Request, FailRequest(r) PROVE SpendInv' /\ Fair
  <2>1. OnlyMoves(r) /\ pc'[r] = "error"
    BY <1>0, <1>4, OtherActor
  <2>2. UNCHANGED <<wallet, spent>> /\ inMonth' = inMonth \ {r}
    BY <1>4 DEF FailRequest, DropMemory
  <2>3. \A s \in Request : s # r => loaded'[s] = loaded[s] /\ todo'[s] = todo[s]
    BY <1>4 DEF FailRequest, DropMemory
  <2>4. ReliesInv(r)'
    BY <2>1, <2>2, Carefree DEF Relying
  <2> QED BY <1>n, <2>1, <2>2, <2>3, <2>4, NobodyWrites
<1>5. ASSUME Restart PROVE SpendInv' /\ Fair
  <2>1. UNCHANGED <<wallet, spent>> /\ inMonth' = {}
    BY <1>0, <1>5 DEF Restart, DropMemory, WalletsTypeOK
  <2>2. \A r \in Request : pc'[r] \notin Relying
    BY <1>0, <1>5, NoActor DEF InFlight, Answered, Relying
  <2>3. \A r \in Request : ReliesInv(r)'
    BY <2>1, <2>2, Carefree
  <2> QED BY <1>n, <2>1, <2>3 DEF SpendInv, RowInv
<1>6. ASSUME NEW r \in Request, UNCHANGED wallets,
             Arrive(r) \/ UsersStep(r) \/ PinStep(r) \/ TryAgain(r) \/ BeneficiariesStep(r)
      PROVE  SpendInv' /\ Fair
  <2>1. /\ OnlyMoves(r)
        /\ NoneEnters(Inner \ UserInner) \/ NoneEnters(Inner \ PinInner)
            \/ NoneEnters(Inner \ SavedInner) \/ NoneEnters(Inner)
    BY <1>0, <1>6, OtherActor, UsersActor, PinActor, BeneficiariesActor
  <2>2. pc[r] \notin Relying
    <3>1. CASE pc[r] \in {"new"} \cup Answered
      BY <3>1 DEF Relying, Answered
    <3>2. CASE job[r].kind \notin WalletKind
      BY <3>2, RelyingSubject
    <3> QED BY <1>0, <1>6, <3>1, <3>2, OtherActor, UsersActor, PinActor, BeneficiariesActor
            DEF WalletKind, CustomerKind
  <2>3. pc'[r] \notin Relying
    BY <2>1, <2>2 DEF NoneEnters, Relying, Inner, UserInner, WalletInner, KycInner, PinInner,
       SavedInner
  <2>4. r \notin inMonth
    BY <2>2 DEF SpendInv, ReliesInv, Relying
  <2>5. ReliesInv(r)'
    BY <1>6, <2>3, <2>4, Carefree DEF wallets
  <2> QED BY <1>6, <1>n, <2>1, <2>5, NobodyWrites DEF wallets
<1>7. ASSUME UNCHANGED requests, UNCHANGED wallets PROVE SpendInv' /\ Fair
  <2>1. \A a \in Account : RowInv(a)'
    BY <1>7 DEF wallets, SpendInv, RowInv
  <2>2. \A r \in Request : ReliesInv(r)'
    BY <1>7, Bystander DEF requests, wallets, SpendInv
  <2> QED BY <1>7, <1>n, <2>1, <2>2 DEF wallets, SpendInv
<1>8. \/ \E r \in Request :
           \/ WalletsStep(r) \/ KycStep(r) \/ FailRequest(r)
           \/ /\ UNCHANGED wallets
              /\ Arrive(r) \/ UsersStep(r) \/ PinStep(r) \/ TryAgain(r) \/ BeneficiariesStep(r)
      \/ MonthPasses \/ Restart
      \/ UNCHANGED requests /\ UNCHANGED wallets
  BY Cases DEF LockExpires, identity
<1>9. SpendInv' /\ Fair
  BY <1>1, <1>2, <1>3, <1>4, <1>5, <1>6, <1>7, <1>8
<1> QED BY <1>9 DEF Fair

\* What is spent from an account in a month stays within the limit of its tier,
\* over resets, upgrades, crashes and midnights, for all limits and accounts, if
\* spends, upgrades and approvals of a customer overlap with nothing else of his.
THEOREM MonthlyLimits == ASSUME Queued(WalletKind) PROVE Spec => WithinMonthlyLimit
<1>1. CoreInv /\ SpendInv /\ [Next]_identity => SpendInv'
  BY SpendNext
<1>2. CoreInv /\ SpendInv /\ [Next]_identity
        => [\A a \in Account : spent'[a] > spent[a] =>
                spent'[a] <= MonthlyLimit[wallet[a].tier]]_<<requests, wallets>>
  BY SpendNext
<1> QED BY SpendInit, Core, <1>1, <1>2, PTL DEF Spec, WithinMonthlyLimit
=============================================================================
