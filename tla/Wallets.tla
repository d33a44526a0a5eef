------------------------------ MODULE Wallets ------------------------------
(***************************************************************************)
(* Wallets: a tier with its limits, and what was spent this month.         *)
(*                                                                         *)
(* No controller calls createForAccount, validateSpendLimit or recordSpend *)
(* yet.  They are modelled as called by the payment they are written for:  *)
(* validate, move the money, record ("spend").  `save(wallet)` writes back *)
(* whatever has changed since the wallet was loaded, as in Users.          *)
(***************************************************************************)
EXTENDS Requests

CONSTANTS InitialWallet,  \* account -> row at start
          SingleLimit,    \* TIER_LIMITS, in units of the instance
          MonthlyLimit    \* (the daily limit is stored and never compared)

\* due: there is no spendResetDate, or it has passed.
Wallet == [tier : Tier \cup {"none"}, monthlySpend : Nat, due : BOOLEAN]

NoWallet == [tier |-> "none", monthlySpend |-> 0, due |-> TRUE]

ASSUME InitialWalletAssumption ==
    /\ InitialWallet \in [Account -> Wallet]
    /\ \A a \in Account : InitialWallet[a].tier = "none" => InitialWallet[a] = NoWallet
ASSUME LimitAssumption == {SingleLimit, MonthlyLimit} \subseteq [Tier -> Nat]

VARIABLES
    wallet,   \* rows of table wallets
    loaded,   \* the wallet entity a request holds
    todo,     \* accounts whose wallet a request has yet to upgrade
    inMonth,  \* spends whose validation read the clock in the current month
    spent     \* account -> sum of the recorded ones (history)

wallets == <<wallet, loaded, todo, inMonth, spent>>

WalletsInit ==
    /\ wallet = InitialWallet
    /\ loaded = [r \in Request |-> NoWallet]
    /\ todo = [r \in Request |-> {}]
    /\ inMonth = {}
    /\ spent = [a \in Account |-> IF InitialWallet[a].due THEN 0
                                ELSE InitialWallet[a].monthlySpend]

Hold(r, w) == loaded' = [loaded EXCEPT ![r] = w]

-----------------------------------------------------------------------------
\* createForAccount; an account has one wallet.
CreateForAccount(r) ==
    LET a == job[r].account IN
    /\ At(r, "createWallet")
    /\ IF wallet[a].tier = "none"
       THEN /\ wallet' = [wallet EXCEPT ![a] = [NoWallet EXCEPT !.tier = "basic"]]
            /\ Goto(r, "ok")
       ELSE Goto(r, "error") /\ UNCHANGED wallet
    /\ UNCHANGED <<loaded, todo, inMonth, spent>>

\* Mutant of WithinLimit: the spend so far is not added.
WithinLimitAlone(w, amount) == amount <= MonthlyLimit[w.tier]

WithinLimit(w, amount) == w.monthlySpend + amount <= MonthlyLimit[w.tier]

\* validateSpendLimit answers from the wallet w it holds; what it allows is a
\* spend of the current month if it is one of those in `current`.
Validated(r, w, current) ==
    IF WithinLimit(w, job[r].amount)
    THEN Goto(r, "record") /\ inMonth' = current
    ELSE Goto(r, "refused") /\ inMonth' = current \ {r}

\* validateSpendLimit: findById, the single limit, the clock: is a new month due?
SpendFind(r) ==
    LET w == wallet[job[r].account] IN
    /\ At(r, "spendFind")
    /\ \/ /\ w.tier = "none" \/ job[r].amount > SingleLimit[w.tier]
          /\ Goto(r, "refused")
          /\ UNCHANGED <<loaded, inMonth>>
       \/ /\ w.tier # "none" /\ job[r].amount <= SingleLimit[w.tier] /\ w.due
          /\ Hold(r, [w EXCEPT !.monthlySpend = 0, !.due = FALSE])
          /\ Goto(r, "spendReset")
          /\ inMonth' = inMonth \cup {r}
       \/ /\ w.tier # "none" /\ job[r].amount <= SingleLimit[w.tier] /\ ~w.due
          /\ Validated(r, w, inMonth \cup {r})
          /\ UNCHANGED loaded
    /\ UNCHANGED <<wallet, todo, spent>>

\* save(wallet) with nothing spent and the first of the month after the one the
\* clock showed; then the monthly limit.
SpendReset(r) ==
    /\ At(r, "spendReset")
    /\ wallet' = [wallet EXCEPT ![job[r].account] = loaded[r]]
    /\ Hold(r, NoWallet)
    /\ Validated(r, loaded[r], inMonth)
    /\ UNCHANGED <<todo, spent>>

\* recordSpend: one UPDATE that increments.
RecordSpend(r) ==
    LET a == job[r].account IN
    /\ At(r, "record")
    /\ wallet' = [wallet EXCEPT ![a].monthlySpend = @ + job[r].amount]
    /\ spent' = [spent EXCEPT ![a] = IF r \in inMonth THEN @ + job[r].amount ELSE @]
    /\ inMonth' = inMonth \ {r}
    /\ Goto(r, "ok")
    /\ UNCHANGED <<loaded, todo>>

\* upgradeTier: findByAccount; an account without a wallet is an error ...
TierFind(r, a, tier, found, missing) ==
    /\ IF wallet[a].tier = "none"
       THEN Goto(r, missing) /\ UNCHANGED loaded
       ELSE Hold(r, [wallet[a] EXCEPT !.tier = tier]) /\ Goto(r, found)
    /\ UNCHANGED <<wallet, inMonth, spent>>

\* ... and save.
TierSave(r, a, step) ==
    /\ wallet' = [wallet EXCEPT ![a] = loaded[r]]
    /\ Hold(r, NoWallet)
    /\ Goto(r, step)
    /\ UNCHANGED <<inMonth, spent>>

\* An administrator sets a tier, lower ones included.
UpgradeTier(r) ==
    /\ \/ /\ At(r, "upgradeFind")
          /\ TierFind(r, job[r].account, job[r].tier, "upgradeSave", "refused")
       \/ /\ At(r, "upgradeSave")
          /\ TierSave(r, job[r].account, "ok")
    /\ UNCHANGED todo

\* The first of the month: every spendResetDate passes, stored or about to be.
MonthPasses ==
    /\ \/ \E a \in Account : ~wallet[a].due
       \/ \E r \in Request : ~loaded[r].due
    /\ wallet' = [a \in Account |-> [wallet[a] EXCEPT !.due = TRUE]]
    /\ loaded' = [r \in Request |-> [loaded[r] EXCEPT !.due = TRUE]]
    /\ inMonth' = {}
    /\ spent' = [a \in Account |-> 0]
    /\ UNCHANGED <<requests, todo>>

WalletsStep(r) ==
    \/ CreateForAccount(r) \/ SpendFind(r) \/ SpendReset(r) \/ RecordSpend(r)
    \/ UpgradeTier(r)
-----------------------------------------------------------------------------
(* Properties. *)

WalletsTypeOK ==
    /\ wallet \in [Account -> Wallet]
    /\ loaded \in [Request -> Wallet]
    /\ todo \in [Request -> SUBSET Account]
    /\ inMonth \subseteq Request
    /\ spent \in [Account -> Nat]

\* What is spent from an account in a calendar month stays within the limit of
\* its tier, over resets, upgrades, crashes and spends recorded after midnight,
\* if requests for one customer follow each other.
WithinMonthlyLimit ==
    [][\A a \in Account : spent'[a] > spent[a] =>
            spent'[a] <= MonthlyLimit[wallet[a].tier]]_<<requests, wallets>>
=============================================================================
