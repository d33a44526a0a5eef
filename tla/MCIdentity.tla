----------------------------- MODULE MCIdentity -----------------------------
(* Small instances of Identity: ann is registered and has two accounts, the *)
(* second without a wallet; bob is not.                                     *)
EXTENDS Identity, TLC

CONSTANTS ann, bob, a1, a2, p, q

MCHolder == a1 :> ann @@ a2 :> ann

MCUser == ann :> [registered |-> TRUE, isActive |-> TRUE, kycStatus |-> "pending",
                  session |-> FALSE] @@ bob :> NoUser

MCWallet == a1 :> [tier |-> "basic", monthlySpend |-> 2, due |-> FALSE] @@ a2 :> NoWallet

MCSingle == [basic |-> 2, standard |-> 3, premium |-> 3]

MCMonthly == [basic |-> 3, standard |-> 5, premium |-> 6]

MCPin == ann :> p @@ bob :> NoPin

MCSubmission == ann :> "none" @@ bob :> "none"

Ask(kind, u) == [kind |-> kind, user |-> u, account |-> a1, tier |-> "basic",
                 amount |-> 0, pin |-> q, newPin |-> q]

UserJobs == {Ask("register", bob), Ask("login", ann), Ask("refresh", ann),
             Ask("logout", ann), Ask("deactivate", ann), Ask("activate", ann)}

KycJobs == {Ask("submit", ann), Ask("approve", ann), Ask("reject", ann),
            Ask("deactivate", ann)}

UpgradeJobs == {Ask("submit", ann), Ask("approve", ann), [Ask("spend", ann) EXCEPT !.amount = 2]}

WalletJobs == {[Ask("spend", ann) EXCEPT !.amount = 1],
               [Ask("spend", ann) EXCEPT !.amount = 2],
               [Ask("upgrade", ann) EXCEPT !.tier = "premium"],
               [Ask("createWallet", ann) EXCEPT !.account = a2]}

PinJobs == {Ask("verifyPin", ann), [Ask("changePin", ann) EXCEPT !.pin = p]}

NewcomerJobs == {Ask("register", bob), Ask("setPin", bob), Ask("verifyPin", bob)}

SavedJobs == {Ask("add", ann), [Ask("add", ann) EXCEPT !.account = a2],
              Ask("update", ann), Ask("remove", ann), Ask("use", ann)}

\* Requests that meet in the same rows: of users, of users and submissions, of
\* those and wallets, of wallets, of beneficiaries, and PINs.  ann's PIN is p; a
\* wrong one may be tried on it, and again; bob has none yet.
MCWorkload ==
    UNION {[Request -> jobs] :
            jobs \in {UserJobs, KycJobs, UpgradeJobs, WalletJobs, SavedJobs, PinJobs,
                     NewcomerJobs}}

\* What a customer's devices send at once: sessions, PINs, and beneficiaries.
Devices == {{"register", "login", "refresh", "logout"}, {"setPin", "changePin", "verifyPin"},
            {"add", "update", "remove", "use"}}

\* One customer who logs in, refreshes and logs out.
LogoutJobs == [Request -> {Ask("login", ann), Ask("refresh", ann), Ask("logout", ann)}]
=============================================================================
