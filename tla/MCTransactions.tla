--------------------------- MODULE MCTransactions ---------------------------
(* Small instances of Transactions: accounts a1 and a2 in one currency, a3  *)
(* in another, or not opened yet.                                          *)
EXTENDS Transactions, TLC

CONSTANTS a1, a2, a3, ann, bob, k, g

MCOwner == a1 :> ann @@ a2 :> bob @@ a3 :> ann

MCCurrencyOf == a1 :> "NGN" @@ a2 :> "NGN" @@ a3 :> "USD"

Active(n) == [balance |-> n, ledgerBalance |-> n, status |-> "active"]

TwoOpen == a1 :> Active(3) @@ a2 :> Active(2) @@ a3 :> Absent

AllOpen == a1 :> Active(3) @@ a2 :> Active(2) @@ a3 :> Active(1)

Ask(kind, user, source, destination, amount, key, ref) ==
    [kind |-> kind, user |-> user, source |-> source, destination |-> destination,
     amount |-> amount, key |-> key, ref |-> ref]

Transfer(user, source, destination, amount) ==
    Ask("transfer", user, source, destination, amount, NoKey, NoRef)
Keyed(job_) == [job_ EXCEPT !.key = k]
Withdraw(user, source, amount) == Ask("withdraw", user, source, source, amount, NoKey, NoRef)
Deposit(destination, amount, ref) ==
    Ask("deposit", ann, destination, destination, amount, NoKey, ref)
Freeze(user, source) == Ask("freeze", user, source, source, 1, NoKey, NoRef)
Unfreeze(source) == Ask("unfreeze", ann, source, source, 1, NoKey, NoRef)
OpenOne == Ask("open", ann, a1, a1, 1, NoKey, NoRef)

\* Every endpoint, the requests it refuses included.
EveryJob == {Transfer(ann, a1, a2, 2), Transfer(bob, a2, a1, 1), Transfer(bob, a1, a2, 1),
             Transfer(ann, a1, a1, 1), Transfer(ann, a1, a3, 1),
             Keyed(Transfer(ann, a1, a2, 3)), Keyed(Withdraw(ann, a1, 2)), Withdraw(bob, a2, 2),
             Deposit(a2, 1, g), Deposit(a3, 1, NoRef), Deposit(a1, 2, NoRef),
             Freeze(ann, a1), Freeze(bob, a2), Freeze(bob, a1), Unfreeze(a1), Unfreeze(a3), OpenOne}

\* What collides: opposite transfers, a withdrawal, one deposit reported twice.
MoneyJobs == {Transfer(ann, a1, a2, 1), Transfer(bob, a2, a1, 1), Withdraw(ann, a1, 2),
              Deposit(a2, 1, g)}

KeyedJobs == {Keyed(Transfer(ann, a1, a2, 1)), Keyed(Withdraw(ann, a1, 1)), Deposit(a1, 1, NoRef)}

SerialJobs == {Transfer(ann, a1, a2, 2), Transfer(bob, a2, a1, 1), Withdraw(ann, a1, 3),
               Deposit(a2, 1, g), Deposit(a3, 2, g), Freeze(ann, a1), Unfreeze(a1), OpenOne}

\* More than the account holds: every one fails.
FailingJobs == {Withdraw(ann, a1, 4)}

Symmetric == Permutations(Request)
=============================================================================
