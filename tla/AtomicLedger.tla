---------------------------- MODULE AtomicLedger ----------------------------
(***************************************************************************)
(* What the money paths promise to a client: a request is booked in one    *)
(* indivisible step that moves the money and records the transaction, or   *)
(* recorded as failed because it could not be booked, or leaves no trace.  *)
(* Transactions implements this for clients whose requests do not contend  *)
(* for an account; LedgerProofs proves it.                                 *)
(***************************************************************************)
EXTENDS Integers

CONSTANTS Account, Request, Fee, Owner, CurrencyOf, Opening, NoRef

VARIABLES job, acct, row

vars == <<job, acct, row>>

Init ==
    /\ acct = Opening
    /\ row = [r \in Request |-> "none"]

Exists(a) == acct[a].status # "absent"

Plus(found, delta) == [found EXCEPT !.balance = @ + delta, !.ledgerBalance = @ + delta]

\* The reference the caller of a deposit supplied is not recorded yet.
Fresh(r) ==
    \A s \in Request : job[r].kind = "deposit" /\ job[s].kind = "deposit"
        /\ job[r].ref # NoRef /\ job[r].ref = job[s].ref => row[s] = "none"

\* The account named to be debited is the caller's, open and covers the sum.
Covered(r, sum) == LET found == acct[job[r].source] IN
    found.status = "active" /\ found.balance >= sum

Sensible(r) == LET j == job[r] IN
    /\ j.kind \in {"transfer", "withdraw"} => /\ Exists(j.source)
                                              /\ Owner[j.source] = j.user
    /\ j.kind \in {"transfer", "deposit"} => Exists(j.destination)
    /\ j.kind = "transfer" => /\ j.source # j.destination
                              /\ CurrencyOf[j.source] = CurrencyOf[j.destination]

Book(r) ==
    LET j == job[r] IN
    /\ row[r] = "none" /\ Sensible(r) /\ Fresh(r)
    /\ \/ /\ j.kind = "transfer"
          /\ \E f \in Fee :
                /\ Covered(r, j.amount + f)
                /\ acct' = [acct EXCEPT ![j.source] = Plus(@, -(j.amount + f)),
                                        ![j.destination] = Plus(@, j.amount)]
       \/ /\ j.kind = "withdraw"
          /\ Covered(r, j.amount)
          /\ acct' = [acct EXCEPT ![j.source] = Plus(@, -j.amount)]
       \/ /\ j.kind = "deposit"
          /\ acct' = [acct EXCEPT ![j.destination] = Plus(@, j.amount)]
    /\ row' = [row EXCEPT ![r] = "completed"]
    /\ UNCHANGED job

\* Only a debit that is not covered is recorded as failed.
Refuse(r) ==
    /\ row[r] = "none" /\ Sensible(r)
    /\ \/ job[r].kind = "withdraw" /\ ~Covered(r, job[r].amount)
       \/ job[r].kind = "transfer" /\ \E f \in Fee : ~Covered(r, job[r].amount + f)
    /\ row' = [row EXCEPT ![r] = "failed"]
    /\ UNCHANGED <<job, acct>>

\* A freeze by the owner, an unfreeze by an administrator.
SetStatus(r) ==
    LET a == job[r].source IN
    /\ Exists(a)
    /\ \/ job[r].kind = "freeze" /\ Owner[a] = job[r].user
          /\ acct' = [acct EXCEPT ![a].status = "frozen"]
       \/ job[r].kind = "unfreeze"
          /\ acct' = [acct EXCEPT ![a].status = "active"]
    /\ UNCHANGED <<job, row>>

Open(r) ==
    /\ job[r].kind = "open"
    /\ \E a \in Account :
            /\ ~Exists(a) /\ Owner[a] = job[r].user
            /\ acct' = [acct EXCEPT ![a] = [balance |-> 0, ledgerBalance |-> 0,
                                            status |-> "active"]]
    /\ UNCHANGED <<job, row>>

Next == \E r \in Request : Book(r) \/ Refuse(r) \/ SetStatus(r) \/ Open(r)

Spec == Init /\ [][Next]_vars

=============================================================================
