---------------------------- MODULE LedgerProofs ----------------------------
(***************************************************************************)
(* Requests that do not contend for an account, however their statements   *)
(* interleave and fail, implement the atomic ledger; when a balance or the *)
(* status of an account may change; and what balances add up to.           *)
(***************************************************************************)
EXTENDS TransactionsProofs, FiniteSetTheorems, WellFoundedInduction

-----------------------------------------------------------------------------
(* The invariants.                                                         *)

Moving == {"transfer", "deposit", "withdraw"}

Debits(r) == job[r].kind \in {"transfer", "withdraw"}

Credits(r) == job[r].kind \in {"transfer", "deposit"}

DebitStep == {"debitRead", "debitSave", "debitUpdate"}

CreditStep == {"creditRead", "creditSave", "creditUpdate"}

\* Between validation and the answer, unless the transaction is committed.
Past == {"begin"} \cup InTransaction \cup {"rolledBack", "saveFailed"}

\* Where a request is tells what it asks for.
KindInv ==
    \A r \in Request :
        /\ pc[r] = "guard" => job[r].kind \in GuardedKind
        /\ pc[r] \in {"validate"} \cup Past => job[r].kind \in Moving
        /\ pc[r] \in DebitStep => Debits(r)
        /\ pc[r] \in CreditStep => Credits(r)

\* Accounts do not vanish, and only those a request names are written.
ExistInv ==
    /\ \A a \in Account : ~Exists(a) => acct[a] = Absent
    /\ \A r \in Request :
        /\ pc[r] \in Past => Valid(r)
        /\ pc[r] \in {"statusSave", "statusUpdate"} => Exists(job[r].source)
        /\ pc[r] \in {"debitSave", "debitUpdate", "creditSave", "creditUpdate",
                      "statusSave", "statusUpdate"} => entity[r].status # "absent"
    /\ \A r \in Request, a \in Account : pending[r][a] # Absent =>
        /\ job[r].kind \in Moving
        /\ a \in Touches(r)
        /\ pending[r][a].status # "absent"

\* Requests in flight keep apart.
ApartInv ==
    \A r, s \in Request : r # s /\ InFlight(r) /\ InFlight(s) => Touches(r) \cap Touches(s) = {}

Funded(r) == LET found == acct[job[r].source] IN
    found.status = "active" /\ found.balance >= TotalDebit(r)

\* The debit, the credit, have been written in the open transaction.
Debited(r) == Debits(r) /\ pc[r] \in CreditStep \cup {"complete", "commit"}

Credited(r) == Credits(r) /\ pc[r] \in {"complete", "commit"}

\* What an open transaction has written to account a: its own change to the
\* committed row, and nothing else.
Written(r, a) == IF Debited(r) /\ a = job[r].source THEN Shifted(acct[a], -TotalDebit(r))
                 ELSE IF Credited(r) /\ a = job[r].destination THEN Shifted(acct[a], job[r].amount)
                 ELSE Absent

Frozen(r) == IF job[r].kind = "freeze" THEN "frozen" ELSE "active"

\* What a request holds in memory and has written is up to date, and it fails
\* for a reason that still holds.
FreshOf(r) ==
    /\ pc[r] \in Past => fee[r] \in (IF job[r].kind = "transfer" THEN Fee ELSE {0})
    /\ \A a \in Account : pending[r][a] = Written(r, a)
    /\ pc[r] \in {"debitSave", "debitUpdate"} \/ Debited(r) => Funded(r)
    /\ pc[r] \in {"debitSave", "debitUpdate"}
            => entity[r] = Shifted(acct[job[r].source], -TotalDebit(r))
    /\ pc[r] \in {"creditSave", "creditUpdate"}
            => entity[r] = Shifted(acct[job[r].destination], job[r].amount)
    /\ pc[r] \in {"debitUpdate", "creditUpdate"} => dirty[r] = {"balance", "ledgerBalance"}
    /\ pc[r] \in {"rollback", "rolledBack", "saveFailed"}
            => RefTaken(r) \/ (Debits(r) /\ ~Funded(r))
    /\ pc[r] \in {"statusSave", "statusUpdate"} =>
            /\ job[r].kind = "freeze" => Owner[job[r].source] = job[r].user
            /\ entity[r] = [acct[job[r].source] EXCEPT !.status = Frozen(r)]
    /\ pc[r] = "statusUpdate" => dirty[r] = {"status"}

FreshInv == \A r \in Request : FreshOf(r)

-----------------------------------------------------------------------------
(* What holds under every discipline.                                      *)

LEMMA KindNext == TypeOK /\ KindInv /\ [Next]_vars => KindInv'
<1> SUFFICES ASSUME TypeOK, KindInv, [Next]_vars PROVE KindInv'
  OBVIOUS
<1> USE DEF memory, database, uncommitted, Goto, At, GuardedKind, Moving, Past, InTransaction,
            DebitStep, CreditStep, Debits, Credits
<1>j. UNCHANGED job
  BY JobStable
<1>k. \A r \in Request : job[r].kind \in Kind
  BY JobFields
<1>g. ASSUME NEW r \in Request, NEW to, pc' = [pc EXCEPT ![r] = to],
             to = "guard" => job[r].kind \in GuardedKind,
             to \in {"validate"} \cup Past => job[r].kind \in Moving,
             to \in DebitStep => Debits(r),
             to \in CreditStep => Credits(r)
      PROVE  KindInv'
  BY <1>g, <1>j DEF KindInv, TypeOK
<1>e. ASSUME NEW r \in Request, NEW to \in Answered, pc' = [pc EXCEPT ![r] = to] PROVE KindInv'
  BY <1>e, <1>g DEF Answered
<1>1. ASSUME NEW r \in Request, Arrive(r) PROVE KindInv'
  <2> DEFINE to == FirstStep[job[r].kind]
  <2>1. /\ to = "guard" => job[r].kind \in GuardedKind
        /\ to = "validate" => job[r].kind \in Moving
        /\ to \notin Past \cup DebitStep \cup CreditStep
    BY <1>k DEF FirstStep, Kind
  <2>2. pc' = [pc EXCEPT ![r] = to]
    BY <1>1 DEF Arrive
  <2> HIDE DEF to
  <2> QED BY <2>1, <2>2, <1>g
<1>2. ASSUME NEW r \in Request, Guard(r) PROVE KindInv'
  BY <1>2, <1>g DEF Guard, KindInv
<1>3. ASSUME NEW r \in Request, Validate(r) PROVE KindInv'
  BY <1>3, <1>g DEF Validate, KindInv
<1>4. ASSUME NEW r \in Request, Begin(r) PROVE KindInv'
  BY <1>4, <1>g DEF Begin, KindInv
<1>5. ASSUME NEW r \in Request, Insert(r) PROVE KindInv'
  BY <1>5, <1>g DEF Insert, KindInv
<1>6. ASSUME NEW r \in Request, DebitRead(r) PROVE KindInv'
  BY <1>6, <1>g DEF DebitRead, KindInv
<1>7. ASSUME NEW r \in Request, CreditRead(r) PROVE KindInv'
  BY <1>7, <1>g DEF CreditRead, KindInv
<1>8. ASSUME NEW r \in Request, Reload(r) PROVE KindInv'
  BY <1>8, <1>g DEF Reload, KindInv, AfterReload
<1>9. ASSUME NEW r \in Request, Update(r) PROVE KindInv'
  BY <1>9, <1>g DEF Update, KindInv, AfterUpdate
<1>10. ASSUME NEW r \in Request, Complete(r) PROVE KindInv'
  BY <1>10, <1>g DEF Complete, KindInv
<1>11. ASSUME NEW r \in Request, Commit(r) PROVE KindInv'
  BY <1>11, <1>g DEF Commit, KindInv
<1>12. ASSUME NEW r \in Request, Finish(r) PROVE KindInv'
  BY <1>12, <1>g DEF Finish, KindInv
<1>13. ASSUME NEW r \in Request, Rollback(r) PROVE KindInv'
  BY <1>13, <1>g DEF Rollback, KindInv
<1>14. ASSUME NEW r \in Request, SecondConnection(r) PROVE KindInv'
  BY <1>14, <1>g DEF SecondConnection, KindInv
<1>15. ASSUME NEW r \in Request, SaveFailed(r) PROVE KindInv'
  BY <1>15, <1>g, <1>e DEF SaveFailed, Answered, KindInv
<1>25. ASSUME NEW r \in Request, FinishFailed(r) PROVE KindInv'
  BY <1>25, <1>e DEF FinishFailed, Answered
<1>16. ASSUME NEW r \in Request, DeadlockVictim(r) PROVE KindInv'
  <2>1. pc[r] \in {"debitUpdate", "creditUpdate"}
    BY <1>16 DEF DeadlockVictim, Blockers
  <2> QED BY <1>16, <2>1, <1>g DEF DeadlockVictim, KindInv
<1>17. ASSUME NEW r \in Request, StatusRead(r) PROVE KindInv'
  BY <1>17, <1>g DEF StatusRead
<1>18. ASSUME NEW r \in Request, StatusReload(r) PROVE KindInv'
  BY <1>18, <1>g DEF StatusReload
<1>19. ASSUME NEW r \in Request, StatusUpdate(r) PROVE KindInv'
  BY <1>19, <1>e DEF StatusUpdate, Answered
<1>20. ASSUME NEW r \in Request, Open(r) PROVE KindInv'
  BY <1>20, <1>e DEF Open, Answered
<1>21. ASSUME NEW r \in Request, Disconnect(r) PROVE KindInv'
  BY <1>21, <1>e DEF Disconnect, Answered
<1>22. CASE Crash
  BY <1>22, <1>j DEF Crash, InFlight, Answered, KindInv
<1>23. CASE DayPasses
  BY <1>23 DEF DayPasses, KindInv
<1>24. CASE UNCHANGED vars
  BY <1>24 DEF vars, KindInv
<1> QED BY <1>1, <1>2, <1>3, <1>4, <1>5, <1>6, <1>7, <1>8, <1>9, <1>10, <1>11, <1>12,
         <1>13, <1>14, <1>15, <1>16, <1>17, <1>18, <1>19, <1>20, <1>21, <1>22, <1>23,
         <1>24, <1>25 DEF Next, Serve, Terminated

\* Validation finds what it found before, as long as no account vanishes.
LEMMA ValidStable ==
    ASSUME TypeOK, UNCHANGED job, \A a \in Account : Exists(a) => Exists(a)',
           NEW r \in Request, Valid(r)
    PROVE  Valid(r)'
BY JobFields DEF Valid

\* What a request with money to move touches is fixed.
LEMMA TouchesMoving ==
    ASSUME NEW r \in Request, job[r].kind \in Moving
    PROVE  /\ Credits(r) => job[r].destination \in Touches(r)
           /\ Debits(r) => job[r].source \in Touches(r)
           /\ Touches(r) = {a \in {job[r].source} : Debits(r)}
                            \cup {a \in {job[r].destination} : Credits(r)}
           /\ UNCHANGED job => Touches(r)' = Touches(r)
BY DEF Moving, Touches, Credits, Debits

\* A step of r that takes no account away, with what it has to have found and
\* written.
LEMMA ExistStep ==
    ASSUME TypeOK, ExistInv, UNCHANGED job, NEW r \in Request,
           \A a \in Account : acct'[a] = acct[a] \/ acct'[a].status # "absent",
           \A s \in Request \ {r} :
                pc'[s] = pc[s] /\ entity'[s] = entity[s] /\ pending'[s] = pending[s],
           pc'[r] \in Past => pc[r] \in Past \/ Valid(r),
           pc'[r] \in {"statusSave", "statusUpdate"} => Exists(job[r].source),
           pc'[r] \in {"debitSave", "debitUpdate", "creditSave", "creditUpdate",
                       "statusSave", "statusUpdate"} => entity'[r].status # "absent",
           \A a \in Account : \/ pending'[r][a] \in {Absent, pending[r][a]}
                              \/ /\ job[r].kind \in Moving
                                 /\ a \in Touches(r)
                                 /\ pending'[r][a].status # "absent"
    PROVE  ExistInv'
<1>1. \A a \in Account : Exists(a) => Exists(a)'
  BY DEF Exists
<1>2. \A a \in Account : ~Exists(a)' => acct'[a] = Absent
  BY DEF Exists, ExistInv
<1>3. \A s \in Request : Valid(s) => Valid(s)'
  BY <1>1, ValidStable
<1>4. \A s \in Request : Exists(job[s].source) => Exists(job[s].source)'
  BY <1>1, JobFields
<1>5. ASSUME NEW s \in Request
      PROVE  /\ pc'[s] \in Past => Valid(s)'
             /\ pc'[s] \in {"statusSave", "statusUpdate"} => Exists(job[s].source)'
             /\ pc'[s] \in {"debitSave", "debitUpdate", "creditSave", "creditUpdate",
                            "statusSave", "statusUpdate"} => entity'[s].status # "absent"
  <2>1. CASE s = r
    BY <2>1, <1>3, <1>4 DEF ExistInv
  <2>2. CASE s # r
    BY <2>2, <1>3, <1>4 DEF ExistInv
  <2> QED BY <2>1, <2>2
<1>6. ASSUME NEW s \in Request, NEW a \in Account, pending'[s][a] # Absent
      PROVE  job[s].kind \in Moving /\ a \in Touches(s)' /\ pending'[s][a].status # "absent"
  <2>1. job[s].kind \in Moving /\ a \in Touches(s) /\ pending'[s][a].status # "absent"
    BY <1>6 DEF ExistInv
  <2> QED BY <2>1, TouchesMoving
<1> QED BY <1>2, <1>5, <1>6 DEF ExistInv

LEMMA ExistNext == TypeOK /\ KindInv /\ ExistInv /\ [Next]_vars => ExistInv'
<1> SUFFICES ASSUME TypeOK, KindInv, ExistInv, [Next]_vars PROVE ExistInv'
  OBVIOUS
<1> USE DEF memory, database, uncommitted, Goto, At
<1>j. UNCHANGED job
  BY JobStable
<1>k. \A r \in Request : job[r].source \in Account /\ job[r].destination \in Account
  BY JobFields
<1>g. ASSUME NEW r \in Request, NEW to, pc' = [pc EXCEPT ![r] = to],
             UNCHANGED <<entity, acct, pending>>,
             to \in Past => pc[r] \in Past \/ Valid(r),
             to \notin {"statusSave", "statusUpdate", "debitSave", "creditSave"},
             to \in {"debitUpdate", "creditUpdate"} => pc[r] \in {"debitSave", "creditSave"}
      PROVE  ExistInv'
  <2>1. \A s \in Request \ {r} : pc'[s] = pc[s]
    BY <1>g DEF TypeOK
  <2>2. pc'[r] = to
    BY <1>g DEF TypeOK
  <2>3. to \in {"debitUpdate", "creditUpdate"} => entity[r].status # "absent"
    BY <1>g DEF ExistInv
  <2> QED BY <1>g, <1>j, <2>1, <2>2, <2>3, ExistStep
<1>e. ASSUME NEW r \in Request, NEW to, pc' = [pc EXCEPT ![r] = to],
             to \in Answered \cup {"committed", "rollback", "rolledBack"},
             to \in Past => pc[r] \in Past,
             \A a \in Account : acct'[a] = acct[a] \/ acct'[a].status # "absent",
             \A s \in Request \ {r} : entity'[s] = entity[s] /\ pending'[s] = pending[s],
             \A a \in Account : pending'[r][a] \in {Absent, pending[r][a]}
      PROVE  ExistInv'
  <2>1. \A s \in Request \ {r} : pc'[s] = pc[s]
    BY <1>e DEF TypeOK
  <2>2. pc'[r] = to
    BY <1>e DEF TypeOK
  <2> QED BY <1>e, <1>j, <2>1, <2>2, ExistStep DEF Answered
<1>f. ASSUME NEW r \in Request, Forget(r)
      PROVE  /\ \A s \in Request \ {r} : pending'[s] = pending[s]
             /\ \A a \in Account : pending'[r][a] \in {Absent, pending[r][a]}
  BY <1>f DEF Forget, TypeOK
<1>d. ASSUME NEW r \in Request, Discard(r) PROVE \A s \in Request \ {r} : entity'[s] = entity[s]
  BY <1>d DEF Discard, TypeOK
<1>1. ASSUME NEW r \in Request, Arrive(r) PROVE ExistInv'
  <2>1. job[r].kind \in Kind
    BY JobFields
  <2>2. FirstStep[job[r].kind] \in {"guard", "validate", "statusRead", "open"}
    BY <2>1 DEF Kind, FirstStep
  <2> QED BY <1>1, <2>2, <1>g DEF Arrive, Past, InTransaction
<1>2. ASSUME NEW r \in Request, Guard(r) PROVE ExistInv'
  BY <1>2, <1>g DEF Guard, Past, InTransaction
<1>3. ASSUME NEW r \in Request, Validate(r) PROVE ExistInv'
  BY <1>3, <1>g DEF Validate, Past, InTransaction
<1>4. ASSUME NEW r \in Request, Begin(r) PROVE ExistInv'
  BY <1>4, <1>g DEF Begin, Past
<1>5. ASSUME NEW r \in Request, Insert(r) PROVE ExistInv'
  BY <1>5, <1>g DEF Insert, Past, InTransaction
<1>6. ASSUME NEW r \in Request, DebitRead(r) PROVE ExistInv'
  <2>1. CASE acct[Target(r)].status = "active" /\ acct[Target(r)].balance >= TotalDebit(r)
    <3>1. entity' = [entity EXCEPT ![r] = Shifted(acct[Target(r)], -TotalDebit(r))]
      BY <1>6, <2>1 DEF DebitRead
    <3>2. Shifted(acct[Target(r)], -TotalDebit(r)).status = "active"
      BY <2>1 DEF Shifted
    <3>3. pc[r] \in Past /\ pc' = [pc EXCEPT ![r] = "debitSave"] /\ UNCHANGED <<acct, pending>>
      BY <1>6, <2>1 DEF DebitRead, Past, InTransaction
    <3> QED BY <3>1, <3>2, <3>3, <1>j, ExistStep DEF TypeOK
  <2>2. CASE ~(acct[Target(r)].status = "active" /\ acct[Target(r)].balance >= TotalDebit(r))
    BY <1>6, <2>2, <1>g DEF DebitRead, Past, InTransaction
  <2> QED BY <2>1, <2>2
<1>7. ASSUME NEW r \in Request, CreditRead(r) PROVE ExistInv'
  <2>1. Valid(r) /\ Credits(r) /\ Target(r) = job[r].destination /\ pc[r] \in Past
    BY <1>7 DEF CreditRead, ExistInv, KindInv, Past, InTransaction, CreditStep, Target
  <2>2. acct[Target(r)].status # "absent"
    BY <2>1 DEF Valid, Credits, Exists
  <2>3. entity' = [entity EXCEPT ![r] = Shifted(acct[Target(r)], job[r].amount)]
    BY <1>7 DEF CreditRead
  <2>4. Shifted(acct[Target(r)], job[r].amount).status # "absent"
    BY <2>2 DEF Shifted
  <2>5. pc' = [pc EXCEPT ![r] = "creditSave"] /\ UNCHANGED <<acct, pending>>
    BY <1>7 DEF CreditRead
  <2> QED BY <2>1, <2>3, <2>4, <2>5, <1>j, ExistStep DEF TypeOK
<1>8. ASSUME NEW r \in Request, Reload(r) PROVE ExistInv'
  <2>1. AfterReload[pc[r]] \in {"debitUpdate", "creditUpdate"} /\ pc[r] \in Past
    BY <1>8 DEF Reload, AfterReload, Past, InTransaction
  <2>2. /\ pc[r] \in {"debitSave", "creditSave"}
        /\ pc' = [pc EXCEPT ![r] = AfterReload[pc[r]]] /\ UNCHANGED <<entity, acct, pending>>
    BY <1>8 DEF Reload
  <2> QED BY <2>1, <2>2, <1>g
<1>9. ASSUME NEW r \in Request, Update(r) PROVE ExistInv'
  <2>1. pc[r] \in Past /\ job[r].kind \in Moving /\ Valid(r)
    BY <1>9 DEF Update, ExistInv, KindInv, Past, InTransaction
  <2>2. /\ Target(r) \in Touches(r) /\ Target(r) \in Account
        /\ acct[Target(r)].status # "absent"
    <3>1. CASE pc[r] = "debitUpdate"
      <4>1. Debits(r) /\ Target(r) = job[r].source
        BY <3>1 DEF KindInv, DebitStep, Target
      <4> QED BY <4>1, <2>1, <1>k, TouchesMoving DEF Valid, Debits, Exists
    <3>2. CASE pc[r] = "creditUpdate"
      <4>1. Credits(r) /\ Target(r) = job[r].destination
        BY <3>2 DEF KindInv, CreditStep, Target
      <4> QED BY <4>1, <2>1, <1>k, TouchesMoving DEF Valid, Credits, Exists
    <3> QED BY <1>9, <3>1, <3>2 DEF Update
  <2>3. entity[r].status # "absent"
    BY <1>9 DEF Update, ExistInv
  <2> DEFINE written == Merge(acct[Target(r)], entity[r], dirty[r])
  <2>4. written.status # "absent"
    BY <2>2, <2>3 DEF Merge
  <2>5. pending' = [pending EXCEPT ![r][Target(r)] = written]
    BY <1>9 DEF Update
  <2>6. \A a \in Account : \/ pending'[r][a] = pending[r][a]
                           \/ a = Target(r) /\ pending'[r][a] = written
    BY <2>2, <2>5 DEF TypeOK
  <2>7. \A s \in Request \ {r} : pending'[s] = pending[s]
    BY <2>5 DEF TypeOK
  <2>8. pc' = [pc EXCEPT ![r] = AfterUpdate(r)] /\ UNCHANGED acct
        /\ entity' = [entity EXCEPT ![r] = Absent]
    BY <1>9 DEF Update
  <2>9. AfterUpdate(r) \in {"complete", "creditRead"}
    BY DEF AfterUpdate
  <2> HIDE DEF written
  <2>10. /\ \A s \in Request \ {r} : pc'[s] = pc[s] /\ entity'[s] = entity[s]
         /\ pc'[r] \in {"complete", "creditRead"}
    BY <2>8, <2>9 DEF TypeOK
  <2> QED BY <2>1, <2>2, <2>4, <2>6, <2>7, <2>8, <2>10, <1>j, ExistStep
<1>10. ASSUME NEW r \in Request, Complete(r) PROVE ExistInv'
  BY <1>10, <1>g DEF Complete, Past, InTransaction
<1>11. ASSUME NEW r \in Request, Commit(r) PROVE ExistInv'
  <2>1. \A a \in Account : acct'[a] = acct[a] \/ acct'[a].status # "absent"
    BY <1>11 DEF Commit, ExistInv
  <2>2. Forget(r) /\ pc' = [pc EXCEPT ![r] = "committed"] /\ UNCHANGED entity
    BY <1>11 DEF Commit
  <2>3. /\ \A s \in Request \ {r} : entity'[s] = entity[s] /\ pending'[s] = pending[s]
        /\ \A a \in Account : pending'[r][a] \in {Absent, pending[r][a]}
    BY <2>2, <1>f
  <2> QED BY <2>1, <2>2, <2>3, <1>e DEF Past, InTransaction
<1>12. ASSUME NEW r \in Request, Finish(r) PROVE ExistInv'
  BY <1>12, <1>g DEF Finish, Past, InTransaction
<1>13. ASSUME NEW r \in Request, Rollback(r) PROVE ExistInv'
  BY <1>13, <1>f, <1>e DEF Rollback, Past, InTransaction
<1>14. ASSUME NEW r \in Request, SecondConnection(r) PROVE ExistInv'
  BY <1>14, <1>g DEF SecondConnection, Past, InTransaction
<1>15. ASSUME NEW r \in Request, SaveFailed(r) PROVE ExistInv'
  BY <1>15, <1>g DEF SaveFailed, Past, InTransaction
<1>24. ASSUME NEW r \in Request, FinishFailed(r) PROVE ExistInv'
  BY <1>24, <1>g DEF FinishFailed, Past, InTransaction
<1>16. ASSUME NEW r \in Request, DeadlockVictim(r) PROVE ExistInv'
  <2>1. pc[r] \in {"debitUpdate", "creditUpdate"}
    BY <1>16 DEF DeadlockVictim, Blockers
  <2>2. Forget(r) /\ Discard(r) /\ pc' = [pc EXCEPT ![r] = "rollback"] /\ UNCHANGED acct
    BY <1>16 DEF DeadlockVictim
  <2>3. /\ \A s \in Request \ {r} : entity'[s] = entity[s] /\ pending'[s] = pending[s]
        /\ \A a \in Account : pending'[r][a] \in {Absent, pending[r][a]}
    BY <2>2, <1>f, <1>d
  <2> QED BY <2>1, <2>2, <2>3, <1>e DEF Past, InTransaction
<1>17. ASSUME NEW r \in Request, StatusRead(r) PROVE ExistInv'
  <2>1. CASE pc' = [pc EXCEPT ![r] = "rejected"]
    BY <1>17, <2>1, <1>g DEF StatusRead, Past, InTransaction, TypeOK
  <2>2. CASE pc' # [pc EXCEPT ![r] = "rejected"]
    <3>1. /\ Exists(job[r].source)
          /\ pc' = [pc EXCEPT ![r] = "statusSave"]
          /\ entity' = [entity EXCEPT ![r] = [acct[job[r].source] EXCEPT
                            !.status = IF job[r].kind = "freeze" THEN "frozen" ELSE "active"]]
          /\ UNCHANGED <<acct, pending>>
      BY <1>17, <2>2 DEF StatusRead
    <3>2. acct[job[r].source] \in Row
      BY <1>k DEF TypeOK
    <3>3. entity'[r].status # "absent" /\ \A s \in Request \ {r} : entity'[s] = entity[s]
      BY <3>1, <3>2 DEF TypeOK, Row
    <3>4. pc'[r] = "statusSave" /\ \A s \in Request \ {r} : pc'[s] = pc[s]
      BY <3>1 DEF TypeOK
    <3> QED BY <3>1, <3>3, <3>4, <1>j, ExistStep DEF Past, InTransaction
  <2> QED BY <2>1, <2>2
<1>18. ASSUME NEW r \in Request, StatusReload(r) PROVE ExistInv'
  <2>1. CASE pc' = [pc EXCEPT ![r] = "ok"]
    <3>1. Discard(r) /\ UNCHANGED <<acct, pending>>
      BY <1>18, <2>1 DEF StatusReload, TypeOK
    <3> QED BY <2>1, <3>1, <1>d, <1>e DEF Past, InTransaction, Answered
  <2>2. CASE pc' # [pc EXCEPT ![r] = "ok"]
    <3>1. /\ pc[r] = "statusSave" /\ pc' = [pc EXCEPT ![r] = "statusUpdate"]
          /\ UNCHANGED <<entity, acct, pending>>
      BY <1>18, <2>2 DEF StatusReload
    <3> QED BY <3>1, <1>j, ExistStep DEF ExistInv, TypeOK, Past, InTransaction
  <2> QED BY <2>1, <2>2
<1>19. ASSUME NEW r \in Request, StatusUpdate(r) PROVE ExistInv'
  <2> DEFINE written == Merge(acct[job[r].source], entity[r], dirty[r])
  <2>1. acct' = [acct EXCEPT ![job[r].source] = written]
    BY <1>19 DEF StatusUpdate
  <2>2. Exists(job[r].source) /\ entity[r].status # "absent"
    BY <1>19 DEF StatusUpdate, ExistInv
  <2>3. written.status # "absent"
    BY <2>2 DEF Merge, Exists
  <2> HIDE DEF written
  <2>4. \A a \in Account : acct'[a] = acct[a] \/ acct'[a].status # "absent"
    BY <2>1, <2>3 DEF TypeOK
  <2> QED BY <1>19, <2>4, <1>d, <1>e DEF StatusUpdate, Past, InTransaction, Answered
<1>20. ASSUME NEW r \in Request, Open(r) PROVE ExistInv'
  <2>1. [Absent EXCEPT !.status = "active"].status = "active"
    BY DEF Absent
  <2>2. \A a \in Account : acct'[a] = acct[a] \/ acct'[a].status # "absent"
    BY <1>20, <2>1 DEF Open, TypeOK
  <2> QED BY <1>20, <2>2, <1>e DEF Open, Past, InTransaction, Answered
<1>21. ASSUME NEW r \in Request, Disconnect(r) PROVE ExistInv'
  <2>1. Forget(r) /\ Discard(r) /\ pc' = [pc EXCEPT ![r] = "error"] /\ UNCHANGED acct
    BY <1>21 DEF Disconnect
  <2>2. /\ \A s \in Request \ {r} : entity'[s] = entity[s] /\ pending'[s] = pending[s]
        /\ \A a \in Account : pending'[r][a] \in {Absent, pending[r][a]}
    BY <2>1, <1>f, <1>d
  <2> QED BY <2>1, <2>2, <1>e DEF Past, InTransaction, Answered
<1>22. CASE Crash
  <2>1. \A r \in Request : pc'[r] \notin Past \cup {"statusSave", "statusUpdate"}
    BY <1>22 DEF Crash, InFlight, Answered, TypeOK, Past, InTransaction
  <2>2. \A r \in Request, a \in Account : pending'[r][a] = Absent
    BY <1>22 DEF Crash
  <2>3. UNCHANGED acct
    BY <1>22 DEF Crash
  <2> QED BY <2>1, <2>2, <2>3 DEF ExistInv, Exists, Past, InTransaction
<1>23. CASE UNCHANGED <<pc, entity, acct, pending>>
  <2>1. \A r \in Request : Valid(r)' = Valid(r) /\ Touches(r)' = Touches(r)
    BY <1>23, <1>j DEF Valid, Exists, Touches
  <2> QED BY <1>23, <1>j, <2>1 DEF ExistInv, Exists
<1> QED BY <1>1, <1>2, <1>3, <1>4, <1>5, <1>6, <1>7, <1>8, <1>9, <1>10, <1>11, <1>12,
         <1>13, <1>14, <1>15, <1>16, <1>17, <1>18, <1>19, <1>20, <1>21, <1>22, <1>23,
         <1>24 DEF Next, Serve, Terminated, DayPasses, vars

LEMMA GeneralInit == Init => KindInv /\ ExistInv
<1> SUFFICES ASSUME Init PROVE KindInv /\ ExistInv
  OBVIOUS
<1>1. KindInv
  BY DEF Init, KindInv, Past, InTransaction, DebitStep, CreditStep
<1>2. \A a \in Account : ~Exists(a) => acct[a] = Absent
  BY OpeningAssumption DEF Init, Exists
<1> QED BY <1>1, <1>2 DEF Init, ExistInv, Past, InTransaction

\* Where the committed account rows change.
LEMMA AcctChanges ==
    [Next]_vars => UNCHANGED acct \/ \E r \in Request : Commit(r) \/ StatusUpdate(r) \/ Open(r)
BY DEF Next, Serve, vars, database, Arrive, Guard, Validate, Begin, Insert, DebitRead, CreditRead,
   Reload, Update, Complete, Finish, Rollback, SecondConnection, SaveFailed,
   FinishFailed, DeadlockVictim, StatusRead, StatusReload, Disconnect, Crash, DayPasses,
   Terminated

\* Where the committed transactions change.
LEMMA RowChanges ==
    [Next]_vars => UNCHANGED row \/ \E r \in Request : Commit(r) \/ SaveFailed(r)
BY DEF Next, Serve, vars, database, Arrive, Guard, Validate, Begin, Insert, DebitRead, CreditRead,
   Reload, Update, Complete, Finish, Rollback, SecondConnection, StatusUpdate, Open,
   FinishFailed, DeadlockVictim, StatusRead, StatusReload, Disconnect, Crash, DayPasses, Terminated

\* A commit turns no record into a completed one.
LEMMA CommitRow ==
    ASSUME TypeOK, ControlInv, NEW r \in Request, Commit(r)
    PROVE  /\ row[r] = "none"
           /\ row' = [row EXCEPT ![r] = "completed"]
           /\ row'[r] = "completed"
<1>1. pc[r] = "commit" /\ row' = [row EXCEPT ![r] = draft[r]]
  BY DEF Commit, At
<1>2. draft[r] = "completed" /\ row[r] = "none"
  BY <1>1 DEF ControlInv, TypeOK, RowState
<1> QED BY <1>1, <1>2 DEF TypeOK

\* A record, once it is committed, never changes.
LEMMA RowsStay ==
    ASSUME TypeOK, ControlInv, [Next]_vars
    PROVE  \A r \in Request : row[r] # "none" => row'[r] = row[r]
<1>1. ASSUME NEW r \in Request, Commit(r)
      PROVE  \A s \in Request : row[s] # "none" => row'[s] = row[s]
  BY <1>1, CommitRow DEF TypeOK
<1>2. ASSUME NEW r \in Request, SaveFailed(r)
      PROVE  \A s \in Request : row[s] # "none" => row'[s] = row[s]
  <2>1. row[r] = "none"
    BY <1>2 DEF SaveFailed, At, ControlInv, TypeOK
  <2> QED BY <1>2, <2>1 DEF SaveFailed, TypeOK
<1> QED BY <1>1, <1>2, RowChanges

\* An account is written by a request in flight that touches it.
LEMMA AcctWriter ==
    ASSUME TypeOK, ControlInv, ExistInv, NEW r \in Request,
           Commit(r) \/ StatusUpdate(r) \/ Open(r)
    PROVE  /\ InFlight(r)
           /\ \A a \in Account : acct'[a] # acct[a] => a \in Touches(r)
<1>1. CASE Commit(r)
  BY <1>1 DEF Commit, At, InFlight, Answered, ExistInv
<1>2. CASE StatusUpdate(r)
  <2>1. job[r].kind \in {"freeze", "unfreeze"} /\ pc[r] = "statusUpdate"
    BY <1>2 DEF StatusUpdate, At, ControlInv
  <2>2. \A a \in Account : acct'[a] # acct[a] => a = job[r].source
    BY <1>2 DEF StatusUpdate, TypeOK
  <2> QED BY <2>1, <2>2 DEF Touches, InFlight, Answered
<1>3. CASE Open(r)
  <2>1. job[r].kind = "open" /\ pc[r] = "open"
    BY <1>3 DEF Open, At, ControlInv
  <2>2. \A a \in Account : acct'[a] # acct[a] => acct[a].status = "absent"
    BY <1>3 DEF Open, Exists, TypeOK
  <2> QED BY <2>1, <2>2 DEF Touches, InFlight, Answered
<1> QED BY <1>1, <1>2, <1>3

\* No account vanishes.
LEMMA ExistKept ==
    ASSUME TypeOK, ExistInv, [Next]_vars
    PROVE  \A a \in Account : Exists(a) => Exists(a)'
<1>1. ASSUME NEW r \in Request, Commit(r) PROVE \A a \in Account : Exists(a) => Exists(a)'
  BY <1>1 DEF Commit, ExistInv, Exists
<1>2. ASSUME NEW r \in Request, StatusUpdate(r) PROVE \A a \in Account : Exists(a) => Exists(a)'
  <2> DEFINE written == Merge(acct[job[r].source], entity[r], dirty[r])
  <2>1. Exists(job[r].source) /\ entity[r].status # "absent"
    BY <1>2 DEF StatusUpdate, At, ExistInv
  <2>2. written.status # "absent"
    BY <2>1 DEF Merge, Exists
  <2>3. acct' = [acct EXCEPT ![job[r].source] = written]
    BY <1>2 DEF StatusUpdate
  <2> HIDE DEF written
  <2> QED BY <2>2, <2>3 DEF Exists, TypeOK
<1>3. ASSUME NEW r \in Request, Open(r) PROVE \A a \in Account : Exists(a) => Exists(a)'
  BY <1>3 DEF Open, Exists, TypeOK
<1> QED BY <1>1, <1>2, <1>3, AcctChanges DEF Exists

\* The request whose commit moves money, unless a status is being set.
LEMMA MoneyStep ==
    ASSUME TypeOK, ControlInv, ExistInv, [Next]_vars,
           NEW a \in Account, acct'[a].balance # acct[a].balance,
           \A r \in Request : StatusUpdate(r) => acct'[a].balance = acct[a].balance
    PROVE  \E r \in Request : /\ row[r] = "none" /\ row'[r] = "completed"
                              /\ a \in Touches(r)
<1>1. ASSUME NEW r \in Request, Open(r) PROVE FALSE
  <2>1. acct'[a] # acct[a] => acct[a] = Absent /\ acct'[a] = [Absent EXCEPT !.status = "active"]
    BY <1>1 DEF Open, ExistInv, TypeOK
  <2>2. [Absent EXCEPT !.status = "active"].balance = Absent.balance
    BY DEF Absent
  <2> QED BY <2>1, <2>2
<1>2. PICK r \in Request : Commit(r)
  BY <1>1, AcctChanges
<1> QED BY <1>2, CommitRow, AcctWriter

\* Where nobody freezes an account, a balance moves only in the step that makes
\* a transaction on that account COMPLETED, whatever the discipline of the
\* clients: a status change is the only other statement that writes balances.
THEOREM MoneyMoves ==
    ASSUME \A j \in Job : j.kind \notin {"freeze", "unfreeze"}
    PROVE  Spec => MoneyMovesWithARow
<1>1. TypeOK /\ ControlInv /\ ExistInv /\ [Next]_vars
        => [\A a \in Account : acct'[a].balance # acct[a].balance =>
                \E r \in Request : /\ row[r] = "none" /\ row'[r] = "completed"
                                   /\ a \in Touches(r)]_vars
  <2> SUFFICES ASSUME TypeOK, ControlInv, ExistInv, [Next]_vars,
                      NEW a \in Account, acct'[a].balance # acct[a].balance
               PROVE  \E r \in Request : /\ row[r] = "none" /\ row'[r] = "completed"
                                         /\ a \in Touches(r)
    OBVIOUS
  <2>1. \A r \in Request : job[r] \in Job
    BY DEF TypeOK
  <2>2. \A r \in Request : ~StatusUpdate(r)
    BY <2>1 DEF ControlInv, StatusUpdate, At
  <2> QED BY <2>2, MoneyStep
<1> QED BY <1>1, TypeInit, TypeNext, ControlInit, ControlNext, KindNext, ExistNext,
         GeneralInit, PTL DEF Spec, MoneyMovesWithARow

-----------------------------------------------------------------------------
(* Requests that keep apart.                                               *)

\* Only its arrival puts a request in flight.
LEMMA InFlightBefore ==
    ASSUME TypeOK, [Next]_vars, NEW r \in Request, InFlight(r)'
    PROVE  InFlight(r) \/ Arrive(r)
<1> USE DEF Goto, At, InFlight, Answered
<1>g. ASSUME NEW s \in Request, NEW to, pc' = [pc EXCEPT ![s] = to],
             pc[s] \notin {"new"} \cup Answered
      PROVE  InFlight(r)
  BY <1>g DEF TypeOK
<1>1. ASSUME NEW s \in Request, Arrive(s) PROVE InFlight(r) \/ Arrive(r)
  BY <1>1 DEF Arrive, TypeOK
<1>2. ASSUME NEW s \in Request, Serve(s) PROVE InFlight(r)
  <2>1. CASE Guard(s) \/ Validate(s) \/ Begin(s) \/ Insert(s) \/ DebitRead(s) \/ CreditRead(s)
    BY <2>1, <1>g DEF Guard, Validate, Begin, Insert, DebitRead, CreditRead
  <2>2. CASE Reload(s) \/ Update(s) \/ Complete(s) \/ Commit(s) \/ Finish(s)
    BY <2>2, <1>g DEF Reload, Update, Complete, Commit, Finish
  <2>3. CASE Rollback(s) \/ SecondConnection(s) \/ SaveFailed(s) \/ FinishFailed(s)
    BY <2>3, <1>g DEF Rollback, SecondConnection, SaveFailed, FinishFailed
  <2>4. CASE DeadlockVictim(s)
    BY <2>4, <1>g DEF DeadlockVictim, Blockers
  <2>5. CASE StatusRead(s) \/ StatusReload(s) \/ StatusUpdate(s) \/ Open(s)
    BY <2>5, <1>g DEF StatusRead, StatusReload, StatusUpdate, Open
  <2> QED BY <1>2, <2>1, <2>2, <2>3, <2>4, <2>5 DEF Serve
<1>3. ASSUME NEW s \in Request, Disconnect(s) PROVE InFlight(r)
  BY <1>3, <1>g DEF Disconnect, Holding, InTransaction
<1>4. CASE Crash
  BY <1>4 DEF Crash, TypeOK
<1>5. CASE UNCHANGED pc
  BY <1>5
<1> QED BY <1>1, <1>2, <1>3, <1>4, <1>5 DEF Next, DayPasses, Terminated, vars

\* What a request may write only shrinks, as accounts are opened.
LEMMA TouchesShrink ==
    ASSUME TypeOK, ExistInv, [Next]_vars, NEW r \in Request
    PROVE  Touches(r)' \subseteq Touches(r)
<1>1. UNCHANGED job
  BY JobStable
<1>2. CASE job[r].kind = "open"
  BY <1>1, <1>2, ExistKept DEF Touches, Exists
<1>3. CASE job[r].kind # "open"
  BY <1>1, <1>3 DEF Touches
<1> QED BY <1>2, <1>3

LEMMA ApartNext ==
    ASSUME Discipline = "perAccount", TypeOK, ExistInv, ApartInv, [Next]_vars
    PROVE  ApartInv'
<1>1. SUFFICES ASSUME NEW r \in Request, NEW s \in Request, r # s, InFlight(r)', InFlight(s)'
               PROVE  Touches(r) \cap Touches(s) = {}
  BY TouchesShrink DEF ApartInv
<1>2. ASSUME NEW q \in Request, NEW p \in Request, Arrive(q), InFlight(p)
      PROVE  Touches(q) \cap Touches(p) = {}
  BY <1>2 DEF Arrive, MayArrive
<1>3. CASE Arrive(r)
  <2>1. pc[s] = pc'[s]
    BY <1>1, <1>3 DEF Arrive, Goto, TypeOK
  <2> QED BY <1>1, <1>2, <1>3, <2>1 DEF InFlight
<1>4. CASE Arrive(s)
  <2>1. pc[r] = pc'[r]
    BY <1>1, <1>4 DEF Arrive, Goto, TypeOK
  <2> QED BY <1>1, <1>2, <1>4, <2>1 DEF InFlight
<1> QED BY <1>1, <1>3, <1>4, InFlightBefore DEF ApartInv

-----------------------------------------------------------------------------
(* What a request holds is up to date, if requests keep apart.             *)

\* A step is taken by one request, or ends them all, or changes nothing that
\* a request holds.
LEMMA Isolated ==
    ASSUME TypeOK, [Next]_vars, NEW s \in Request
    PROVE  \/ Arrive(s) \/ Serve(s) \/ Disconnect(s) \/ Crash
           \/ /\ pc'[s] = pc[s] /\ fee'[s] = fee[s] /\ entity'[s] = entity[s]
              /\ dirty'[s] = dirty[s] /\ pending'[s] = pending[s]
<1> USE DEF memory, database, uncommitted, Goto
<1> DEFINE Kept == /\ pc'[s] = pc[s] /\ fee'[s] = fee[s] /\ entity'[s] = entity[s]
                   /\ dirty'[s] = dirty[s] /\ pending'[s] = pending[s]
<1>1. ASSUME NEW r \in Request \ {s}, Arrive(r) \/ Guard(r) \/ Validate(r) \/ Begin(r)
      PROVE  Kept
  BY <1>1 DEF Arrive, Guard, Validate, Begin, TypeOK
<1>2. ASSUME NEW r \in Request \ {s}, Insert(r) \/ DebitRead(r) \/ CreditRead(r) \/ Reload(r)
      PROVE  Kept
  BY <1>2 DEF Insert, DebitRead, CreditRead, Reload, TypeOK
<1>3. ASSUME NEW r \in Request \ {s}, Update(r) \/ Complete(r) \/ Commit(r) \/ Finish(r)
      PROVE  Kept
  BY <1>3 DEF Update, Complete, Commit, Finish, Forget, TypeOK
<1>4. ASSUME NEW r \in Request \ {s},
             Rollback(r) \/ SecondConnection(r) \/ SaveFailed(r) \/ FinishFailed(r)
      PROVE  Kept
  BY <1>4 DEF Rollback, SecondConnection, SaveFailed, FinishFailed, Forget, TypeOK
<1>5. ASSUME NEW r \in Request \ {s}, DeadlockVictim(r) \/ Disconnect(r)
      PROVE  Kept
  BY <1>5 DEF DeadlockVictim, Disconnect, Forget, Discard, TypeOK
<1>6. ASSUME NEW r \in Request \ {s}, StatusRead(r) \/ StatusReload(r)
      PROVE  Kept
  BY <1>6 DEF StatusRead, StatusReload, Discard, TypeOK
<1>7. ASSUME NEW r \in Request \ {s}, StatusUpdate(r) \/ Open(r)
      PROVE  Kept
  BY <1>7 DEF StatusUpdate, Open, Discard, TypeOK
<1>8. ASSUME DayPasses \/ UNCHANGED vars PROVE Kept
  BY <1>8 DEF DayPasses, vars
<1> HIDE DEF Kept
<1>9. ASSUME NEW r \in Request, Arrive(r) \/ Serve(r) \/ Disconnect(r), r # s PROVE Kept
  BY <1>9, <1>1, <1>2, <1>3, <1>4, <1>5, <1>6, <1>7 DEF Serve
<1>10. Arrive(s) \/ Serve(s) \/ Disconnect(s) \/ Crash \/ Kept
  BY <1>8, <1>9 DEF Next, Terminated
<1> QED BY <1>10 DEF Kept

\* Another request's step leaves the accounts of a request in flight alone.
LEMMA AccountsKept ==
    ASSUME TypeOK, ControlInv, ExistInv, ApartInv, [Next]_vars,
           NEW s \in Request, InFlight(s), pc'[s] = pc[s]
    PROVE  \A a \in Touches(s) \cap Account : acct'[a] = acct[a]
<1>1. ASSUME NEW r \in Request, Commit(r) \/ StatusUpdate(r) \/ Open(r)
      PROVE  \A a \in Touches(s) \cap Account : acct'[a] = acct[a]
  <2>1. r # s
    BY <1>1 DEF Commit, StatusUpdate, Open, At, Goto, TypeOK
  <2> QED BY <1>1, <2>1, AcctWriter DEF ApartInv
<1> QED BY <1>1, AcctChanges

\* Nobody waits for anybody's row: no deadlock to break.
LEMMA NoDeadlock ==
    ASSUME TypeOK, KindInv, ExistInv, ApartInv, FreshInv, NEW r \in Request
    PROVE  Blockers(r) = {} /\ ~DeadlockVictim(r)
<1>1. SUFFICES ASSUME Blockers(r) # {} PROVE FALSE
  BY DEF DeadlockVictim
<1>2. pc[r] \in {"debitUpdate", "creditUpdate"}
  BY <1>1 DEF Blockers
<1>3. PICK s \in Request \ {r} : pending[s][Target(r)] # Absent
  BY <1>1 DEF Blockers, RowHolders
<1>4. Target(r) \in Account /\ Target(r) \in Touches(r)
  BY <1>2, JobFields, TouchesMoving
     DEF KindInv, DebitStep, CreditStep, Past, InTransaction, Target, Debits, Credits
<1>5. Target(r) \in Touches(s)
  BY <1>3, <1>4 DEF ExistInv
<1>6. Debited(s) \/ Credited(s)
  <2>1. pending[s][Target(r)] = Written(s, Target(r))
    BY <1>3, <1>4 DEF FreshInv, FreshOf
  <2> QED BY <1>3, <2>1 DEF Written
<1>7. InFlight(s) /\ InFlight(r)
  BY <1>2, <1>6 DEF Debited, Credited, CreditStep, InFlight, Answered
<1> QED BY <1>4, <1>5, <1>7 DEF ApartInv

\* A request that has nothing to keep up to date.
LEMMA FreshIdle ==
    ASSUME NEW r \in Request, pc'[r] \notin Past \cup {"statusSave", "statusUpdate"},
           \A a \in Account : pending'[r][a] = Absent
    PROVE  FreshOf(r)'
BY DEF FreshOf, Written, Debited, Credited, Past, InTransaction, CreditStep

\* Nothing is written before the first UPDATE.
LEMMA FreshClean ==
    ASSUME NEW r \in Request, FreshOf(r), pc[r] \notin CreditStep \cup {"complete", "commit"}
    PROVE  \A a \in Account : pending[r][a] = Absent
BY DEF FreshOf, Written, Debited, Credited

\* A request that is not disturbed stays up to date.
LEMMA FreshKept ==
    ASSUME TypeOK, ControlInv, KindInv, ExistInv, ApartInv, FreshInv, [Next]_vars,
           NEW s \in Request, pc'[s] = pc[s], fee'[s] = fee[s], entity'[s] = entity[s],
           dirty'[s] = dirty[s], pending'[s] = pending[s]
    PROVE  FreshOf(s)'
<1>j. UNCHANGED job
  BY JobStable
<1>1. FreshOf(s)
  BY DEF FreshInv
<1>2. CASE pc[s] \notin Past \cup {"statusSave", "statusUpdate"}
  BY <1>2, <1>1, FreshIdle, FreshClean DEF Past, InTransaction, CreditStep
<1>3. CASE pc[s] \in Past
  <2>1. job[s].kind \in Moving /\ InFlight(s)
    BY <1>3 DEF KindInv, InFlight, Answered, Past, InTransaction
  <2>2. job[s].source \in Account /\ job[s].destination \in Account
    BY JobFields
  <2>3. /\ Debits(s) => acct'[job[s].source] = acct[job[s].source]
        /\ Credits(s) => acct'[job[s].destination] = acct[job[s].destination]
    BY <2>1, <2>2, AccountsKept, TouchesMoving
  <2>4. \A q \in Request : row[q] # "none" => row'[q] = row[q]
    BY RowsStay
  <2>5. RefTaken(s) => RefTaken(s)'
    BY <1>j, <2>4, RefOfStable DEF RefTaken
  <2>6. Debits(s)' = Debits(s) /\ Credits(s)' = Credits(s) /\ TotalDebit(s)' = TotalDebit(s)
    BY <1>j DEF Debits, Credits, TotalDebit
  <2>7. Debits(s) => Funded(s)' = Funded(s)
    BY <1>j, <2>3, <2>6 DEF Funded
  <2>8. \A a \in Account : Written(s, a)' = Written(s, a)
    BY <1>j, <2>3, <2>6 DEF Written, Debited, Credited, Shifted
  <2>9. /\ pc[s] \in DebitStep => Debits(s)
        /\ pc[s] \in CreditStep => Credits(s)
        /\ Debited(s)' = Debited(s)
    BY <2>6 DEF KindInv, Debited
  <2> QED BY <1>1, <1>3, <1>j, <2>3, <2>5, <2>6, <2>7, <2>8, <2>9
          DEF FreshOf, Past, InTransaction, DebitStep, CreditStep, Debited, Shifted
<1>4. CASE pc[s] \in {"statusSave", "statusUpdate"}
  <2>1. job[s].kind \in {"freeze", "unfreeze"} /\ InFlight(s)
    BY <1>4 DEF ControlInv, InFlight, Answered
  <2>2. job[s].source \in Account
    BY JobFields
  <2>3. acct'[job[s].source] = acct[job[s].source]
    BY <2>1, <2>2, AccountsKept DEF Touches
  <2>4. \A a \in Account : pending'[s][a] = Absent
    BY <1>1, <1>4, FreshClean DEF CreditStep
  <2> QED BY <1>1, <1>4, <1>j, <2>3, <2>4
          DEF FreshOf, Past, InTransaction, CreditStep, Debited, Credited, Written, Frozen
<1> QED BY <1>2, <1>3, <1>4

\* Writing the two balances of a shifted row over the row shifts the row.
LEMMA MergeShifted ==
    ASSUME NEW found \in Row, NEW delta \in Int
    PROVE  Merge(found, Shifted(found, delta), {"balance", "ledgerBalance"}) = Shifted(found, delta)
BY DEF Merge, Shifted

\* A request that goes on in its transaction, having written nothing, or comes
\* to its end having rolled everything back.
LEMMA FreshGoto ==
    ASSUME TypeOK, UNCHANGED <<job, acct, row>>, NEW r \in Request, FreshOf(r),
           fee'[r] = fee[r], pending'[r] = pending[r], pc[r] \in Past,
           Debited(r)' = Debited(r), Credited(r)' = Credited(r),
           pc'[r] \notin {"debitSave", "debitUpdate", "creditSave", "creditUpdate",
                          "statusSave", "statusUpdate"},
           pc'[r] \in {"rollback", "rolledBack", "saveFailed"} => RefTaken(r) \/ (Debits(r) /\ ~Funded(r))
    PROVE  FreshOf(r)'
<1>1. /\ Funded(r)' = Funded(r) /\ RefTaken(r)' = RefTaken(r) /\ Debits(r)' = Debits(r)
      /\ \A a \in Account : Written(r, a)' = Written(r, a)
  BY RefOfStable DEF Funded, RefTaken, Debits, Written, TotalDebit, Shifted
<1> QED BY <1>1 DEF FreshOf

LEMMA FreshNext ==
    ASSUME TypeOK, ControlInv, KindInv, ExistInv, ApartInv, FreshInv, [Next]_vars
    PROVE  FreshInv'
<1> SUFFICES ASSUME NEW r \in Request PROVE FreshOf(r)'
  BY DEF FreshInv
<1> USE DEF memory, database, uncommitted, Goto, At
<1>j. UNCHANGED job
  BY JobStable
<1>o. FreshOf(r)
  BY DEF FreshInv
<1>k. /\ job[r].source \in Account /\ job[r].destination \in Account
      /\ TotalDebit(r) \in Nat /\ job[r].amount \in Nat
      /\ acct[job[r].source] \in Row /\ acct[job[r].destination] \in Row
  BY JobFields DEF TypeOK
<1>f. ASSUME Forget(r) PROVE \A a \in Account : pending'[r][a] = Absent
  BY <1>f DEF Forget, TypeOK
<1>i. ASSUME NEW to, pc' = [pc EXCEPT ![r] = to], UNCHANGED pending,
             to \notin Past \cup {"statusSave", "statusUpdate"},
             pc[r] \notin CreditStep \cup {"complete", "commit"}
      PROVE  FreshOf(r)'
  BY <1>i, <1>o, FreshClean, FreshIdle DEF TypeOK
<1>r. RefTaken(r)' = RefTaken(r) \/ ~UNCHANGED row
  BY <1>j, RefOfStable DEF RefTaken
<1>1. CASE Arrive(r)
  <2>1. FirstStep[job[r].kind] \in {"guard", "validate", "statusRead", "open"}
    BY JobFields DEF Kind, FirstStep
  <2> QED BY <1>1, <2>1, <1>i DEF Arrive, Past, InTransaction, CreditStep
<1>2. CASE Guard(r)
  BY <1>2, <1>i DEF Guard, Past, InTransaction, CreditStep
<1>3. CASE Validate(r)
  <2>1. CASE pc' = [pc EXCEPT ![r] = "rejected"]
    BY <2>1, <1>3, <1>i DEF Validate, Past, InTransaction, CreditStep
  <2>2. CASE pc' # [pc EXCEPT ![r] = "rejected"]
    <3>1. PICK f \in (IF job[r].kind = "transfer" THEN Fee ELSE {0}) :
                fee' = [fee EXCEPT ![r] = f]
      BY <2>2, <1>3 DEF Validate
    <3>2. pc[r] = "validate" /\ pc' = [pc EXCEPT ![r] = "begin"] /\ UNCHANGED pending
      BY <2>2, <1>3 DEF Validate
    <3>3. fee'[r] = f /\ pc'[r] = "begin"
      BY <3>1, <3>2 DEF TypeOK
    <3>4. \A a \in Account : pending'[r][a] = Absent
      BY <3>2, <1>o, FreshClean DEF CreditStep
    <3> QED BY <3>3, <3>4, <1>j DEF FreshOf, Written, Debited, Credited, CreditStep
  <2> QED BY <2>1, <2>2
<1>4. CASE Begin(r)
  BY <1>4, <1>o, FreshGoto DEF Begin, Past, Debited, Credited, CreditStep, TypeOK
<1>5. CASE Insert(r)
  <2>1. pc[r] = "insert" /\ UNCHANGED <<job, fee, pending, acct, row>>
    BY <1>5 DEF Insert
  <2>2. CASE RefTaken(r)
    <3>1. pc'[r] = "rollback"
      BY <1>5, <2>2 DEF Insert, TypeOK
    <3> QED BY <2>1, <2>2, <3>1, <1>o, FreshGoto
            DEF Past, InTransaction, Debited, Credited, CreditStep
  <2>3. CASE ~RefTaken(r)
    <3>1. pc'[r] = IF job[r].kind = "deposit" THEN "creditRead" ELSE "debitRead"
      BY <1>5, <2>3 DEF Insert, TypeOK
    <3>2. Debited(r)' = Debited(r) /\ Credited(r)' = Credited(r)
      BY <2>1, <3>1, <1>j DEF Debited, Credited, CreditStep, Debits
    <3> QED BY <2>1, <3>1, <3>2, <1>o, FreshGoto DEF Past, InTransaction
  <2> QED BY <2>2, <2>3
<1>6. CASE DebitRead(r)
  <2>1. /\ pc[r] = "debitRead" /\ UNCHANGED <<job, fee, pending, acct, row>>
        /\ Debits(r) /\ Target(r) = job[r].source
    BY <1>6 DEF DebitRead, KindInv, DebitStep, Target
  <2>2. Funded(r) <=> /\ acct[Target(r)].status = "active"
                      /\ acct[Target(r)].balance >= TotalDebit(r)
    BY <2>1 DEF Funded
  <2>3. CASE Funded(r)
    <3>1. /\ entity' = [entity EXCEPT ![r] = Shifted(acct[job[r].source], -TotalDebit(r))]
          /\ pc' = [pc EXCEPT ![r] = "debitSave"]
      BY <1>6, <2>1, <2>2, <2>3 DEF DebitRead
    <3>2. entity'[r] = Shifted(acct[job[r].source], -TotalDebit(r)) /\ pc'[r] = "debitSave"
      BY <3>1 DEF TypeOK
    <3>3. \A a \in Account : pending'[r][a] = Absent
      BY <2>1, <1>o, FreshClean DEF CreditStep
    <3>4. Funded(r)' /\ TotalDebit(r)' = TotalDebit(r) /\ fee'[r] = fee[r]
      BY <2>1, <2>3 DEF Funded, TotalDebit
    <3>5. fee[r] \in (IF job[r].kind = "transfer" THEN Fee ELSE {0})
      BY <2>1, <1>o DEF FreshOf, Past, InTransaction
    <3> QED BY <2>1, <3>2, <3>3, <3>4, <3>5
            DEF FreshOf, Written, Debited, Credited, CreditStep, Shifted
  <2>4. CASE ~Funded(r)
    <3>1. pc'[r] = "rollback"
      BY <1>6, <2>2, <2>4 DEF DebitRead, TypeOK
    <3> QED BY <2>1, <2>4, <3>1, <1>o, FreshGoto
            DEF Past, InTransaction, Debited, Credited, CreditStep
  <2> QED BY <2>3, <2>4
<1>7. CASE CreditRead(r)
  <2>1. /\ pc[r] = "creditRead" /\ UNCHANGED <<job, fee, pending, acct, row>>
        /\ Target(r) = job[r].destination
    BY <1>7 DEF CreditRead, Target
  <2>2. pc'[r] = "creditSave" /\ entity'[r] = Shifted(acct[job[r].destination], job[r].amount)
    BY <1>7, <2>1 DEF CreditRead, TypeOK
  <2>3. /\ Funded(r)' = Funded(r) /\ Debited(r)' = Debited(r) /\ ~Credited(r)'
        /\ ~Credited(r) /\ \A a \in Account : Written(r, a)' = Written(r, a)
    BY <2>1, <2>2 DEF Funded, Debited, Debits, Credited, CreditStep, Written, TotalDebit, Shifted
  <2> QED BY <2>1, <2>2, <2>3, <1>o DEF FreshOf, Past, InTransaction, Shifted
<1>8. CASE Reload(r)
  <2>1. /\ pc[r] \in {"debitSave", "creditSave"} /\ UNCHANGED <<job, fee, entity, pending, acct, row>>
        /\ pc'[r] = IF pc[r] = "debitSave" THEN "debitUpdate" ELSE "creditUpdate"
    BY <1>8 DEF Reload, AfterReload, TypeOK
  <2>2. entity[r].status = acct[Target(r)].status
    BY <2>1, <1>o DEF FreshOf, Target, Shifted
  <2>3. dirty'[r] = {"balance", "ledgerBalance"}
    BY <1>8, <2>2 DEF Reload, TypeOK
  <2>4. /\ Funded(r)' = Funded(r) /\ Debited(r)' = Debited(r) /\ ~Credited(r)'
        /\ ~Credited(r) /\ \A a \in Account : Written(r, a)' = Written(r, a)
    BY <2>1 DEF Funded, Debited, Debits, Credited, CreditStep, Written, TotalDebit, Shifted
  <2> QED BY <2>1, <2>3, <2>4, <1>o DEF FreshOf, Past, InTransaction, Shifted, TotalDebit
<1>9. CASE Update(r)
  <2> DEFINE T == Target(r)
             new == IF pc[r] = "debitUpdate" THEN Shifted(acct[T], -TotalDebit(r))
                    ELSE Shifted(acct[T], job[r].amount)
  <2>1. /\ pc[r] \in {"debitUpdate", "creditUpdate"}
        /\ UNCHANGED <<job, fee, acct, row>>
        /\ T = IF pc[r] = "debitUpdate" THEN job[r].source ELSE job[r].destination
    BY <1>9 DEF Update, Target
  <2>2. entity[r] = new /\ dirty[r] = {"balance", "ledgerBalance"}
    BY <2>1, <1>o DEF FreshOf
  <2>3. Merge(acct[T], entity[r], dirty[r]) = new
    BY <2>1, <2>2, <1>k, MergeShifted
  <2>4. pending' = [pending EXCEPT ![r][T] = new]
    BY <1>9, <2>3 DEF Update
  <2>5. T \in Account
    BY <2>1, <1>k
  <2> HIDE DEF T, new
  <2>6. pending'[r][T] = new /\ \A a \in Account \ {T} : pending'[r][a] = pending[r][a]
    BY <2>4, <2>5 DEF TypeOK
  <2>7. pc'[r] = AfterUpdate(r)
    BY <1>9 DEF Update, TypeOK
  <2>8. job[r].kind \in Moving /\ Valid(r) /\ fee[r] \in (IF job[r].kind = "transfer" THEN Fee ELSE {0})
    BY <2>1, <1>o DEF KindInv, ExistInv, FreshOf, Past, InTransaction
  <2>9. CASE pc[r] = "debitUpdate"
    <3>1. Debits(r) /\ Funded(r) /\ Funded(r)'
      BY <2>1, <2>9, <1>o DEF KindInv, DebitStep, FreshOf, Funded, TotalDebit
    <3>2. pc'[r] = IF job[r].kind = "withdraw" THEN "complete" ELSE "creditRead"
      BY <2>7, <2>9 DEF AfterUpdate
    <3>3. Debited(r)' /\ ~Credited(r)'
      BY <2>1, <3>1, <3>2 DEF Debited, Credited, Debits, Credits, CreditStep
    <3>4. \A a \in Account : pending[r][a] = Absent
      BY <2>9, <1>o, FreshClean DEF CreditStep
    <3>5. T = job[r].source /\ new = Shifted(acct[job[r].source], -TotalDebit(r))
      BY <2>1, <2>9 DEF new
    <3>6. \A a \in Account : pending'[r][a] = Written(r, a)'
      BY <2>1, <2>6, <3>3, <3>4, <3>5 DEF Written, Shifted, TotalDebit
    <3> QED BY <2>1, <2>8, <3>1, <3>2, <3>6 DEF FreshOf, DebitStep, CreditStep
  <2>10. CASE pc[r] = "creditUpdate"
    <3>1. Credits(r) /\ (Debits(r) => Funded(r)) /\ (Debits(r) => Debited(r)) /\ Funded(r)' = Funded(r)
      BY <2>1, <2>10, <1>o DEF KindInv, CreditStep, FreshOf, Funded, Debited, TotalDebit
    <3>2. pc'[r] = "complete"
      BY <2>7, <2>10 DEF AfterUpdate
    <3>3. Debited(r)' = Debited(r) /\ Credited(r)' /\ ~Credited(r)
      BY <2>1, <2>10, <3>1, <3>2 DEF Debited, Credited, Debits, Credits, CreditStep
    <3>4. T = job[r].destination /\ new = Shifted(acct[job[r].destination], job[r].amount)
      BY <2>1, <2>10 DEF new
    <3>5. Debits(r) => job[r].source # job[r].destination
      BY <2>8, <3>1 DEF Valid, Debits, Credits
    <3>6. \A a \in Account : pending[r][a] = IF Debited(r) /\ a = job[r].source
                THEN Shifted(acct[a], -TotalDebit(r)) ELSE Absent
      BY <1>o, <3>3 DEF FreshOf, Written
    <3>7. Debited(r) => Debits(r)
      BY DEF Debited
    <3>8. TotalDebit(r)' = TotalDebit(r)
      BY <2>1 DEF TotalDebit
    <3>9. ASSUME NEW a \in Account PROVE pending'[r][a] = Written(r, a)'
      <4>1. CASE a = T
        BY <4>1, <2>1, <2>6, <3>3, <3>4, <3>5, <3>7 DEF Written, Shifted
      <4>2. CASE a # T
        BY <4>2, <2>1, <2>6, <3>3, <3>4, <3>6, <3>8 DEF Written, Shifted
      <4> QED BY <4>1, <4>2
    <3> QED BY <2>1, <2>8, <3>1, <3>2, <3>3, <3>7, <3>9 DEF FreshOf
  <2> QED BY <2>1, <2>9, <2>10
<1>10. CASE Complete(r)
  BY <1>10, <1>o, FreshGoto DEF Complete, Past, InTransaction, Debited, Credited, Debits, Credits, CreditStep, TypeOK
<1>11. CASE Commit(r)
  <2>1. pc'[r] = "committed"
    BY <1>11 DEF Commit, TypeOK
  <2> QED BY <1>11, <2>1, <1>f, FreshIdle DEF Commit, Past, InTransaction
<1>12. CASE Finish(r)
  BY <1>12, <1>i DEF Finish, Past, InTransaction, CreditStep
<1>13. CASE Rollback(r)
  <2>1. /\ pc[r] = "rollback" /\ pc'[r] = "rolledBack"
        /\ UNCHANGED <<job, fee, acct, row>> /\ Forget(r)
    BY <1>13 DEF Rollback, TypeOK
  <2>2. /\ fee[r] \in (IF job[r].kind = "transfer" THEN Fee ELSE {0})
        /\ RefTaken(r) \/ (Debits(r) /\ ~Funded(r))
    BY <2>1, <1>o DEF FreshOf, Past, InTransaction
  <2>3. Funded(r)' = Funded(r) /\ RefTaken(r)' = RefTaken(r) /\ Debits(r)' = Debits(r)
    BY <2>1, <1>r DEF Funded, Debits, TotalDebit
  <2> QED BY <2>1, <2>2, <2>3, <1>f DEF FreshOf, Written, Debited, Credited, CreditStep
<1>14. CASE SecondConnection(r)
  <2>1. /\ pc[r] = "rolledBack" /\ pc'[r] = "saveFailed"
        /\ UNCHANGED <<job, fee, acct, row, pending>>
    BY <1>14 DEF SecondConnection, TypeOK
  <2>2. RefTaken(r) \/ (Debits(r) /\ ~Funded(r))
    BY <2>1, <1>o DEF FreshOf
  <2> QED BY <2>1, <2>2, <1>o, FreshGoto DEF Past, Debited, Credited, CreditStep
<1>15. CASE SaveFailed(r) \/ FinishFailed(r)
  BY <1>15, <1>i DEF SaveFailed, FinishFailed, Past, InTransaction, CreditStep
<1>16. CASE DeadlockVictim(r)
  BY <1>16, NoDeadlock
<1>17. CASE StatusRead(r)
  <2>1. CASE pc' = [pc EXCEPT ![r] = "rejected"]
    BY <2>1, <1>17, <1>i DEF StatusRead, Past, InTransaction, CreditStep
  <2>2. CASE pc' # [pc EXCEPT ![r] = "rejected"]
    <3>1. /\ pc[r] = "statusRead" /\ pc' = [pc EXCEPT ![r] = "statusSave"]
          /\ job[r].kind = "freeze" => Owner[job[r].source] = job[r].user
          /\ entity' = [entity EXCEPT ![r] = [acct[job[r].source] EXCEPT !.status = Frozen(r)]]
          /\ UNCHANGED <<acct, pending>>
      BY <2>2, <1>17 DEF StatusRead, Frozen
    <3>2. /\ pc'[r] = "statusSave"
          /\ entity'[r] = [acct[job[r].source] EXCEPT !.status = Frozen(r)]
      BY <3>1 DEF TypeOK
    <3>3. \A a \in Account : pending'[r][a] = Absent
      BY <3>1, <1>o, FreshClean DEF CreditStep
    <3> QED BY <3>1, <3>2, <3>3, <1>j
            DEF FreshOf, Written, Debited, Credited, CreditStep, Past, InTransaction, Frozen
  <2> QED BY <2>1, <2>2
<1>18. CASE StatusReload(r)
  <2>1. CASE pc' = [pc EXCEPT ![r] = "ok"]
    BY <2>1, <1>18, <1>i DEF StatusReload, Past, InTransaction, CreditStep
  <2>2. CASE pc' # [pc EXCEPT ![r] = "ok"]
    <3> DEFINE current == acct[job[r].source]
               changed == {c \in Column :
                  \/ c = "balance" /\ entity[r].balance # current.balance
                  \/ c = "ledgerBalance" /\ entity[r].ledgerBalance # current.ledgerBalance
                  \/ c = "status" /\ entity[r].status # current.status}
    <3>1. /\ pc[r] = "statusSave" /\ pc' = [pc EXCEPT ![r] = "statusUpdate"]
          /\ changed # {} /\ dirty' = [dirty EXCEPT ![r] = changed]
          /\ UNCHANGED <<entity, acct, pending>>
      BY <2>2, <1>18 DEF StatusReload
    <3>2. /\ entity[r] = [current EXCEPT !.status = Frozen(r)]
          /\ job[r].kind = "freeze" => Owner[job[r].source] = job[r].user
      BY <3>1, <1>o DEF FreshOf
    <3>3. entity[r].balance = current.balance /\ entity[r].ledgerBalance = current.ledgerBalance
      BY <3>2, <1>k DEF Row
    <3>4. changed = {"status"}
      BY <3>1, <3>3 DEF Column
    <3> HIDE DEF changed
    <3>5. pc'[r] = "statusUpdate" /\ dirty'[r] = {"status"}
      BY <3>1, <3>4 DEF TypeOK
    <3>6. \A a \in Account : pending'[r][a] = Absent
      BY <3>1, <1>o, FreshClean DEF CreditStep
    <3> QED BY <3>1, <3>2, <3>5, <3>6, <1>j
            DEF FreshOf, Written, Debited, Credited, CreditStep, Past, InTransaction, Frozen
  <2> QED BY <2>1, <2>2
<1>19. CASE StatusUpdate(r)
  BY <1>19, <1>i DEF StatusUpdate, Past, InTransaction, CreditStep
<1>20. CASE Open(r)
  BY <1>20, <1>i DEF Open, Past, InTransaction, CreditStep
<1>21. CASE Disconnect(r)
  <2>1. pc'[r] = "error"
    BY <1>21 DEF Disconnect, TypeOK
  <2> QED BY <1>21, <2>1, <1>f, FreshIdle DEF Disconnect, Past, InTransaction
<1>22. CASE Crash
  <2>1. pc'[r] \notin Past \cup {"statusSave", "statusUpdate"}
    BY <1>22 DEF Crash, InFlight, Answered, Past, InTransaction
  <2> QED BY <1>22, <2>1, FreshIdle DEF Crash
<1> QED BY <1>1, <1>2, <1>3, <1>4, <1>5, <1>6, <1>7, <1>8, <1>9, <1>10, <1>11, <1>12,
         <1>13, <1>14, <1>15, <1>16, <1>17, <1>18, <1>19, <1>20, <1>21, <1>22,
         Isolated, FreshKept DEF Serve

-----------------------------------------------------------------------------
(* The refinement.                                                         *)

\* The invariants a step towards the atomic ledger rests on.
LedgerInv == TypeOK /\ Inv /\ KindInv /\ ExistInv /\ ApartInv /\ FreshInv

LEMMA LedgerInductive ==
    ASSUME Discipline = "perAccount"
    PROVE  /\ Init => LedgerInv
           /\ LedgerInv /\ [Next]_vars => LedgerInv'
<1>1. Init => ApartInv
  BY DEF Init, ApartInv, InFlight
<1>2. ASSUME Init PROVE FreshInv
  BY <1>2 DEF Init, FreshInv, FreshOf, Written, Debited, Credited, Past, InTransaction, CreditStep
<1> QED BY <1>1, <1>2, InvInductive, GeneralInit, KindNext, ExistNext, ApartNext, FreshNext
        DEF LedgerInv, Inv

\* What was validated is sensible to the ledger.
LEMMA ValidSensible ==
    ASSUME NEW r \in Request, Valid(r), job[r].kind \in Moving
    PROVE  Ledger!Sensible(r)
BY DEF Valid, Ledger!Sensible, Ledger!Exists, Exists, Moving

\* Crediting and debiting is what the ledger does to an account.
LEMMA PlusIsShifted ==
    ASSUME NEW found \in Row, NEW delta \in Int
    PROVE  Ledger!Plus(found, delta) = Shifted(found, delta)
<1> DEFINE half == [found EXCEPT !.balance = found.balance + delta]
           plus == [half EXCEPT !.ledgerBalance = half.ledgerBalance + delta]
<1>1. half \in Row /\ half.balance = found.balance + delta
      /\ half.ledgerBalance = found.ledgerBalance /\ half.status = found.status
  BY DEF Row
<1>2. Ledger!Plus(found, delta) = plus
  BY <1>1 DEF Ledger!Plus
<1> HIDE DEF half
<1>3. plus \in Row /\ plus.balance = found.balance + delta
      /\ plus.ledgerBalance = found.ledgerBalance + delta /\ plus.status = found.status
  BY <1>1 DEF Row
<1> HIDE DEF plus
<1>4. plus = Shifted(found, delta)
  BY <1>3 DEF Shifted, Row
<1> QED BY <1>2, <1>4

\* Account a after the debit and the credit of r.
Moved(r, a) == IF Debits(r) /\ a = job[r].source THEN Shifted(acct[a], -TotalDebit(r))
               ELSE IF Credits(r) /\ a = job[r].destination
                    THEN Shifted(acct[a], job[r].amount)
               ELSE acct[a]

\* A commit writes the debit and the credit of its transaction, and nothing
\* else.
LEMMA CommitWrites ==
    ASSUME LedgerInv, NEW r \in Request, Commit(r)
    PROVE  /\ job[r].kind \in Moving /\ Valid(r)
           /\ Debits(r) => Funded(r)
           /\ \A a \in Account : acct'[a] = Moved(r, a)
<1>1. /\ pc[r] = "commit"
      /\ acct' = [a \in Account |-> IF pending[r][a] # Absent THEN pending[r][a] ELSE acct[a]]
  BY DEF Commit, At
<1>2. job[r].kind \in Moving /\ Valid(r) /\ FreshOf(r)
  BY <1>1 DEF LedgerInv, KindInv, ExistInv, FreshInv, Past, InTransaction
<1>3. (Debited(r) <=> Debits(r)) /\ (Credited(r) <=> Credits(r))
  BY <1>1 DEF Debited, Credited
<1>4. Debits(r) => Funded(r)
  BY <1>2, <1>3 DEF FreshOf
<1>5. ASSUME NEW a \in Account
      PROVE  acct'[a] = Moved(r, a)
  <2>1. acct'[a] = IF Written(r, a) # Absent THEN Written(r, a) ELSE acct[a]
    BY <1>1, <1>2 DEF FreshOf
  <2>2. Exists(a) => \A delta : Shifted(acct[a], delta) # Absent
    BY DEF Exists, Shifted, Absent
  <2>3. /\ Debits(r) /\ a = job[r].source => Exists(a)
        /\ Credits(r) /\ a = job[r].destination => Exists(a)
    BY <1>2 DEF Valid, Debits, Credits
  <2> QED BY <1>3, <2>1, <2>2, <2>3 DEF Written, Moved
<1> QED BY <1>2, <1>4, <1>5

\* A commit books the transaction.
LEMMA CommitBooks ==
    ASSUME LedgerInv, NEW r \in Request, Commit(r)
    PROVE  Ledger!Book(r)
<1>1. /\ pc[r] = "commit" /\ UNCHANGED job
      /\ acct' = [a \in Account |-> IF pending[r][a] # Absent THEN pending[r][a] ELSE acct[a]]
  BY DEF Commit, At
<1>2. row[r] = "none" /\ row' = [row EXCEPT ![r] = "completed"] /\ draft[r] # "none"
  BY <1>1, CommitRow DEF LedgerInv, Inv, ControlInv
<1>3. /\ job[r].kind \in Moving /\ Valid(r)
      /\ fee[r] \in (IF job[r].kind = "transfer" THEN Fee ELSE {0})
      /\ FreshOf(r)
  BY <1>1 DEF LedgerInv, KindInv, ExistInv, FreshInv, FreshOf, Past, InTransaction
<1>4. Ledger!Sensible(r)
  BY <1>3, ValidSensible
<1>5. Ledger!Fresh(r)
  <2> SUFFICES ASSUME NEW s \in Request, job[r].kind = "deposit", job[s].kind = "deposit",
                      job[r].ref # NoRef, job[r].ref = job[s].ref
               PROVE  row[s] = "none"
    BY DEF Ledger!Fresh
  <2>1. RefOf(r) = RefOf(s)
    BY DEF RefOf
  <2> QED BY <1>2, <2>1 DEF LedgerInv, Inv, RefInv
<1>6. /\ job[r].source \in Account /\ job[r].destination \in Account
      /\ TotalDebit(r) \in Nat /\ job[r].amount \in Nat /\ fee[r] \in Nat
      /\ TotalDebit(r) = job[r].amount + fee[r]
      /\ acct \in [Account -> Row]
  BY JobFields DEF LedgerInv, TypeOK, TotalDebit
<1>7. Debits(r) => Funded(r)
  BY CommitWrites
<1>8. \A a \in Account : acct'[a] = Moved(r, a)
  BY CommitWrites
<1>9. Debits(r) => Ledger!Covered(r, TotalDebit(r))
  BY <1>7 DEF Funded, Ledger!Covered
<1>10. /\ Shifted(acct[job[r].source], -TotalDebit(r)) = Ledger!Plus(acct[job[r].source], -TotalDebit(r))
       /\ Shifted(acct[job[r].destination], job[r].amount)
            = Ledger!Plus(acct[job[r].destination], job[r].amount)
  BY <1>6, PlusIsShifted
<1>11. acct' \in [Account -> Row]
  <2>1. TypeOK /\ [Next]_vars
    BY DEF LedgerInv, Next, Serve
  <2> QED BY <2>1, TypeNext DEF TypeOK
<1>12. CASE job[r].kind = "transfer"
  <2>1. job[r].source # job[r].destination /\ Debits(r) /\ Credits(r) /\ fee[r] \in Fee
    BY <1>3, <1>12 DEF Valid, Debits, Credits
  <2>2. acct' = [acct EXCEPT
            ![job[r].source] = Ledger!Plus(acct[job[r].source], -TotalDebit(r)),
            ![job[r].destination] = Ledger!Plus(acct[job[r].destination], job[r].amount)]
    BY <1>6, <1>8, <1>10, <1>11, <2>1 DEF Moved
  <2> QED BY <1>1, <1>2, <1>4, <1>5, <1>6, <1>9, <1>12, <2>1, <2>2 DEF Ledger!Book
<1>13. CASE job[r].kind = "withdraw"
  <2>1. Debits(r) /\ ~Credits(r) /\ TotalDebit(r) = job[r].amount
    BY <1>3, <1>6, <1>13 DEF Debits, Credits
  <2>2. acct' = [acct EXCEPT
            ![job[r].source] = Ledger!Plus(acct[job[r].source], -job[r].amount)]
    BY <1>6, <1>8, <1>10, <1>11, <2>1 DEF Moved
  <2> QED BY <1>1, <1>2, <1>4, <1>5, <1>9, <1>13, <2>1, <2>2 DEF Ledger!Book
<1>14. CASE job[r].kind = "deposit"
  <2>1. ~Debits(r) /\ Credits(r)
    BY <1>14 DEF Debits, Credits
  <2>2. acct' = [acct EXCEPT
            ![job[r].destination] = Ledger!Plus(acct[job[r].destination], job[r].amount)]
    BY <1>6, <1>8, <1>10, <1>11, <2>1 DEF Moved
  <2> QED BY <1>1, <1>2, <1>4, <1>5, <1>14, <2>1, <2>2 DEF Ledger!Book
<1> QED BY <1>3, <1>12, <1>13, <1>14 DEF Moving

\* A FAILED record is that of a debit that was not covered.
LEMMA FailureRefuses ==
    ASSUME LedgerInv, NEW r \in Request, SaveFailed(r)
    PROVE  Ledger!Refuse(r) \/ UNCHANGED <<job, acct, row>>
<1>1. pc[r] = "saveFailed" /\ UNCHANGED <<job, acct>>
  BY DEF SaveFailed, At, memory
<1>2. CASE RefTaken(r)
  BY <1>1, <1>2 DEF SaveFailed
<1>3. CASE ~RefTaken(r)
  <2>1. row' = [row EXCEPT ![r] = "failed"]
    BY <1>3 DEF SaveFailed
  <2>2. row[r] = "none"
    BY <1>1 DEF LedgerInv, Inv, ControlInv
  <2>3. /\ job[r].kind \in Moving /\ Valid(r) /\ Debits(r) /\ ~Funded(r)
        /\ fee[r] \in (IF job[r].kind = "transfer" THEN Fee ELSE {0})
    BY <1>1, <1>3 DEF LedgerInv, KindInv, ExistInv, FreshInv, FreshOf, Past, InTransaction
  <2>4. Ledger!Sensible(r)
    BY <2>3, ValidSensible
  <2>5. ~Ledger!Covered(r, TotalDebit(r))
    BY <2>3 DEF Funded, Ledger!Covered
  <2>6. TotalDebit(r) = job[r].amount + fee[r] /\ job[r].amount \in Nat
    BY JobFields DEF LedgerInv, TotalDebit
  <2>7. CASE job[r].kind = "withdraw"
    <3>1. TotalDebit(r) = job[r].amount
      BY <2>3, <2>6, <2>7
    <3> QED BY <1>1, <2>1, <2>2, <2>4, <2>5, <2>7, <3>1 DEF Ledger!Refuse
  <2>8. CASE job[r].kind = "transfer"
    <3>1. fee[r] \in Fee
      BY <2>3, <2>8
    <3> QED BY <1>1, <2>1, <2>2, <2>4, <2>5, <2>6, <2>8, <3>1 DEF Ledger!Refuse
  <2> QED BY <2>3, <2>7, <2>8 DEF Debits
<1> QED BY <1>2, <1>3

\* A status written back carries no stale balance with it.
LEMMA StatusSets ==
    ASSUME LedgerInv, NEW r \in Request, StatusUpdate(r)
    PROVE  /\ job[r].kind \in {"freeze", "unfreeze"} /\ job[r].source \in Account
           /\ acct' = [acct EXCEPT ![job[r].source].status = Frozen(r)]
           /\ Ledger!SetStatus(r)
<1>1. pc[r] = "statusUpdate" /\ UNCHANGED <<job, row>>
      /\ acct' = [acct EXCEPT ![job[r].source] = Merge(acct[job[r].source], entity[r], dirty[r])]
  BY DEF StatusUpdate, At
<1>2. /\ job[r].kind \in {"freeze", "unfreeze"} /\ Exists(job[r].source)
      /\ job[r].kind = "freeze" => Owner[job[r].source] = job[r].user
      /\ entity[r] = [acct[job[r].source] EXCEPT !.status = Frozen(r)]
      /\ dirty[r] = {"status"}
  BY <1>1 DEF LedgerInv, Inv, ControlInv, ExistInv, FreshInv, FreshOf
<1>3. job[r].source \in Account /\ acct[job[r].source] \in Row
  BY JobFields DEF LedgerInv, TypeOK
<1>4. Merge(acct[job[r].source], entity[r], dirty[r])
        = [acct[job[r].source] EXCEPT !.status = Frozen(r)]
  BY <1>2, <1>3 DEF Merge, Row
<1>5. acct' = [acct EXCEPT ![job[r].source].status = Frozen(r)]
  BY <1>1, <1>4
<1>6. Ledger!SetStatus(r)
  BY <1>1, <1>2, <1>5 DEF Ledger!SetStatus, Ledger!Exists, Exists, Frozen
<1> QED BY <1>2, <1>3, <1>5, <1>6

LEMMA StatusMovesNoMoney ==
    ASSUME LedgerInv, NEW r \in Request, StatusUpdate(r), NEW a \in Account
    PROVE  acct'[a].balance = acct[a].balance
<1>1. acct' = [acct EXCEPT ![job[r].source] = [acct[job[r].source] EXCEPT !.status = Frozen(r)]]
  BY StatusSets
<1>2. acct \in [Account -> Row]
  BY DEF LedgerInv, TypeOK
<1>3. [acct[a] EXCEPT !.status = Frozen(r)].balance = acct[a].balance
  BY <1>2 DEF Row
<1> QED BY <1>1, <1>2, <1>3

LEMMA OpenOpens ==
    ASSUME LedgerInv, NEW r \in Request, Open(r)
    PROVE  Ledger!Open(r) \/ UNCHANGED <<job, acct, row>>
<1>1. job[r].kind = "open" /\ UNCHANGED <<job, row>>
  BY DEF Open, At, LedgerInv, Inv, ControlInv
<1>2. [Absent EXCEPT !.status = "active"] = [balance |-> 0, ledgerBalance |-> 0, status |-> "active"]
  BY DEF Absent
<1> QED BY <1>1, <1>2 DEF Open, Ledger!Open, Exists, Ledger!Exists

\* Clients whose requests do not contend for an account see an atomic ledger:
\* whatever statements, failures, crashes and lost connections come in
\* between, money moves in single booking steps, and only an uncovered debit
\* is recorded as failed.
THEOREM Atomic ==
    ASSUME Discipline = "perAccount"
    PROVE  Spec => AtomicPerAccount
<1>1. Init => Ledger!Init
  BY DEF Init, Ledger!Init
<1>2. ASSUME LedgerInv, [Next]_vars PROVE [Ledger!Next]_(Ledger!vars)
  <2>1. UNCHANGED job
    BY <1>2, JobStable
  <2>2. ASSUME NEW r \in Request, Commit(r) \/ SaveFailed(r) \/ StatusUpdate(r) \/ Open(r)
        PROVE  Ledger!Next \/ UNCHANGED <<job, acct, row>>
    BY <1>2, <2>2, CommitBooks, FailureRefuses, StatusSets, OpenOpens DEF Ledger!Next
  <2>3. CASE \E r \in Request : Commit(r) \/ SaveFailed(r) \/ StatusUpdate(r) \/ Open(r)
    BY <2>2, <2>3 DEF Ledger!vars
  <2>4. CASE ~\E r \in Request : Commit(r) \/ SaveFailed(r) \/ StatusUpdate(r) \/ Open(r)
    BY <1>2, <2>1, <2>4, AcctChanges, RowChanges DEF Ledger!vars
  <2> QED BY <2>3, <2>4
<1> QED BY <1>1, <1>2, LedgerInductive, PTL DEF Spec, AtomicPerAccount, Ledger!Spec

\* For clients whose requests do not contend for an account a balance moves
\* only in the step that makes a transaction on it COMPLETED, although accounts
\* are frozen and unfrozen meanwhile.
THEOREM MoneyMovesApart ==
    ASSUME Discipline = "perAccount"
    PROVE  Spec => MoneyMovesWithARow
<1>1. LedgerInv /\ [Next]_vars
        => [\A a \in Account : acct'[a].balance # acct[a].balance =>
                \E r \in Request : /\ row[r] = "none" /\ row'[r] = "completed"
                                   /\ a \in Touches(r)]_vars
  <2> SUFFICES ASSUME LedgerInv, [Next]_vars,
                      NEW a \in Account, acct'[a].balance # acct[a].balance
               PROVE  \E r \in Request : /\ row[r] = "none" /\ row'[r] = "completed"
                                         /\ a \in Touches(r)
    OBVIOUS
  <2>1. \A r \in Request : StatusUpdate(r) => acct'[a].balance = acct[a].balance
    BY StatusMovesNoMoney
  <2> QED BY <2>1, MoneyStep DEF LedgerInv, Inv
<1> QED BY <1>1, LedgerInductive, PTL DEF Spec, MoneyMovesWithARow

\* For the same clients a frozen account becomes active only by an unfreeze: no
\* debit or credit writes a stale status back.
THEOREM Thaws ==
    ASSUME Discipline = "perAccount"
    PROVE  Spec => OnlyUnfreezeThaws
<1>1. LedgerInv /\ [Next]_vars
        => [\A a \in Account : acct[a].status = "frozen" /\ acct'[a].status = "active" =>
                \E r \in Request : /\ pc[r] = "statusUpdate" /\ pc'[r] = "ok"
                                   /\ job[r].kind = "unfreeze" /\ job[r].source = a]_vars
  <2> SUFFICES ASSUME LedgerInv, [Next]_vars, NEW a \in Account,
                      acct[a].status = "frozen", acct'[a].status = "active"
               PROVE  \E r \in Request : /\ pc[r] = "statusUpdate" /\ pc'[r] = "ok"
                                         /\ job[r].kind = "unfreeze" /\ job[r].source = a
    OBVIOUS
  <2>1. ASSUME NEW r \in Request, Commit(r) PROVE acct'[a].status = acct[a].status
    <3>1. pending[r][a] = Written(r, a)
      BY DEF LedgerInv, FreshInv, FreshOf
    <3>2. Written(r, a) = Absent \/ Written(r, a).status = acct[a].status
      BY DEF Written, Shifted
    <3> QED BY <2>1, <3>1, <3>2 DEF Commit
  <2>2. ASSUME NEW r \in Request, Open(r) PROVE acct'[a].status = acct[a].status
    BY <2>2 DEF Open, Exists, LedgerInv, TypeOK
  <2>3. PICK r \in Request : StatusUpdate(r)
    BY <2>1, <2>2, AcctChanges
  <2>4. acct' = [acct EXCEPT ![job[r].source].status = Frozen(r)]
        /\ job[r].kind \in {"freeze", "unfreeze"} /\ job[r].source \in Account
    BY <2>3, StatusSets
  <2>5. job[r].source = a /\ Frozen(r) = "active"
    BY <2>4 DEF LedgerInv, TypeOK, Row
  <2>6. pc[r] = "statusUpdate" /\ pc'[r] = "ok"
    BY <2>3 DEF StatusUpdate, At, Goto, LedgerInv, TypeOK
  <2> QED BY <2>4, <2>5, <2>6 DEF Frozen
<1> QED BY <1>1, LedgerInductive, PTL DEF Spec, OnlyUnfreezeThaws

-----------------------------------------------------------------------------
(* Sums over finite sets of requests.                                      *)

\* Of a nonempty set of subsets of a finite set, one is minimal.
LEMMA MinimalSubset ==
    ASSUME NEW S, IsFiniteSet(S), NEW T, T \subseteq SUBSET S, T # {}
    PROVE  \E x \in T : \A y \in T : y \subseteq x => y = x
<1>1. IsWellFoundedOn(StrictSubsetOrdering(S), SUBSET S)
  BY FS_StrictSubsetOrderingWellFounded, FS_FiniteSubsetsOfFinite
<1>2. PICK x \in T : \A y \in T : <<y, x>> \notin StrictSubsetOrdering(S)
  BY <1>1, WFMin
<1> QED BY <1>2 DEF StrictSubsetOrdering

\* G gives every subset of S the sum of the weights of its elements.
Sums(G, w, S) ==
    /\ G \in [SUBSET S -> Int]
    /\ G[{}] = 0
    /\ \A t \in SUBSET S : \A u \in t : G[t] = w[u] + G[t \ {u}]

\* Sums exist: those over the subsets of S follow from those over the subsets
\* that lack one element.
LEMMA SumsStep ==
    ASSUME NEW U, NEW u \in U, NEW w, \A x \in U : w[x] \in Int,
           NEW G, Sums(G, w, U \ {u})
    PROVE  \E H : Sums(H, w, U)
<1> DEFINE H == [t \in SUBSET U |-> IF u \in t THEN w[u] + G[t \ {u}] ELSE G[t]]
<1>1. \A t \in SUBSET U : t \ {u} \in SUBSET (U \ {u}) /\ (u \notin t => t \in SUBSET (U \ {u}))
  OBVIOUS
<1>2. H \in [SUBSET U -> Int]
  BY <1>1 DEF Sums
<1>3. H[{}] = 0
  BY DEF Sums
<1>4. ASSUME NEW t \in SUBSET U, NEW x \in t PROVE H[t] = w[x] + H[t \ {x}]
  <2>1. CASE x = u
    BY <2>1, <1>4
  <2>2. CASE x # u /\ u \in t
    <3>1. H[t] = w[u] + G[t \ {u}] /\ H[t \ {x}] = w[u] + G[(t \ {x}) \ {u}]
      BY <2>2
    <3>2. G[t \ {u}] = w[x] + G[(t \ {u}) \ {x}]
      BY <2>2, <1>1 DEF Sums
    <3>3. (t \ {u}) \ {x} = (t \ {x}) \ {u}
      OBVIOUS
    <3>4. G[(t \ {x}) \ {u}] \in Int
      BY <1>1 DEF Sums
    <3>5. w[u] \in Int /\ w[x] \in Int
      BY <1>4
    <3>6. G[t \ {u}] = w[x] + G[(t \ {x}) \ {u}]
      BY <3>2, <3>3
    <3> HIDE DEF H
    <3> QED BY <3>1, <3>4, <3>5, <3>6
  <2>3. CASE x # u /\ u \notin t
    BY <2>3, <1>1 DEF Sums
  <2> QED BY <2>1, <2>2, <2>3
<1> HIDE DEF H
<1> QED BY <1>2, <1>3, <1>4 DEF Sums

LEMMA SumsExist ==
    ASSUME NEW S, IsFiniteSet(S), NEW w, \A u \in S : w[u] \in Int
    PROVE  \E G : Sums(G, w, S)
<1> DEFINE Bad == {U \in SUBSET S : ~\E G : Sums(G, w, U)}
<1>1. SUFFICES ASSUME Bad # {} PROVE FALSE
  OBVIOUS
<1>2. PICK U \in Bad : \A V \in Bad : V \subseteq U => V = U
  <2>1. Bad \subseteq SUBSET S
    OBVIOUS
  <2> HIDE DEF Bad
  <2> QED BY <1>1, <2>1, MinimalSubset
<1>3. CASE U = {}
  <2>1. Sums([t \in SUBSET {} |-> 0], w, {})
    BY DEF Sums
  <2> QED BY <2>1, <1>2, <1>3
<1>4. CASE U # {}
  <2>1. PICK u \in U : TRUE
    BY <1>4
  <2>2. U \ {u} \notin Bad
    BY <1>2
  <2>3. PICK G : Sums(G, w, U \ {u})
    BY <2>2
  <2>4. \E H : Sums(H, w, U)
    BY <2>3, SumsStep
  <2> QED BY <2>4
<1> QED BY <1>3, <1>4

\* The community modules' sum is that sum.
LEMMA SumIsSums ==
    ASSUME NEW S, IsFiniteSet(S), NEW w, NEW G, Sums(G, w, S)
    PROVE  SumFunctionOnSet(w, S) = G[S]
<1> DEFINE least(s) == CHOOSE x \in s : TRUE
           Def(g) == [s \in SUBSET S |->
                        IF s = {} THEN 0 ELSE w[least(s)] + g[s \ {least(s)}]]
           iter == CHOOSE g : g = Def(g)
<1>1. SumFunctionOnSet(w, S) = iter[S]
  BY DEF SumFunctionOnSet, FoldFunctionOnSet, MapThenFoldSet
<1>2. \A s \in SUBSET S : s # {} => least(s) \in s
  OBVIOUS
<1> HIDE DEF least
<1>3. G = Def(G)
  BY <1>2 DEF Sums
<1>4. iter = Def(iter)
  BY <1>3
<1> HIDE DEF iter
<1>5. \A s \in SUBSET S : iter[s] = IF s = {} THEN 0 ELSE w[least(s)] + iter[s \ {least(s)}]
  BY <1>4
<1> DEFINE Bad == {s \in SUBSET S : iter[s] # G[s]}
<1>6. ASSUME Bad # {} PROVE FALSE
  <2>1. PICK s \in Bad : \A t \in Bad : t \subseteq s => t = s
    <3>1. Bad \subseteq SUBSET S
      OBVIOUS
    <3> HIDE DEF Bad
    <3> QED BY <1>6, <3>1, MinimalSubset
  <2>2. s # {}
    BY <2>1, <1>5 DEF Sums
  <2>3. iter[s \ {least(s)}] = G[s \ {least(s)}]
    BY <2>1, <2>2, <1>2
  <2>4. iter[s] = w[least(s)] + G[s \ {least(s)}]
    BY <2>2, <2>3, <1>5
  <2>5. G[s] = w[least(s)] + G[s \ {least(s)}]
    BY <2>2, <1>2 DEF Sums
  <2> QED BY <2>4, <2>5
<1> QED BY <1>1, <1>6

\* Adding an element adds its weight.
LEMMA SumAdd ==
    ASSUME NEW D, IsFiniteSet(D), NEW r, r \notin D,
           NEW w, \A x \in D \cup {r} : w[x] \in Int
    PROVE  /\ SumFunctionOnSet(w, D) \in Int
           /\ SumFunctionOnSet(w, D \cup {r}) = SumFunctionOnSet(w, D) + w[r]
<1> DEFINE E == D \cup {r}
<1>1. IsFiniteSet(E)
  BY FS_AddElement
<1>2. PICK G : Sums(G, w, E)
  BY <1>1, SumsExist
<1> DEFINE H == [t \in SUBSET D |-> G[t]]
<1>3. Sums(H, w, D)
  <2>1. \A t \in SUBSET D : t \in SUBSET E /\ H[t] = G[t] /\ \A u \in t : t \ {u} \in SUBSET D
    OBVIOUS
  <2>2. H \in [SUBSET D -> Int]
    BY <1>2, <2>1 DEF Sums
  <2>3. H[{}] = 0
    BY <1>2 DEF Sums
  <2>4. \A t \in SUBSET D : \A u \in t : H[t] = w[u] + H[t \ {u}]
    BY <1>2, <2>1 DEF Sums
  <2> HIDE DEF H
  <2> QED BY <2>2, <2>3, <2>4 DEF Sums
<1>4. SumFunctionOnSet(w, D) = G[D]
  BY <1>3, SumIsSums
<1>5. SumFunctionOnSet(w, E) = G[E]
  BY <1>1, <1>2, SumIsSums
<1>6. G[E] = w[r] + G[E \ {r}] /\ E \ {r} = D /\ G[D] \in Int
  BY <1>2 DEF Sums
<1>7. w[r] \in Int
  OBVIOUS
<1>8. w[r] + G[D] = G[D] + w[r]
  BY <1>6, <1>7
<1>9. SumFunctionOnSet(w, E) = G[D] + w[r]
  BY <1>5, <1>6, <1>8
<1> QED BY <1>4, <1>6, <1>9

\* A sum depends on the weights of its elements only.
LEMMA SumSame ==
    ASSUME NEW D, IsFiniteSet(D), NEW v, NEW w, \A x \in D : w[x] \in Int /\ v[x] = w[x]
    PROVE  SumFunctionOnSet(v, D) = SumFunctionOnSet(w, D)
<1>1. PICK G : Sums(G, w, D)
  BY SumsExist
<1>2. Sums(G, v, D)
  BY <1>1 DEF Sums
<1> QED BY <1>1, <1>2, SumIsSums

\* The sum over nothing.
LEMMA SumNone == ASSUME NEW w PROVE SumFunctionOnSet(w, {}) = 0
<1> DEFINE G == [t \in SUBSET {} |-> 0]
<1>1. Sums(G, w, {})
  BY DEF Sums
<1> HIDE DEF G
<1> QED BY <1>1, FS_EmptySet, SumIsSums DEF Sums

-----------------------------------------------------------------------------
(* The balances are what the records add up to.                            *)

\* A fee is quoted before there is a record, and never again.
LEMMA FeesStay ==
    ASSUME TypeOK, ControlInv, [Next]_vars
    PROVE  \A r \in Request : row[r] # "none" \/ pc[r] = "commit" => fee'[r] = fee[r]
<1>1. ASSUME NEW s \in Request, Validate(s)
      PROVE  \A r \in Request : row[r] # "none" \/ pc[r] = "commit" => fee'[r] = fee[r]
  <2>1. pc[s] = "validate" /\ \A r \in Request \ {s} : fee'[r] = fee[r]
    BY <1>1 DEF Validate, At, TypeOK
  <2> QED BY <2>1 DEF ControlInv
<1>2. CASE ~\E s \in Request : Validate(s)
  <2>1. UNCHANGED fee
    BY <1>2 DEF Next, Serve, vars, memory, Arrive, Guard, Begin, Insert, DebitRead, CreditRead,
       Reload, Update, Complete, Commit, Finish, Rollback, SecondConnection, SaveFailed,
       FinishFailed, DeadlockVictim, StatusRead, StatusReload, StatusUpdate, Open, Disconnect,
       Crash, DayPasses, Terminated, Discard
  <2> QED BY <2>1
<1> QED BY <1>1, <1>2

LEMMA EffectInt ==
    ASSUME TypeOK, NEW r \in Request, NEW a
    PROVE  /\ Effects(a)[r] \in Int
           /\ Effects(a)[r] = (IF Credits(r) /\ job[r].destination = a THEN job[r].amount ELSE 0)
                            - (IF Debits(r) /\ job[r].source = a THEN TotalDebit(r) ELSE 0)
BY JobFields DEF Effects, Credits, Debits, TotalDebit

\* What a commit does to a balance.
LEMMA CommitEffect ==
    ASSUME LedgerInv, NEW r \in Request, Commit(r), NEW a \in Account
    PROVE  acct'[a].balance = acct[a].balance + Effects(a)[r]
<1>1. Valid(r) /\ job[r].kind \in Moving /\ acct'[a] = Moved(r, a)
  BY CommitWrites
<1>2. /\ Effects(a)[r] = (IF Credits(r) /\ job[r].destination = a THEN job[r].amount ELSE 0)
                       - (IF Debits(r) /\ job[r].source = a THEN TotalDebit(r) ELSE 0)
      /\ job[r].amount \in Nat /\ TotalDebit(r) \in Nat
      /\ acct[a] \in Row
  BY EffectInt, JobFields DEF LedgerInv, TypeOK
<1>3. \A delta \in Int : Shifted(acct[a], delta).balance = acct[a].balance + delta
                         /\ acct[a].balance \in Int
  BY <1>2 DEF Shifted, Row
<1>4. Debits(r) /\ Credits(r) => job[r].source # job[r].destination
  BY <1>1 DEF Valid, Debits, Credits
<1>5. CASE Debits(r) /\ a = job[r].source
  <2>1. Effects(a)[r] = -TotalDebit(r) /\ acct'[a] = Shifted(acct[a], -TotalDebit(r))
    BY <1>1, <1>2, <1>4, <1>5 DEF Moved
  <2> QED BY <1>2, <1>3, <2>1
<1>6. CASE ~(Debits(r) /\ a = job[r].source) /\ Credits(r) /\ a = job[r].destination
  <2>1. Effects(a)[r] = job[r].amount /\ acct'[a] = Shifted(acct[a], job[r].amount)
    BY <1>1, <1>2, <1>6 DEF Moved
  <2> QED BY <1>2, <1>3, <2>1
<1>7. CASE ~(Debits(r) /\ a = job[r].source) /\ ~(Credits(r) /\ a = job[r].destination)
  <2>1. Effects(a)[r] = 0 /\ acct'[a] = acct[a]
    BY <1>1, <1>2, <1>7 DEF Moved
  <2> QED BY <1>2, <1>3, <2>1
<1> QED BY <1>5, <1>6, <1>7

\* Finitely many records add up, at any moment.
BooksInv == IsFiniteSet(Completed) /\ BalancesMatchRows

LEMMA BooksNext == LedgerInv /\ BooksInv /\ [Next]_vars => BooksInv'
<1> SUFFICES ASSUME LedgerInv, BooksInv, [Next]_vars PROVE BooksInv'
  OBVIOUS
<1>1. TypeOK /\ ControlInv /\ ExistInv /\ TypeOK' /\ UNCHANGED job
  BY JobStable, TypeNext DEF LedgerInv, Inv
<1>2. Completed \subseteq Request /\ IsFiniteSet(Completed)
  BY DEF Completed, BooksInv
<1>3. ASSUME NEW a \in Account, NEW r \in Request, row[r] = "completed" \/ pc[r] = "commit"
      PROVE  Effects(a)'[r] = Effects(a)[r] /\ Effects(a)[r] \in Int
  <2>1. fee'[r] = fee[r]
    BY <1>1, <1>3, FeesStay
  <2> QED BY <1>1, <2>1, EffectInt DEF Effects
<1>4. ASSUME NEW a \in Account
      PROVE  /\ acct[a].balance = Opening[a].balance + SumFunctionOnSet(Effects(a), Completed)
             /\ SumFunctionOnSet(Effects(a)', Completed) = SumFunctionOnSet(Effects(a), Completed)
             /\ Opening[a].balance \in Int
  <2>1. SumFunctionOnSet(Effects(a)', Completed) = SumFunctionOnSet(Effects(a), Completed)
    BY <1>2, <1>3, SumSame DEF Completed
  <2> QED BY <2>1, OpeningAssumption DEF BooksInv, BalancesMatchRows, Row
<1>5. ASSUME NEW r \in Request, Commit(r) PROVE BooksInv'
  <2>1. pc[r] = "commit" /\ r \notin Completed /\ Completed' = Completed \cup {r}
    BY <1>1, <1>5, CommitRow DEF Completed, Commit, At, TypeOK
  <2>2. IsFiniteSet(Completed')
    BY <1>2, <2>1, FS_AddElement
  <2>3. ASSUME NEW a \in Account
        PROVE  acct'[a].balance = Opening[a].balance + SumFunctionOnSet(Effects(a)', Completed')
    <3>1. \A x \in Completed \cup {r} : Effects(a)'[x] \in Int
      BY <1>2, <1>3, <2>1 DEF Completed
    <3>2. /\ SumFunctionOnSet(Effects(a)', Completed) \in Int
          /\ SumFunctionOnSet(Effects(a)', Completed \cup {r})
                = SumFunctionOnSet(Effects(a)', Completed) + Effects(a)'[r]
      BY <1>2, <2>1, <3>1, SumAdd
    <3>3. acct'[a].balance = acct[a].balance + Effects(a)[r]
      BY <1>5, CommitEffect
    <3>4. Effects(a)'[r] = Effects(a)[r] /\ Effects(a)[r] \in Int
      BY <1>3, <2>1
    <3> DEFINE sum == SumFunctionOnSet(Effects(a)', Completed)
    <3>5. acct'[a].balance = (Opening[a].balance + sum) + Effects(a)[r] /\ sum \in Int
      BY <1>4, <3>2, <3>3
    <3>6. SumFunctionOnSet(Effects(a)', Completed') = sum + Effects(a)[r]
      BY <2>1, <3>2, <3>4
    <3> HIDE DEF sum
    <3> QED BY <1>4, <3>4, <3>5, <3>6
  <2> QED BY <2>2, <2>3 DEF BooksInv, BalancesMatchRows
<1>6. CASE ~\E r \in Request : Commit(r)
  <2>1. Completed' = Completed
    <3>1. ASSUME NEW r \in Request, SaveFailed(r)
          PROVE  UNCHANGED row \/ (row[r] = "none" /\ row' = [row EXCEPT ![r] = "failed"])
      BY <1>1, <3>1 DEF SaveFailed, At, ControlInv
    <3> QED BY <1>1, <1>6, <3>1, RowChanges DEF Completed, TypeOK
  <2>2. ASSUME NEW a \in Account PROVE acct'[a].balance = acct[a].balance
    <3>1. ~\E r \in Request : row[r] = "none" /\ row'[r] = "completed"
      BY <2>1 DEF Completed
    <3> QED BY <1>1, <3>1, StatusMovesNoMoney, MoneyStep
  <2>3. ASSUME NEW a \in Account
        PROVE  acct'[a].balance = Opening[a].balance + SumFunctionOnSet(Effects(a)', Completed')
    BY <1>4, <2>1, <2>2
  <2> QED BY <1>2, <2>1, <2>3 DEF BooksInv, BalancesMatchRows
<1> QED BY <1>5, <1>6

\* For clients whose requests do not contend for an account the balance of an
\* account is its opening balance and what its completed transactions add up
\* to, fees included: none is lost and none is booked twice.
THEOREM Books ==
    ASSUME Discipline = "perAccount"
    PROVE  Spec => []BalancesMatchRows
<1>1. ASSUME Init PROVE BooksInv
  <2>1. Completed = {} /\ acct = Opening
    BY <1>1 DEF Init, Completed
  <2>2. \A a \in Account : Opening[a].balance \in Int
    BY OpeningAssumption DEF Row
  <2> QED BY <2>1, <2>2, FS_EmptySet, SumNone DEF BooksInv, BalancesMatchRows
<1>2. LedgerInv /\ [Next]_vars => LedgerInv'
  BY LedgerInductive
<1> QED BY <1>1, <1>2, LedgerInductive, BooksNext, PTL DEF Spec, BooksInv

=============================================================================
