------------------------- MODULE TransactionsProofs -------------------------
(***************************************************************************)
(* Safety of Transactions for every set of requests, accounts and jobs,    *)
(* every pool size, fault model and client discipline.                     *)
(***************************************************************************)
EXTENDS Transactions, TLAPS

-----------------------------------------------------------------------------
(* Type correctness.                                                       *)

\* Crediting and debiting an account row gives an account row.
LEMMA ShiftedType ==
    ASSUME NEW found \in Row, NEW delta \in Int
    PROVE  /\ Shifted(found, delta) \in Row
           /\ Shifted(found, delta).balance = found.balance + delta
           /\ Shifted(found, delta).ledgerBalance = found.ledgerBalance + delta
BY DEF Shifted, Row

\* An UPDATE of some columns of an account row gives an account row.
LEMMA MergeType ==
    ASSUME NEW current \in Row, NEW e \in Row, NEW cols
    PROVE  Merge(current, e, cols) \in Row
BY DEF Merge, Row

LEMMA AbsentType == Absent \in Row
BY DEF Absent, Row

\* What the types of the fields of a request's job are.
LEMMA JobFields ==
    ASSUME TypeOK, NEW r \in Request
    PROVE  /\ job[r].kind \in Kind
           /\ job[r].source \in Account
           /\ job[r].destination \in Account
           /\ job[r].amount \in Nat \ {0}
           /\ fee[r] \in Nat
           /\ TotalDebit(r) \in Nat
           /\ Target(r) \in Account
<1>1. job[r] \in JobType
  BY JobAssumption DEF TypeOK
<1>2. fee[r] \in Fee \cup {0}
  BY DEF TypeOK
<1>3. fee[r] \in Nat
  <2>1. CASE fee[r] \in Fee
    BY <2>1, FeeAssumption
  <2>2. CASE fee[r] = 0
    BY <2>2
  <2> QED BY <1>2, <2>1, <2>2
<1> QED BY <1>1, <1>3 DEF JobType, TotalDebit, Target

LEMMA TypeInit == Init => TypeOK
<1> SUFFICES ASSUME Init PROVE TypeOK
  OBVIOUS
<1>1. fee \in [Request -> Fee \cup {0}] /\ job \in [Request -> Job]
  BY DEF Init
<1>2. acct \in [Account -> Row]
  BY OpeningAssumption DEF Init
<1> QED BY <1>1, <1>2, AbsentType DEF Init, TypeOK, Step, Holding, InTransaction, Answered,
         RowState, Final

LEMMA TypeNext == TypeOK /\ [Next]_vars => TypeOK'
<1> SUFFICES ASSUME TypeOK, [Next]_vars PROVE TypeOK'
  OBVIOUS
<1> USE DEF memory, database, uncommitted, Goto, At
<1>1. ASSUME NEW r \in Request, Arrive(r) PROVE TypeOK'
  BY <1>1, JobFields DEF Arrive, TypeOK, FirstStep, Kind, Step
<1>2. ASSUME NEW r \in Request, Guard(r) PROVE TypeOK'
  BY <1>2 DEF Guard, TypeOK, Step, Answered
<1>3. ASSUME NEW r \in Request, Validate(r) PROVE TypeOK'
  BY <1>3 DEF Validate, TypeOK, Step, Answered
<1>4. ASSUME NEW r \in Request, Begin(r) PROVE TypeOK'
  BY <1>4 DEF Begin, TypeOK, Step, Holding, InTransaction
<1>5. ASSUME NEW r \in Request, Insert(r) PROVE TypeOK'
  BY <1>5 DEF Insert, TypeOK, Step, Holding, InTransaction, RowState
<1>6. ASSUME NEW r \in Request, DebitRead(r) PROVE TypeOK'
  <2>1. acct[Target(r)] \in Row /\ -TotalDebit(r) \in Int
    BY JobFields DEF TypeOK
  <2>2. Shifted(acct[Target(r)], -TotalDebit(r)) \in Row
    BY <2>1, ShiftedType
  <2> QED BY <1>6, <2>2 DEF DebitRead, TypeOK, Step, Holding, InTransaction
<1>7. ASSUME NEW r \in Request, CreditRead(r) PROVE TypeOK'
  <2>1. acct[Target(r)] \in Row /\ job[r].amount \in Int
    BY JobFields DEF TypeOK
  <2>2. Shifted(acct[Target(r)], job[r].amount) \in Row
    BY <2>1, ShiftedType
  <2> QED BY <1>7, <2>2 DEF CreditRead, TypeOK, Step, Holding, InTransaction
<1>8. ASSUME NEW r \in Request, Reload(r) PROVE TypeOK'
  BY <1>8 DEF Reload, TypeOK, Step, Holding, InTransaction, AfterReload, Column
<1>9. ASSUME NEW r \in Request, Update(r) PROVE TypeOK'
  <2>1. Target(r) \in Account /\ Merge(acct[Target(r)], entity[r], dirty[r]) \in Row
    BY JobFields, MergeType DEF TypeOK
  <2>2. pending' \in [Request -> [Account -> Row]]
    BY <1>9, <2>1 DEF Update, TypeOK
  <2>3. AfterUpdate(r) \in Step
    BY DEF AfterUpdate, Step, Holding, InTransaction
  <2> QED BY <1>9, <2>2, <2>3, AbsentType DEF Update, TypeOK
<1>10. ASSUME NEW r \in Request, Complete(r) PROVE TypeOK'
  BY <1>10 DEF Complete, TypeOK, Step, Holding, InTransaction, RowState
<1>11. ASSUME NEW r \in Request, Commit(r) PROVE TypeOK'
  BY <1>11, AbsentType DEF Commit, Forget, TypeOK, Step, Holding, RowState
<1>12. ASSUME NEW r \in Request, Finish(r) PROVE TypeOK'
  BY <1>12 DEF Finish, TypeOK, Step, Answered, Final
<1>13. ASSUME NEW r \in Request, Rollback(r) PROVE TypeOK'
  BY <1>13, AbsentType DEF Rollback, Forget, TypeOK, Step, Holding, RowState
<1>14. ASSUME NEW r \in Request, SecondConnection(r) PROVE TypeOK'
  BY <1>14 DEF SecondConnection, TypeOK, Step, Holding
<1>15. ASSUME NEW r \in Request, SaveFailed(r) PROVE TypeOK'
  <2>1. CASE RefTaken(r)
    BY <1>15, <2>1 DEF SaveFailed, TypeOK, Step, Answered
  <2>2. CASE ~RefTaken(r)
    <3>2. "failed" \in RowState /\ row' = [row EXCEPT ![r] = "failed"]
      BY <1>15, <2>2 DEF SaveFailed, RowState
    <3>3. row' \in [Request -> RowState]
      BY <3>2 DEF TypeOK
    <3>4. recent' \in SUBSET Request
      BY <1>15, <2>2 DEF SaveFailed, TypeOK
    <3> QED BY <1>15, <2>2, <3>3, <3>4 DEF SaveFailed, TypeOK, Step, Holding
  <2> QED BY <2>1, <2>2
<1>25. ASSUME NEW r \in Request, FinishFailed(r) PROVE TypeOK'
  BY <1>25 DEF FinishFailed, TypeOK, Step, Answered, Final
<1>16. ASSUME NEW r \in Request, DeadlockVictim(r) PROVE TypeOK'
  BY <1>16, AbsentType DEF DeadlockVictim, Forget, Discard, TypeOK, Step, Holding,
     InTransaction, RowState
<1>17. ASSUME NEW r \in Request, StatusRead(r) PROVE TypeOK'
  <2>1. acct[job[r].source] \in Row
    BY JobFields DEF TypeOK
  <2>2. [acct[job[r].source] EXCEPT
            !.status = IF job[r].kind = "freeze" THEN "frozen" ELSE "active"] \in Row
    BY <2>1 DEF Row, AccountStatus
  <2>3. entity' \in [Request -> Row]
    BY <1>17, <2>2 DEF StatusRead, TypeOK
  <2>4. pc' \in [Request -> Step]
    BY <1>17 DEF StatusRead, TypeOK, Step, Answered
  <2> QED BY <1>17, <2>3, <2>4 DEF StatusRead, TypeOK
<1>18. ASSUME NEW r \in Request, StatusReload(r) PROVE TypeOK'
  <2>1. pc' \in [Request -> Step]
    BY <1>18 DEF StatusReload, TypeOK, Step, Answered
  <2>2. entity' \in [Request -> Row]
    BY <1>18, AbsentType DEF StatusReload, Discard, TypeOK
  <2>3. dirty' \in [Request -> SUBSET Column]
    BY <1>18 DEF StatusReload, Discard, TypeOK
  <2> QED BY <1>18, <2>1, <2>2, <2>3 DEF StatusReload, TypeOK
<1>19. ASSUME NEW r \in Request, StatusUpdate(r) PROVE TypeOK'
  <2>1. job[r].source \in Account
        /\ Merge(acct[job[r].source], entity[r], dirty[r]) \in Row
    BY JobFields, MergeType DEF TypeOK
  <2> QED BY <1>19, <2>1, AbsentType DEF StatusUpdate, Discard, TypeOK, Step, Answered
<1>20. ASSUME NEW r \in Request, Open(r) PROVE TypeOK'
  <2>1. [Absent EXCEPT !.status = "active"] \in Row
    BY DEF Absent, Row, AccountStatus
  <2>2. acct' \in [Account -> Row]
    BY <1>20, <2>1 DEF Open, TypeOK
  <2>3. pc' \in [Request -> Step]
    BY <1>20 DEF Open, TypeOK, Step, Answered
  <2> QED BY <1>20, <2>2, <2>3 DEF Open, TypeOK
<1>21. ASSUME NEW r \in Request, Disconnect(r) PROVE TypeOK'
  BY <1>21, AbsentType DEF Disconnect, Forget, Discard, TypeOK, Step, Answered, RowState
<1>22. CASE Crash
  BY <1>22, AbsentType DEF Crash, TypeOK, Step, Answered, RowState
<1>23. CASE DayPasses
  BY <1>23 DEF DayPasses, TypeOK
<1>24. CASE UNCHANGED vars
  BY <1>24 DEF vars, TypeOK
<1> QED BY <1>1, <1>2, <1>3, <1>4, <1>5, <1>6, <1>7, <1>8, <1>9, <1>10, <1>11, <1>12,
         <1>13, <1>14, <1>15, <1>16, <1>17, <1>18, <1>19, <1>20, <1>21, <1>22, <1>23,
         <1>24, <1>25 DEF Next, Serve, Terminated

\* Every reachable state is well typed: in particular a fee is always one the
\* fee service quoted.
THEOREM TypeCorrect == Spec => []TypeOK
<1> QED BY TypeInit, TypeNext, PTL DEF Spec

-----------------------------------------------------------------------------
(* Money.                                                                  *)

\* Writing some columns of a sound entity over a sound row leaves it sound,
\* provided the balances are written together.
LEMMA MergeSound ==
    ASSUME NEW current \in Row, NEW e \in Row, NEW cols,
           Sound(current), Sound(e), "balance" \in cols <=> "ledgerBalance" \in cols
    PROVE  Sound(Merge(current, e, cols))
<1>1. CASE "balance" \in cols
  BY <1>1 DEF Sound, Merge
<1>2. CASE "balance" \notin cols
  BY <1>2 DEF Sound, Merge
<1> QED BY <1>1, <1>2

LEMMA AbsentSound == Sound(Absent)
BY DEF Sound, Absent

LEMMA MoneyInvInit == Init => MoneyInv
<1> SUFFICES ASSUME Init PROVE MoneyInv
  OBVIOUS
<1>1. \A a \in Account : Sound(acct[a])
  BY OpeningAssumption DEF Init, Sound
<1> QED BY <1>1, AbsentSound DEF Init, MoneyInv

LEMMA MoneyInvNext == TypeOK /\ MoneyInv /\ [Next]_vars => MoneyInv'
<1> SUFFICES ASSUME TypeOK, MoneyInv, [Next]_vars PROVE MoneyInv'
  OBVIOUS
<1> USE DEF memory, database, uncommitted, Goto, At
<1>q. ASSUME UNCHANGED <<entity, dirty, acct, pending>> PROVE MoneyInv'
  BY <1>q DEF MoneyInv
<1>f. ASSUME NEW r \in Request, Forget(r) PROVE \A s \in Request, a \in Account : Sound(pending'[s][a])
  BY <1>f, AbsentSound DEF MoneyInv, Forget, TypeOK
<1>d. ASSUME NEW r \in Request, Discard(r)
      PROVE  /\ \A s \in Request : Sound(entity'[s])
             /\ \A s \in Request : "balance" \in dirty'[s] <=> "ledgerBalance" \in dirty'[s]
  BY <1>d, AbsentSound DEF MoneyInv, Discard, TypeOK
<1>1. ASSUME NEW r \in Request, DebitRead(r) PROVE MoneyInv'
  <2> DEFINE found == acct[Target(r)]
  <2>1. CASE found.status = "active" /\ found.balance >= TotalDebit(r)
    <3>1. found \in Row /\ Sound(found) /\ TotalDebit(r) \in Nat /\ found.balance \in Int
      BY JobFields DEF TypeOK, MoneyInv, Row
    <3>2. Sound(Shifted(found, -TotalDebit(r)))
      BY <2>1, <3>1 DEF Sound, Shifted
    <3> HIDE DEF found
    <3>3. entity' = [entity EXCEPT ![r] = Shifted(found, -TotalDebit(r))]
      BY <1>1, <2>1 DEF DebitRead, found
    <3>4. UNCHANGED <<dirty, acct, pending>>
      BY <1>1 DEF DebitRead
    <3> QED BY <3>2, <3>3, <3>4 DEF MoneyInv, TypeOK
  <2>2. CASE ~(found.status = "active" /\ found.balance >= TotalDebit(r))
    BY <1>1, <2>2, <1>q DEF DebitRead
  <2> QED BY <2>1, <2>2
<1>2. ASSUME NEW r \in Request, CreditRead(r) PROVE MoneyInv'
  <2> DEFINE found == acct[Target(r)]
  <2>1. found \in Row /\ Sound(found) /\ job[r].amount \in Nat /\ found.balance \in Int
    BY JobFields DEF TypeOK, MoneyInv, Row
  <2>2. Sound(Shifted(found, job[r].amount))
    BY <2>1 DEF Sound, Shifted
  <2> HIDE DEF found
  <2>3. entity' = [entity EXCEPT ![r] = Shifted(found, job[r].amount)]
    BY <1>2 DEF CreditRead, found
  <2>4. UNCHANGED <<dirty, acct, pending>>
    BY <1>2 DEF CreditRead
  <2> QED BY <2>2, <2>3, <2>4 DEF MoneyInv, TypeOK
<1>3. ASSUME NEW r \in Request, Reload(r) PROVE MoneyInv'
  BY <1>3 DEF Reload, MoneyInv, TypeOK
<1>4. ASSUME NEW r \in Request, Update(r) PROVE MoneyInv'
  <2> DEFINE written == Merge(acct[Target(r)], entity[r], dirty[r])
  <2>1. Target(r) \in Account /\ acct[Target(r)] \in Row /\ entity[r] \in Row
    BY JobFields DEF TypeOK
  <2>2. Sound(written)
    BY <2>1, MergeSound DEF MoneyInv
  <2> HIDE DEF written
  <2>3. \A s \in Request, a \in Account : Sound(pending'[s][a])
    <3>1. pending' = [pending EXCEPT ![r][Target(r)] = written]
      BY <1>4 DEF Update, written
    <3> QED BY <3>1, <2>1, <2>2 DEF MoneyInv, TypeOK
  <2>4. /\ \A s \in Request : Sound(entity'[s])
        /\ \A s \in Request : "balance" \in dirty'[s] <=> "ledgerBalance" \in dirty'[s]
    BY <1>4, AbsentSound DEF Update, MoneyInv, TypeOK
  <2> QED BY <1>4, <2>3, <2>4 DEF MoneyInv, Update
<1>5. ASSUME NEW r \in Request, Commit(r) PROVE MoneyInv'
  <2>1. \A a \in Account : Sound(acct'[a])
    BY <1>5 DEF Commit, MoneyInv
  <2> QED BY <1>5, <1>f, <2>1 DEF Commit, MoneyInv
<1>6. ASSUME NEW r \in Request, Rollback(r) PROVE MoneyInv'
  BY <1>6, <1>f DEF Rollback, MoneyInv
<1>7. ASSUME NEW r \in Request, DeadlockVictim(r) PROVE MoneyInv'
  BY <1>7, <1>f, <1>d DEF DeadlockVictim, MoneyInv
<1>8. ASSUME NEW r \in Request, StatusRead(r) PROVE MoneyInv'
  <2> DEFINE found == acct[job[r].source]
             read == [found EXCEPT !.status = IF job[r].kind = "freeze" THEN "frozen" ELSE "active"]
  <2>1. found \in Row /\ Sound(found)
    BY JobFields DEF TypeOK, MoneyInv
  <2>2. Sound(read)
    BY <2>1 DEF Sound, Row
  <2>3. entity' = [entity EXCEPT ![r] = read] \/ UNCHANGED entity
    BY <1>8 DEF StatusRead
  <2>4. UNCHANGED <<dirty, acct, pending>>
    BY <1>8 DEF StatusRead
  <2> QED BY <2>2, <2>3, <2>4 DEF MoneyInv, TypeOK
<1>9. ASSUME NEW r \in Request, StatusReload(r) PROVE MoneyInv'
  <2> DEFINE current == acct[job[r].source]
             changed == {c \in Column :
                \/ c = "balance" /\ entity[r].balance # current.balance
                \/ c = "ledgerBalance" /\ entity[r].ledgerBalance # current.ledgerBalance
                \/ c = "status" /\ entity[r].status # current.status}
  <2>1. Sound(current) /\ Sound(entity[r])
    BY JobFields DEF MoneyInv
  <2>2. "balance" \in changed <=> "ledgerBalance" \in changed
    BY <2>1 DEF Sound, Column
  <2> HIDE DEF current
  <2>3. CASE changed = {}
    BY <1>9, <2>3, <1>d DEF StatusReload, MoneyInv, current
  <2>4. CASE changed # {}
    <3>1. dirty' = [dirty EXCEPT ![r] = changed]
      BY <1>9, <2>4 DEF StatusReload, current
    <3>2. UNCHANGED <<entity, acct, pending>>
      BY <1>9, <2>4 DEF StatusReload, current
    <3> HIDE DEF changed
    <3> QED BY <3>1, <3>2, <2>2 DEF MoneyInv, TypeOK
  <2> QED BY <2>3, <2>4
<1>10. ASSUME NEW r \in Request, StatusUpdate(r) PROVE MoneyInv'
  <2> DEFINE written == Merge(acct[job[r].source], entity[r], dirty[r])
  <2>1. job[r].source \in Account /\ acct[job[r].source] \in Row /\ entity[r] \in Row
    BY JobFields DEF TypeOK
  <2>2. Sound(written)
    BY <2>1, MergeSound DEF MoneyInv
  <2> HIDE DEF written
  <2>3. acct' = [acct EXCEPT ![job[r].source] = written]
    BY <1>10 DEF StatusUpdate, written
  <2>4. \A a \in Account : Sound(acct'[a])
    BY <2>1, <2>2, <2>3 DEF MoneyInv, TypeOK
  <2> QED BY <1>10, <1>d, <2>4 DEF StatusUpdate, MoneyInv
<1>11. ASSUME NEW r \in Request, Open(r) PROVE MoneyInv'
  <2>1. Sound([Absent EXCEPT !.status = "active"])
    BY DEF Sound, Absent
  <2>2. \A a \in Account : Sound(acct'[a])
    BY <1>11, <2>1 DEF Open, MoneyInv, TypeOK
  <2> QED BY <1>11, <2>2 DEF Open, MoneyInv
<1>12. ASSUME NEW r \in Request, Disconnect(r) PROVE MoneyInv'
  BY <1>12, <1>f, <1>d DEF Disconnect, MoneyInv
<1>13. CASE Crash
  BY <1>13, AbsentSound DEF Crash, MoneyInv
<1>14. ASSUME NEW r \in Request, Serve(r) PROVE MoneyInv'
  <2>1. CASE Guard(r) \/ Validate(r) \/ Begin(r) \/ Insert(r)
    BY <2>1, <1>q DEF Guard, Validate, Begin, Insert
  <2>2. CASE \/ Complete(r) \/ Finish(r) \/ SecondConnection(r)
             \/ SaveFailed(r) \/ FinishFailed(r)
    BY <2>2, <1>q DEF Complete, Finish, SecondConnection, SaveFailed, FinishFailed
  <2> QED BY <1>1, <1>2, <1>3, <1>4, <1>5, <1>6, <1>7, <1>8, <1>9, <1>10, <1>11, <1>14,
             <2>1, <2>2 DEF Serve
<1>15. ASSUME NEW r \in Request, Arrive(r) PROVE MoneyInv'
  BY <1>15, <1>q DEF Arrive
<1>16. CASE DayPasses
  BY <1>16, <1>q DEF DayPasses
<1>17. CASE UNCHANGED vars
  BY <1>17, <1>q DEF vars
<1> QED BY <1>12, <1>13, <1>14, <1>15, <1>16, <1>17 DEF Next, Terminated

\* No account is ever overdrawn, under every interleaving of transfers,
\* deposits, withdrawals and freezes, with crashes and lost connections: the
\* lost updates that READ COMMITTED allows cannot take a balance below zero.
THEOREM Solvency == Spec => []NonNegative
<1>1. MoneyInv => NonNegative
  BY DEF MoneyInv, Sound, NonNegative
<1> QED BY <1>1, TypeInit, TypeNext, MoneyInvInit, MoneyInvNext, PTL DEF Spec

\* The two balances of an account always agree: although a freeze may write
\* stale values back, it never writes one of the columns without the other.
THEOREM TwoBalances == Spec => []BooksAgree
<1>1. MoneyInv => BooksAgree
  BY DEF MoneyInv, Sound, BooksAgree
<1> QED BY <1>1, TypeInit, TypeNext, MoneyInvInit, MoneyInvNext, PTL DEF Spec

-----------------------------------------------------------------------------
(* Control.                                                                *)

LEMMA ControlInit == Init => ControlInv
BY DEF Init, ControlInv, Drafting, Final

\* A step that moves one request and leaves drafts, records and events alone.
LEMMA ControlGoto ==
    ASSUME TypeOK, ControlInv, NEW r \in Request, NEW from, NEW to,
           pc[r] = from, pc' = [pc EXCEPT ![r] = to],
           UNCHANGED <<job, row, draft, emitted>>,
           from \notin {"commit", "committed", "recorded", "failed", "ok"},
           to \notin {"commit", "committed", "recorded", "failed", "ok"},
           row[r] # "none" => to = "error",
           to \in Drafting => draft[r] = "pending",
           draft[r] = "pending" => to \in Drafting \cup {"rollback"},
           to \in {"statusRead", "statusSave", "statusUpdate"}
                => job[r].kind \in {"freeze", "unfreeze"},
           to = "open" => job[r].kind = "open"
    PROVE  ControlInv'
BY DEF ControlInv, TypeOK

LEMMA ControlNext == TypeOK /\ ControlInv /\ [Next]_vars => ControlInv'
<1> SUFFICES ASSUME TypeOK, ControlInv, [Next]_vars PROVE ControlInv'
  OBVIOUS
<1> USE DEF memory, database, uncommitted, Goto, At
<1>1. ASSUME NEW r \in Request, Arrive(r) PROVE ControlInv'
  <2>1. job[r].kind \in Kind
    BY JobFields
  <2> QED BY <1>1, <2>1, ControlGoto DEF Arrive, ControlInv, FirstStep, Kind, Drafting
<1>2. ASSUME NEW r \in Request, Guard(r) PROVE ControlInv'
  BY <1>2, ControlGoto DEF Guard, ControlInv, Drafting
<1>3. ASSUME NEW r \in Request, Validate(r) PROVE ControlInv'
  BY <1>3, ControlGoto DEF Validate, ControlInv, Drafting
<1>4. ASSUME NEW r \in Request, Begin(r) PROVE ControlInv'
  BY <1>4, ControlGoto DEF Begin, ControlInv, Drafting
<1>5. ASSUME NEW r \in Request, Insert(r) PROVE ControlInv'
  BY <1>5 DEF Insert, ControlInv, Drafting, TypeOK
<1>6. ASSUME NEW r \in Request, DebitRead(r) PROVE ControlInv'
  BY <1>6, ControlGoto DEF DebitRead, ControlInv, Drafting
<1>7. ASSUME NEW r \in Request, CreditRead(r) PROVE ControlInv'
  BY <1>7, ControlGoto DEF CreditRead, ControlInv, Drafting
<1>8. ASSUME NEW r \in Request, Reload(r) PROVE ControlInv'
  BY <1>8, ControlGoto DEF Reload, ControlInv, Drafting, AfterReload
<1>9. ASSUME NEW r \in Request, Update(r) PROVE ControlInv'
  BY <1>9, ControlGoto DEF Update, ControlInv, Drafting, AfterUpdate
<1>10. ASSUME NEW r \in Request, Complete(r) PROVE ControlInv'
  BY <1>10 DEF Complete, ControlInv, Drafting, TypeOK
<1>11. ASSUME NEW r \in Request, Commit(r) PROVE ControlInv'
  BY <1>11 DEF Commit, Forget, ControlInv, Drafting, TypeOK, Final
<1>12. ASSUME NEW r \in Request, Finish(r) PROVE ControlInv'
  BY <1>12 DEF Finish, ControlInv, Drafting, TypeOK
<1>13. ASSUME NEW r \in Request, Rollback(r) PROVE ControlInv'
  BY <1>13 DEF Rollback, Forget, ControlInv, Drafting, TypeOK
<1>14. ASSUME NEW r \in Request, SecondConnection(r) PROVE ControlInv'
  BY <1>14, ControlGoto DEF SecondConnection, ControlInv, Drafting
<1>15. ASSUME NEW r \in Request, SaveFailed(r) PROVE ControlInv'
  <2>1. CASE RefTaken(r)
    BY <1>15, <2>1, ControlGoto DEF SaveFailed, ControlInv, Drafting
  <2>2. CASE ~RefTaken(r)
    BY <1>15, <2>2 DEF SaveFailed, ControlInv, Drafting, TypeOK, Final
  <2> QED BY <2>1, <2>2
<1>25. ASSUME NEW r \in Request, FinishFailed(r) PROVE ControlInv'
  BY <1>25 DEF FinishFailed, ControlInv, Drafting, TypeOK
<1>16. ASSUME NEW r \in Request, DeadlockVictim(r) PROVE ControlInv'
  <2>1. pc[r] \in {"debitUpdate", "creditUpdate"}
    BY <1>16 DEF DeadlockVictim, Blockers
  <2> QED BY <1>16, <2>1 DEF DeadlockVictim, Forget, ControlInv, Drafting, TypeOK
<1>17. ASSUME NEW r \in Request, StatusRead(r) PROVE ControlInv'
  BY <1>17, ControlGoto DEF StatusRead, ControlInv, Drafting
<1>18. ASSUME NEW r \in Request, StatusReload(r) PROVE ControlInv'
  BY <1>18 DEF StatusReload, ControlInv, Drafting, TypeOK
<1>19. ASSUME NEW r \in Request, StatusUpdate(r) PROVE ControlInv'
  BY <1>19 DEF StatusUpdate, ControlInv, Drafting, TypeOK
<1>20. ASSUME NEW r \in Request, Open(r) PROVE ControlInv'
  BY <1>20 DEF Open, ControlInv, Drafting, TypeOK
<1>21. ASSUME NEW r \in Request, Disconnect(r) PROVE ControlInv'
  BY <1>21 DEF Disconnect, Forget, Holding, InTransaction, ControlInv, Drafting, TypeOK
<1>22. CASE Crash
  BY <1>22 DEF Crash, InFlight, Answered, ControlInv, Drafting, TypeOK
<1>23. CASE DayPasses
  BY <1>23 DEF DayPasses, ControlInv
<1>24. CASE UNCHANGED vars
  BY <1>24 DEF vars, ControlInv
<1> QED BY <1>1, <1>2, <1>3, <1>4, <1>5, <1>6, <1>7, <1>8, <1>9, <1>10, <1>11, <1>12,
         <1>13, <1>14, <1>15, <1>16, <1>17, <1>18, <1>19, <1>20, <1>21, <1>22, <1>23,
         <1>24, <1>25 DEF Next, Serve, Terminated

\* What a client is told and what the listeners are told agrees with the record,
\* also when the process dies or a connection is lost at any point.
THEOREM Answers == Spec => []AnswersMatchRows
<1>1. ControlInv => AnswersMatchRows
  BY DEF ControlInv, AnswersMatchRows, Final
<1> QED BY <1>1, TypeInit, TypeNext, ControlInit, ControlNext, PTL DEF Spec

\* Nobody ever finds a PENDING transaction in the database: the hourly expiry
\* and a callback that looks for one look in vain.
THEOREM NothingPending == Spec => []OnlyFinalRows
<1>1. ControlInv => OnlyFinalRows
  BY DEF ControlInv, OnlyFinalRows, Final
<1> QED BY <1>1, TypeInit, TypeNext, ControlInit, ControlNext, PTL DEF Spec

-----------------------------------------------------------------------------
(* Locks and references.                                                   *)

LEMMA LockInit == Init => LockInv
BY DEF Init, LockInv

\* The reference of a request never changes.
LEMMA RefOfStable ==
    ASSUME UNCHANGED job PROVE \A r \in Request : RefOf(r)' = RefOf(r)
BY DEF RefOf

LEMMA JobStable == [Next]_vars => UNCHANGED job
BY DEF Next, Serve, vars, Arrive, Guard, Validate, Begin, Insert, DebitRead, CreditRead,
   Reload, Update, Complete, Commit, Finish, Rollback, SecondConnection, SaveFailed,
   FinishFailed, DeadlockVictim, StatusRead, StatusReload, StatusUpdate, Open, Disconnect,
   Crash, DayPasses, Terminated

\* Ending a transaction, or leaving every transaction alone, keeps the locks
\* exclusive.
LEMMA LockRelease ==
    ASSUME TypeOK, LockInv, UNCHANGED job,
           \A r \in Request, a \in Account : pending'[r][a] \in {Absent, pending[r][a]},
           \A r \in Request : draft'[r] = "none" \/ draft[r] # "none"
    PROVE  LockInv'
BY RefOfStable DEF LockInv

LEMMA LockNext == TypeOK /\ ControlInv /\ LockInv /\ [Next]_vars => LockInv'
<1> SUFFICES ASSUME TypeOK, ControlInv, LockInv, [Next]_vars PROVE LockInv'
  OBVIOUS
<1> USE DEF memory, database, uncommitted, Goto, At
<1>j. UNCHANGED job
  BY JobStable
<1>q. ASSUME UNCHANGED <<pending, draft>> PROVE LockInv'
  BY <1>j, <1>q, LockRelease
<1>f. ASSUME NEW r \in Request, Forget(r) PROVE LockInv'
  <2>1. \A s \in Request, a \in Account : pending'[s][a] \in {Absent, pending[s][a]}
    BY <1>f DEF Forget, TypeOK
  <2>2. \A s \in Request : draft'[s] = "none" \/ draft[s] # "none"
    BY <1>f DEF Forget, TypeOK
  <2> QED BY <1>j, <2>1, <2>2, LockRelease
<1>1. ASSUME NEW r \in Request, Insert(r) PROVE LockInv'
  <2>1. CASE RefTaken(r)
    BY <1>1, <2>1, <1>q DEF Insert
  <2>2. CASE ~RefTaken(r)
    <3>1. \A s \in Request \ {r} : draft[s] # "none" => RefOf(s) # RefOf(r)
      BY <1>1 DEF Insert, RefHolders
    <3>2. draft' = [draft EXCEPT ![r] = "pending"] /\ UNCHANGED pending
      BY <1>1, <2>2 DEF Insert
    <3> QED BY <3>1, <3>2, <1>j, RefOfStable DEF LockInv, TypeOK
  <2> QED BY <2>1, <2>2
<1>2. ASSUME NEW r \in Request, Update(r) PROVE LockInv'
  <2>1. Target(r) \in Account
    BY JobFields
  <2>2. \A s \in Request \ {r} : pending[s][Target(r)] = Absent
    BY <1>2 DEF Update, Blockers, RowHolders
  <2>3. UNCHANGED draft
    BY <1>2 DEF Update
  <2>4. PICK written : pending' = [pending EXCEPT ![r][Target(r)] = written]
    BY <1>2 DEF Update
  <2>5. \A s \in Request, a \in Account :
            ~(s = r /\ a = Target(r)) => pending'[s][a] = pending[s][a]
    BY <2>4 DEF TypeOK
  <2>6. \A a \in Account : \A q, s \in Request :
            pending'[q][a] # Absent /\ pending'[s][a] # Absent => q = s
    BY <2>1, <2>2, <2>5 DEF LockInv
  <2> QED BY <2>3, <2>6, <1>j, RefOfStable DEF LockInv
<1>3. ASSUME NEW r \in Request, Complete(r) PROVE LockInv'
  <2>1. draft[r] = "pending"
    BY <1>3 DEF Complete, ControlInv, Drafting
  <2>2. \A s \in Request : draft'[s] = "none" \/ draft[s] # "none"
    BY <1>3, <2>1 DEF Complete, TypeOK
  <2> QED BY <1>3, <2>2, <1>j, LockRelease DEF Complete
<1>4. ASSUME NEW r \in Request, Serve(r) PROVE LockInv'
  <2>1. CASE Guard(r) \/ Validate(r) \/ Begin(r) \/ DebitRead(r) \/ CreditRead(r) \/ Reload(r)
    BY <2>1, <1>q DEF Guard, Validate, Begin, DebitRead, CreditRead, Reload
  <2>2. CASE Finish(r) \/ SecondConnection(r) \/ SaveFailed(r) \/ FinishFailed(r)
    BY <2>2, <1>q DEF Finish, SecondConnection, SaveFailed, FinishFailed
  <2>3. CASE StatusRead(r) \/ StatusReload(r) \/ StatusUpdate(r) \/ Open(r)
    BY <2>3, <1>q DEF StatusRead, StatusReload, StatusUpdate, Open
  <2>4. CASE Commit(r) \/ Rollback(r) \/ DeadlockVictim(r)
    BY <2>4, <1>f DEF Commit, Rollback, DeadlockVictim
  <2> QED BY <1>1, <1>2, <1>3, <1>4, <2>1, <2>2, <2>3, <2>4 DEF Serve
<1>5. ASSUME NEW r \in Request, Arrive(r) PROVE LockInv'
  BY <1>5, <1>q DEF Arrive
<1>6. ASSUME NEW r \in Request, Disconnect(r) PROVE LockInv'
  BY <1>6, <1>f DEF Disconnect
<1>7. CASE Crash
  <2>1. /\ \A r \in Request, a \in Account : pending'[r][a] \in {Absent, pending[r][a]}
        /\ \A r \in Request : draft'[r] = "none" \/ draft[r] # "none"
    BY <1>7 DEF Crash
  <2> QED BY <1>j, <2>1, LockRelease
<1>8. CASE DayPasses
  BY <1>8, <1>q DEF DayPasses
<1>9. CASE UNCHANGED vars
  BY <1>9, <1>q DEF vars
<1> QED BY <1>4, <1>5, <1>6, <1>7, <1>8, <1>9 DEF Next, Terminated

LEMMA RefInit == Init => RefInv
BY DEF Init, RefInv, ReferenceUsedOnce

\* Nothing recorded and nothing newly drafted: references stay distinct.
LEMMA RefRelease ==
    ASSUME TypeOK, RefInv, UNCHANGED <<job, row>>,
           \A r \in Request : draft'[r] = "none" \/ draft[r] # "none"
    PROVE  RefInv'
BY RefOfStable DEF RefInv, ReferenceUsedOnce

LEMMA RefNext == TypeOK /\ ControlInv /\ LockInv /\ RefInv /\ [Next]_vars => RefInv'
<1> SUFFICES ASSUME TypeOK, ControlInv, LockInv, RefInv, [Next]_vars PROVE RefInv'
  OBVIOUS
<1> USE DEF memory, database, uncommitted, Goto, At
<1>j. UNCHANGED job
  BY JobStable
<1>q. ASSUME UNCHANGED <<row, draft>> PROVE RefInv'
  BY <1>j, <1>q, RefRelease
<1>f. ASSUME NEW r \in Request, Forget(r), UNCHANGED row PROVE RefInv'
  <2>1. \A s \in Request : draft'[s] = "none" \/ draft[s] # "none"
    BY <1>f DEF Forget, TypeOK
  <2> QED BY <1>j, <1>f, <2>1, RefRelease
<1>1. ASSUME NEW r \in Request, Insert(r) PROVE RefInv'
  <2>1. CASE RefTaken(r)
    BY <1>1, <2>1, <1>q DEF Insert
  <2>2. CASE ~RefTaken(r)
    <3>1. \A s \in Request : row[s] # "none" => RefOf(s) # RefOf(r)
      BY <2>2 DEF RefTaken
    <3>2. draft' = [draft EXCEPT ![r] = "pending"] /\ UNCHANGED row
      BY <1>1, <2>2 DEF Insert
    <3> QED BY <3>1, <3>2, <1>j, RefOfStable DEF RefInv, ReferenceUsedOnce, TypeOK
  <2> QED BY <2>1, <2>2
<1>2. ASSUME NEW r \in Request, Complete(r) PROVE RefInv'
  <2>1. draft[r] = "pending"
    BY <1>2 DEF Complete, ControlInv, Drafting
  <2>2. \A s \in Request : draft'[s] = "none" \/ draft[s] # "none"
    BY <1>2, <2>1 DEF Complete, TypeOK
  <2> QED BY <1>2, <2>2, <1>j, RefRelease DEF Complete
<1>3. ASSUME NEW r \in Request, Commit(r) PROVE RefInv'
  <2>1. draft[r] = "completed" /\ row' = [row EXCEPT ![r] = "completed"]
        /\ draft' = [draft EXCEPT ![r] = "none"]
    BY <1>3 DEF Commit, Forget, ControlInv
  <2>2. \A s \in Request \ {r} : draft[s] # "none" => RefOf(s) # RefOf(r)
    BY <2>1 DEF LockInv
  <2>3. \A s \in Request : row[s] # "none" => RefOf(s) # RefOf(r)
    BY <2>1 DEF RefInv
  <2> QED BY <2>1, <2>2, <2>3, <1>j, RefOfStable DEF RefInv, ReferenceUsedOnce, TypeOK
<1>4. ASSUME NEW r \in Request, SaveFailed(r) PROVE RefInv'
  <2>1. CASE RefTaken(r)
    BY <1>4, <2>1, <1>q DEF SaveFailed
  <2>2. CASE ~RefTaken(r)
    <3>1. draft[r] = "none"
      BY <1>4 DEF SaveFailed, ControlInv, Drafting, TypeOK, RowState
    <3>2. \A s \in Request : draft[s] # "none" => RefOf(s) # RefOf(r)
      BY <1>4, <3>1 DEF SaveFailed, RefHolders
    <3>3. \A s \in Request : row[s] # "none" => RefOf(s) # RefOf(r)
      BY <2>2 DEF RefTaken
    <3>4. row' = [row EXCEPT ![r] = "failed"] /\ UNCHANGED draft
      BY <1>4, <2>2 DEF SaveFailed
    <3> QED BY <3>2, <3>3, <3>4, <1>j, RefOfStable DEF RefInv, ReferenceUsedOnce, TypeOK
  <2> QED BY <2>1, <2>2
<1>5. ASSUME NEW r \in Request, Serve(r) PROVE RefInv'
  <2>1. CASE Guard(r) \/ Validate(r) \/ Begin(r) \/ DebitRead(r) \/ CreditRead(r) \/ Reload(r)
    BY <2>1, <1>q DEF Guard, Validate, Begin, DebitRead, CreditRead, Reload
  <2>2. CASE Finish(r) \/ SecondConnection(r) \/ Update(r) \/ FinishFailed(r)
    BY <2>2, <1>q DEF Finish, SecondConnection, Update, FinishFailed
  <2>3. CASE StatusRead(r) \/ StatusReload(r) \/ StatusUpdate(r) \/ Open(r)
    BY <2>3, <1>q DEF StatusRead, StatusReload, StatusUpdate, Open
  <2>4. CASE Rollback(r) \/ DeadlockVictim(r)
    BY <2>4, <1>f DEF Rollback, DeadlockVictim
  <2> QED BY <1>1, <1>2, <1>3, <1>4, <1>5, <2>1, <2>2, <2>3, <2>4 DEF Serve
<1>6. ASSUME NEW r \in Request, Arrive(r) PROVE RefInv'
  BY <1>6, <1>q DEF Arrive
<1>7. ASSUME NEW r \in Request, Disconnect(r) PROVE RefInv'
  BY <1>7, <1>f DEF Disconnect
<1>8. CASE Crash
  BY <1>8, <1>j, RefRelease DEF Crash
<1>9. CASE DayPasses
  BY <1>9, <1>q DEF DayPasses
<1>10. CASE UNCHANGED vars
  BY <1>10, <1>q DEF vars
<1> QED BY <1>5, <1>6, <1>7, <1>8, <1>9, <1>10 DEF Next, Terminated

LEMMA InvInductive ==
    /\ Init => TypeOK /\ Inv
    /\ TypeOK /\ Inv /\ [Next]_vars => (TypeOK /\ Inv)'
BY TypeInit, TypeNext, MoneyInvInit, MoneyInvNext, ControlInit, ControlNext, LockInit, LockNext,
   RefInit, RefNext DEF Inv

\* The inductive invariant holds in every reachable state.
THEOREM Inductive == Spec => []Inv
<1> QED BY InvInductive, PTL DEF Spec

\* A reference is recorded, and so a deposit credited, at most once, and no
\* two open transactions ever hold a row or a reference together.
THEOREM References == Spec => [](ReferenceUsedOnce /\ LocksExclude)
<1>1. Inv => ReferenceUsedOnce
  BY DEF Inv, RefInv
<1>2. Inv => LocksExclude
  BY DEF Inv, LockInv, LocksExclude, RowHolders, RefHolders
<1> QED BY <1>1, <1>2, InvInductive, PTL DEF Spec

-----------------------------------------------------------------------------
(* Idempotency keys.                                                       *)

LEMMA KeyInit == Init => KeyInv
BY DEF Init, KeyInv, InFlight

LEMMA SameKeyStable ==
    ASSUME UNCHANGED job PROVE \A r, s \in Request : SameKey(r, s)' = SameKey(r, s)
BY DEF SameKey, KeyOf

\* A step that records nothing and moves one request, already in flight, on
\* from the guard only if the guard let it.
LEMMA KeyGoto ==
    ASSUME TypeOK, KeyInv, UNCHANGED job, recent' \subseteq recent,
           \A s \in Request : InFlight(s)' => InFlight(s),
           \A s \in Request : pc[s] = "guard" /\ InFlight(s)' /\ pc'[s] # "guard"
                => ~KeySeen(s) \/ KeyOf(s) = NoKey
    PROVE  KeyInv'
BY SameKeyStable DEF KeyInv, KeySeen, SameKey, TypeOK

\* A step that records r, in flight and past the guard, as its only one.
LEMMA KeyRecord ==
    ASSUME TypeOK, KeyInv, UNCHANGED job, NEW r \in Request,
           InFlight(r), pc[r] # "guard", NEW to, pc' = [pc EXCEPT ![r] = to],
           to # "new", recent' = recent \cup {r}
    PROVE  KeyInv'
<1>1. \A s \in Request \ {r} : SameKey(r, s) \/ SameKey(s, r) => s \notin recent /\ ~InFlight(s)
  BY DEF KeyInv, SameKey
<1>2. \A s \in Request \ {r} : pc'[s] = pc[s] /\ InFlight(s)' = InFlight(s)
  BY DEF TypeOK, InFlight
<1> QED BY <1>1, <1>2, SameKeyStable DEF KeyInv, SameKey

LEMMA KeyNext ==
    ASSUME Discipline # "none", TypeOK, KeyInv, [Next]_vars
    PROVE  KeyInv'
<1> USE DEF memory, database, uncommitted, Goto, At
<1>j. UNCHANGED job
  BY JobStable
<1>g. ASSUME NEW r \in Request, NEW to, pc' = [pc EXCEPT ![r] = to], InFlight(r),
             pc[r] # "guard", UNCHANGED recent
      PROVE  KeyInv'
  BY <1>g, <1>j, KeyGoto DEF InFlight, TypeOK
<1>1. ASSUME NEW r \in Request, Arrive(r) PROVE KeyInv'
  <2>1. \A s \in Request : SameKey(r, s) => ~InFlight(s)
    BY <1>1 DEF Arrive, MayArrive, SameKey
  <2>2. KeyOf(r) # NoKey => pc' = [pc EXCEPT ![r] = "guard"]
    <3>1. KeyOf(r) # NoKey => job[r].kind \in {"transfer", "withdraw"}
      BY DEF KeyOf, GuardedKind
    <3>2. FirstStep["transfer"] = "guard" /\ FirstStep["withdraw"] = "guard"
      BY DEF FirstStep
    <3>3. pc' = [pc EXCEPT ![r] = FirstStep[job[r].kind]]
      BY <1>1 DEF Arrive
    <3> QED BY <3>1, <3>2, <3>3
  <2>3. UNCHANGED recent /\ \A s \in Request \ {r} : pc'[s] = pc[s]
    BY <1>1 DEF Arrive, TypeOK
  <2>4. KeyOf(r) # NoKey => pc'[r] = "guard"
    BY <2>2 DEF TypeOK
  <2> QED BY <2>1, <2>3, <2>4, <1>j, SameKeyStable DEF KeyInv, SameKey, InFlight
<1>2. ASSUME NEW r \in Request, Guard(r) PROVE KeyInv'
  <2>1. pc' = [pc EXCEPT ![r] = IF KeySeen(r) THEN "conflict" ELSE "validate"]
        /\ UNCHANGED recent /\ pc[r] = "guard"
    BY <1>2 DEF Guard
  <2>2. \A s \in Request : InFlight(s)' => InFlight(s)
    BY <2>1 DEF InFlight, TypeOK, Answered
  <2>3. \A s \in Request : pc[s] = "guard" /\ InFlight(s)' /\ pc'[s] # "guard" => ~KeySeen(s)
    BY <2>1 DEF InFlight, TypeOK, Answered
  <2> QED BY <2>1, <2>2, <2>3, <1>j, KeyGoto
<1>3. ASSUME NEW r \in Request, Commit(r) PROVE KeyInv'
  BY <1>3, <1>j, KeyRecord DEF Commit, InFlight, Answered
<1>4. ASSUME NEW r \in Request, SaveFailed(r) PROVE KeyInv'
  <2>1. CASE RefTaken(r)
    BY <1>4, <2>1, <1>g DEF SaveFailed, InFlight, Answered
  <2>2. CASE ~RefTaken(r)
    BY <1>4, <2>2, <1>j, KeyRecord DEF SaveFailed, InFlight, Answered
  <2> QED BY <2>1, <2>2
<1>5. ASSUME NEW r \in Request, Serve(r) PROVE KeyInv'
  <2>1. CASE Validate(r)
    BY <2>1, <1>g DEF Validate, InFlight, Answered
  <2>2. CASE Begin(r) \/ Insert(r) \/ CreditRead(r) \/ DebitRead(r)
    BY <2>2, <1>g DEF Begin, Insert, CreditRead, DebitRead, InFlight, Answered
  <2>3. CASE Reload(r) \/ Update(r) \/ Complete(r) \/ Finish(r)
    BY <2>3, <1>g DEF Reload, Update, Complete, Finish, InFlight, Answered
  <2>4. CASE Rollback(r) \/ SecondConnection(r) \/ FinishFailed(r)
    BY <2>4, <1>g DEF Rollback, SecondConnection, FinishFailed, InFlight, Answered
  <2>5. CASE DeadlockVictim(r)
    <3>1. pc[r] \in {"debitUpdate", "creditUpdate"}
      BY <2>5 DEF DeadlockVictim, Blockers
    <3> QED BY <2>5, <3>1, <1>g DEF DeadlockVictim, InFlight, Answered
  <2>6. CASE StatusRead(r) \/ StatusUpdate(r) \/ Open(r)
    BY <2>6, <1>g DEF StatusRead, StatusUpdate, Open, InFlight, Answered
  <2>7. CASE StatusReload(r)
    BY <2>7, <1>g DEF StatusReload, InFlight, Answered
  <2> QED BY <1>2, <1>3, <1>4, <1>5, <2>1, <2>2, <2>3, <2>4, <2>5, <2>6, <2>7 DEF Serve
<1>6. ASSUME NEW r \in Request, Disconnect(r) PROVE KeyInv'
  BY <1>6, <1>g DEF Disconnect, Holding, InTransaction, InFlight, Answered
<1>7. CASE Crash
  BY <1>7, <1>j, KeyGoto DEF Crash, InFlight, Answered
<1>8. CASE DayPasses
  BY <1>8, <1>j, KeyGoto DEF DayPasses, InFlight
<1>9. CASE UNCHANGED vars
  BY <1>9, <1>j, KeyGoto DEF vars, InFlight
<1> QED BY <1>1, <1>5, <1>6, <1>7, <1>8, <1>9 DEF Next, Terminated

\* Of the requests with one key, clients that wait have one in flight, and it
\* has passed the guard only if no recent record has the key.
THEOREM Keys ==
    ASSUME Discipline # "none"
    PROVE  Spec => []KeyInv
<1>1. TypeOK /\ KeyInv /\ [Next]_vars => KeyInv'
  BY KeyNext
<1> QED BY <1>1, TypeInit, TypeNext, KeyInit, PTL DEF Spec

\* The idempotency guard keeps its promise to clients that repeat a key only
\* once the earlier request is answered or lost: one record per key within 24
\* hours, whatever crashed or failed in between.
THEOREM Idempotency ==
    ASSUME Discipline # "none"
    PROVE  Spec => []KeyUsedOnce
<1>1. TypeOK /\ KeyInv => KeyUsedOnce
  BY DEF KeyInv, KeyUsedOnce, SameKey, TypeOK
<1>2. TypeOK /\ KeyInv /\ [Next]_vars => KeyInv'
  BY KeyNext
<1> QED BY <1>1, <1>2, TypeInit, TypeNext, KeyInit, PTL DEF Spec

=============================================================================
