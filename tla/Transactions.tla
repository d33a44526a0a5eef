---------------------------- MODULE Transactions ----------------------------
(***************************************************************************)
(* The money paths of the API: transfers, deposits, withdrawals, account   *)
(* creation, freeze and unfreeze, run by a Node process as interleaved     *)
(* requests against PostgreSQL through TypeORM.                            *)
(*                                                                         *)
(* A step of a request is one statement the process awaits.  PostgreSQL is *)
(* at its default isolation level, READ COMMITTED: a SELECT sees the       *)
(* committed rows, an UPDATE takes the row's lock until the transaction    *)
(* ends.  `save(entity)` of TypeORM is two statements: a SELECT that       *)
(* reloads the row, and an UPDATE that writes, as absolute values, the     *)
(* columns of the entity that differ from the reloaded row.                *)
(*                                                                         *)
(* Amounts are integers in minor units.  A generated reference is a value  *)
(* nobody else uses; it is identified with the request that generates it.  *)
(***************************************************************************)
EXTENDS Integers, FiniteSets, Functions

CONSTANTS
    Account,      \* accounts that exist or may be opened
    Request,      \* one per HTTP request
    User,         \* authenticated callers
    Key, NoKey,   \* idempotency keys
    Reference,    \* references supplied by the caller of a deposit
    NoRef,
    Job,          \* what a request may ask for
    Fee,          \* fees the fee service may quote, whole numbers of minor units
    Owner,        \* account -> user
    CurrencyOf,   \* account -> currency
    Opening,      \* account -> row at start
    PoolMax,      \* connections in the pool
    Fault,        \* which of "crash" and "disconnect" happen
    Discipline    \* what clients refrain from: see MayArrive

AccountStatus == {"active", "frozen"}

Row == [balance : Int, ledgerBalance : Int, status : AccountStatus \cup {"absent"}]

\* No row: an account not opened yet, an entity not loaded, nothing written.
Absent == [balance |-> 0, ledgerBalance |-> 0, status |-> "absent"]

Column == {"balance", "ledgerBalance", "status"}

Kind == {"transfer", "deposit", "withdraw", "freeze", "unfreeze", "open"}

JobType == [kind : Kind, user : User, source : Account, destination : Account,
            amount : Nat \ {0}, key : Key \cup {NoKey}, ref : Reference \cup {NoRef}]

ASSUME JobAssumption == Job \subseteq JobType
ASSUME FeeAssumption == Fee \subseteq Nat
ASSUME OpeningAssumption ==
    /\ Opening \in [Account -> Row]
    /\ \A a \in Account : /\ Opening[a].balance >= 0
                          /\ Opening[a].balance = Opening[a].ledgerBalance
                          /\ Opening[a].status = "absent" => Opening[a] = Absent
ASSUME NameAssumption ==
    /\ NoKey \notin Key
    /\ NoRef \notin Reference
    /\ Request \cap (Reference \cup {NoRef}) = {}
ASSUME OwnerAssumption == Owner \in [Account -> User]
ASSUME PoolAssumption == PoolMax \in Nat \ {0}
ASSUME FaultAssumption == Fault \subseteq {"crash", "disconnect"}
ASSUME DisciplineAssumption == Discipline \in {"none", "perKey", "perAccount"}

VARIABLES
    job,      \* what each request asks for; never changes
    pc,       \* where each request is
    fee,      \* the fee quoted to each request
    entity,   \* the account entity each request holds in memory
    dirty,    \* the columns its save() found different from the database
    acct,     \* committed rows of table accounts
    row,      \* committed rows of table transactions: their status
    recent,   \* rows of table transactions younger than 24 hours
    pending,  \* account rows written by an open database transaction
    draft,    \* transactions row written by an open database transaction
    emitted   \* domain event emitted for each request

vars == <<job, pc, fee, entity, dirty, acct, row, recent, pending, draft, emitted>>

-----------------------------------------------------------------------------
(* Where a request can be. *)

\* Inside the try block: the query runner has an open database transaction.
InTransaction == {"insert", "debitRead", "debitSave", "debitUpdate",
                  "creditRead", "creditSave", "creditUpdate", "complete", "commit",
                  "rollback"}

\* The query runner still holds its connection.
Holding == InTransaction \cup {"committed", "rolledBack", "saveFailed", "recorded"}

Answered == {"ok", "failed", "rejected", "conflict", "error", "lost"}

Step == {"new", "guard", "validate", "begin", "statusRead", "statusSave",
         "statusUpdate", "open"} \cup Holding \cup Answered

InFlight(r) == pc[r] \notin {"new"} \cup Answered

GuardedKind == {"transfer", "withdraw"}

\* Only transfers and withdrawals read the Idempotency-Key header.
KeyOf(r) == IF job[r].kind \in GuardedKind THEN job[r].key ELSE NoKey

\* dto.reference of a deposit, else the generated one.
RefOf(r) == IF job[r].kind = "deposit" /\ job[r].ref # NoRef THEN job[r].ref ELSE r

\* The accounts a request may write.
Touches(r) == CASE job[r].kind = "transfer" -> {job[r].source, job[r].destination}
                [] job[r].kind = "deposit"  -> {job[r].destination}
                [] job[r].kind = "open"     -> {a \in Account : acct[a].status = "absent"}
                [] OTHER                    -> {job[r].source}

\* The account the statement of a debit, a credit or a status change is about.
Target(r) == IF pc[r] \in {"creditRead", "creditSave", "creditUpdate"}
             THEN job[r].destination ELSE job[r].source

Exists(a) == acct[a].status # "absent"

-----------------------------------------------------------------------------
(* The pool and the row locks. *)

\* A save() outside the query runner takes a connection of its own.
ConnectionsHeld == Cardinality({r \in Request : pc[r] \in Holding \cup {"statusUpdate"}})
                 + Cardinality({r \in Request : pc[r] \in {"saveFailed", "recorded"}})

FreeConnection == ConnectionsHeld < PoolMax

\* Open transactions that have updated account a and hold its row lock.
RowHolders(a) == {s \in Request : pending[s][a] # Absent}

\* Open transactions that have inserted a row with r's reference.
RefHolders(r) == {s \in Request \ {r} : draft[s] # "none" /\ RefOf(s) = RefOf(r)}

\* Mutant of RefTaken: the index is not unique.
RefNotUnique(r) == FALSE

\* The unique index of transactions.reference has the reference already.
RefTaken(r) == \E s \in Request : row[s] # "none" /\ RefOf(s) = RefOf(r)

\* Whom r's UPDATE waits for.
Blockers(r) == IF pc[r] \in {"debitUpdate", "creditUpdate"}
               THEN RowHolders(Target(r)) \ {r} ELSE {}

-----------------------------------------------------------------------------
\* Initially nothing has been requested and each account has its opening row.
Init ==
    /\ job \in [Request -> Job]
    /\ pc = [r \in Request |-> "new"]
    /\ fee = [r \in Request |-> 0]
    /\ entity = [r \in Request |-> Absent]
    /\ dirty = [r \in Request |-> {}]
    /\ acct = Opening
    /\ row = [r \in Request |-> "none"]
    /\ recent = {}
    /\ pending = [r \in Request |-> [a \in Account |-> Absent]]
    /\ draft = [r \in Request |-> "none"]
    /\ emitted = [r \in Request |-> "none"]

Goto(r, step) == pc' = [pc EXCEPT ![r] = step]

At(r, step) == pc[r] = step

memory == <<fee, entity, dirty>>
database == <<acct, row, recent>>
uncommitted == <<pending, draft>>

-----------------------------------------------------------------------------
(* What clients refrain from.  "perKey": a client that sends a key again   *)
(* waits until the earlier request is answered or lost.  "perAccount": in  *)
(* addition requests on one account, or with one reference, follow each    *)
(* other.                                                                  *)
MayArrive(r) ==
    \A s \in {s \in Request : InFlight(s)} :
        /\ Discipline # "none" => KeyOf(r) = NoKey \/ KeyOf(s) # KeyOf(r)
        /\ Discipline = "perAccount" =>
                Touches(r) \cap Touches(s) = {} /\ RefOf(r) # RefOf(s)

FirstStep == [transfer |-> "guard", withdraw |-> "guard", deposit |-> "validate",
              freeze |-> "statusRead", unfreeze |-> "statusRead", open |-> "open"]

\* The controller receives the request and hands it to its guard or service.
Arrive(r) ==
    /\ At(r, "new")
    /\ MayArrive(r)
    /\ Goto(r, FirstStep[job[r].kind])
    /\ UNCHANGED <<job, memory, database, uncommitted, emitted>>

\* Mutant of KeySeen: only COMPLETED transactions count.
KeyCompleted(r) == /\ KeyOf(r) # NoKey
                   /\ \E s \in recent : KeyOf(s) = KeyOf(r) /\ row[s] = "completed"

\* IdempotencyGuard: a SELECT of committed rows with the key, under 24 h old.
KeySeen(r) == /\ KeyOf(r) # NoKey
              /\ \E s \in recent : KeyOf(s) = KeyOf(r)

Guard(r) ==
    /\ At(r, "guard")
    /\ KeyOf(r) # NoKey => FreeConnection
    /\ Goto(r, IF KeySeen(r) THEN "conflict" ELSE "validate")
    /\ UNCHANGED <<job, memory, database, uncommitted, emitted>>

-----------------------------------------------------------------------------
(* Before the database transaction: findOne, findByAccountNumber, the      *)
(* checks on what they return, the fee.  They read only what never changes *)
(* (owner, currency, that the account exists), so one step stands for them.*)
Valid(r) ==
    LET j == job[r] IN
    /\ j.kind # "deposit" => Exists(j.source) /\ Owner[j.source] = j.user
    /\ j.kind # "withdraw" => Exists(j.destination)
    /\ j.kind = "transfer" => /\ j.source # j.destination
                              /\ CurrencyOf[j.source] = CurrencyOf[j.destination]

\* Mutant of Validate: the quoted fee is taken in minor units as if in major.
ValidateMinorFee(r) ==
    /\ At(r, "validate")
    /\ Valid(r)
    /\ \E f \in Fee : fee' = [fee EXCEPT ![r] = 100 * f]
    /\ Goto(r, "begin")
    /\ UNCHANGED <<job, entity, dirty, database, uncommitted, emitted>>

Validate(r) ==
    /\ At(r, "validate")
    /\ FreeConnection
    /\ \/ /\ Valid(r)
          /\ \E f \in (IF job[r].kind = "transfer" THEN Fee ELSE {0}) :
                fee' = [fee EXCEPT ![r] = f]
          /\ Goto(r, "begin")
       \/ /\ ~Valid(r)
          /\ Goto(r, "rejected")
          /\ UNCHANGED fee
    /\ UNCHANGED <<job, entity, dirty, database, uncommitted, emitted>>

\* createQueryRunner, connect, startTransaction.
Begin(r) ==
    /\ At(r, "begin")
    /\ FreeConnection
    /\ Goto(r, "insert")
    /\ UNCHANGED <<job, memory, database, uncommitted, emitted>>

\* qr.manager.save(tx) with status PENDING; waits for a transaction that has
\* inserted the same reference, fails if the reference is committed.
Insert(r) ==
    /\ At(r, "insert")
    /\ RefHolders(r) = {}
    /\ IF RefTaken(r)
       THEN Goto(r, "rollback") /\ UNCHANGED draft
       ELSE /\ Goto(r, IF job[r].kind = "deposit" THEN "creditRead" ELSE "debitRead")
            /\ draft' = [draft EXCEPT ![r] = "pending"]
    /\ UNCHANGED <<job, memory, database, pending, emitted>>

-----------------------------------------------------------------------------
(* debitAccount and creditAccount, inside the transaction. *)

\* Mutants of Shifted: the ledger balance is forgotten; the status is set as in
\* a new account.
ShiftedBalanceOnly(found, delta) == [found EXCEPT !.balance = @ + delta]

ShiftedActive(found, delta) == [balance       |-> found.balance + delta,
                                ledgerBalance |-> found.ledgerBalance + delta,
                                status        |-> "active"]

Shifted(found, delta) == [balance       |-> found.balance + delta,
                          ledgerBalance |-> found.ledgerBalance + delta,
                          status        |-> found.status]

TotalDebit(r) == job[r].amount + fee[r]

\* Mutants of DebitRead: without the check of the funds, of the status.
DebitReadUnfunded(r) ==
    /\ At(r, "debitRead")
    /\ acct[Target(r)].status = "active"
    /\ entity' = [entity EXCEPT ![r] = Shifted(acct[Target(r)], -TotalDebit(r))]
    /\ Goto(r, "debitSave")
    /\ UNCHANGED <<job, fee, dirty, database, uncommitted, emitted>>

DebitReadAnyStatus(r) ==
    /\ At(r, "debitRead")
    /\ acct[Target(r)].balance >= TotalDebit(r)
    /\ entity' = [entity EXCEPT ![r] = Shifted(acct[Target(r)], -TotalDebit(r))]
    /\ Goto(r, "debitSave")
    /\ UNCHANGED <<job, fee, dirty, database, uncommitted, emitted>>

DebitRead(r) ==
    /\ At(r, "debitRead")
    /\ LET found == acct[Target(r)] IN
       IF found.status = "active" /\ found.balance >= TotalDebit(r)
       THEN /\ entity' = [entity EXCEPT ![r] = Shifted(found, -TotalDebit(r))]
            /\ Goto(r, "debitSave")
       ELSE /\ Goto(r, "rollback")
            /\ UNCHANGED entity
    /\ UNCHANGED <<job, fee, dirty, database, uncommitted, emitted>>

\* Mutant of CreditRead: the receiver is credited the fee as well.
CreditReadTotal(r) ==
    /\ At(r, "creditRead")
    /\ entity' = [entity EXCEPT ![r] = Shifted(acct[Target(r)], TotalDebit(r))]
    /\ Goto(r, "creditSave")
    /\ UNCHANGED <<job, fee, dirty, database, uncommitted, emitted>>

\* No check of the status: a frozen account is credited.
CreditRead(r) ==
    /\ At(r, "creditRead")
    /\ entity' = [entity EXCEPT ![r] = Shifted(acct[Target(r)], job[r].amount)]
    /\ Goto(r, "creditSave")
    /\ UNCHANGED <<job, fee, dirty, database, uncommitted, emitted>>

AfterReload == [debitSave |-> "debitUpdate", creditSave |-> "creditUpdate"]

\* save() reloads the row.  The balances were set to JavaScript numbers, the
\* reload has decimal strings: they always count as changed.  The status
\* counts as changed if somebody changed it since it was read.
Reload(r) ==
    /\ pc[r] \in {"debitSave", "creditSave"}
    /\ dirty' = [dirty EXCEPT ![r] = {"balance", "ledgerBalance"} \cup
                    {c \in {"status"} : entity[r].status # acct[Target(r)].status}]
    /\ Goto(r, AfterReload[pc[r]])
    /\ UNCHANGED <<job, fee, entity, database, uncommitted, emitted>>

\* The row after an UPDATE that sets the columns cols to those of e.
Merge(current, e, cols) ==
    [balance       |-> IF "balance" \in cols THEN e.balance ELSE current.balance,
     ledgerBalance |-> IF "ledgerBalance" \in cols THEN e.ledgerBalance
                       ELSE current.ledgerBalance,
     status        |-> IF "status" \in cols THEN e.status ELSE current.status]

\* Mutant of AfterUpdate: a withdrawal is committed before it is COMPLETED.
AfterUpdateUnfinished(r) ==
    IF job[r].kind = "withdraw" THEN "commit"
    ELSE IF pc[r] = "creditUpdate" THEN "complete" ELSE "creditRead"

AfterUpdate(r) == CASE pc[r] = "creditUpdate"       -> "complete"
                    [] job[r].kind = "withdraw"     -> "complete"
                    [] OTHER                        -> "creditRead"

\* Mutant of Update: saved through the repository, outside the transaction.
UpdateOutside(r) ==
    /\ pc[r] \in {"debitUpdate", "creditUpdate"}
    /\ acct' = [acct EXCEPT ![Target(r)] = Merge(@, entity[r], dirty[r])]
    /\ entity' = [entity EXCEPT ![r] = Absent]
    /\ dirty' = [dirty EXCEPT ![r] = {}]
    /\ Goto(r, AfterUpdate(r))
    /\ UNCHANGED <<job, fee, row, recent, uncommitted, emitted>>

\* save() writes; waits for the row lock, which it then holds.
Update(r) ==
    /\ pc[r] \in {"debitUpdate", "creditUpdate"}
    /\ Blockers(r) = {}
    /\ pending' = [pending EXCEPT ![r][Target(r)] =
                        Merge(acct[Target(r)], entity[r], dirty[r])]
    /\ entity' = [entity EXCEPT ![r] = Absent]
    /\ dirty' = [dirty EXCEPT ![r] = {}]
    /\ Goto(r, AfterUpdate(r))
    /\ UNCHANGED <<job, fee, database, draft, emitted>>

\* Mutant of Complete: the commit is left out.
CompleteUncommitted(r) ==
    /\ At(r, "complete")
    /\ draft' = [draft EXCEPT ![r] = "completed"]
    /\ Goto(r, "committed")
    /\ UNCHANGED <<job, memory, database, pending, emitted>>

\* tx.status = COMPLETED and the second qr.manager.save(tx).
Complete(r) ==
    /\ At(r, "complete")
    /\ draft' = [draft EXCEPT ![r] = "completed"]
    /\ Goto(r, "commit")
    /\ UNCHANGED <<job, memory, database, pending, emitted>>

Forget(r) == /\ pending' = [pending EXCEPT ![r] = [a \in Account |-> Absent]]
             /\ draft' = [draft EXCEPT ![r] = "none"]

\* What r has written becomes visible at once and its locks are released.
Commit(r) ==
    /\ At(r, "commit")
    /\ acct' = [a \in Account |-> IF pending[r][a] # Absent THEN pending[r][a] ELSE acct[a]]
    /\ row' = [row EXCEPT ![r] = draft[r]]
    /\ recent' = recent \cup {r}
    /\ Forget(r)
    /\ Goto(r, "committed")
    /\ UNCHANGED <<job, memory, emitted>>

\* The process learns of the commit, emits the event, answers, releases.
Finish(r) ==
    /\ At(r, "committed")
    /\ emitted' = [emitted EXCEPT ![r] = "completed"]
    /\ Goto(r, "ok")
    /\ UNCHANGED <<job, memory, database, uncommitted>>

-----------------------------------------------------------------------------
(* The catch block. *)

Discard(r) == /\ entity' = [entity EXCEPT ![r] = Absent]
              /\ dirty' = [dirty EXCEPT ![r] = {}]

\* Mutant of Rollback: the error is thrown on, no FAILED record is saved.
RollbackOnly(r) ==
    /\ At(r, "rollback")
    /\ Forget(r)
    /\ Goto(r, "error")
    /\ UNCHANGED <<job, memory, database, emitted>>

Rollback(r) ==
    /\ At(r, "rollback")
    /\ Forget(r)
    /\ Goto(r, "rolledBack")
    /\ UNCHANGED <<job, memory, database, emitted>>

\* this.txRepo.save(tx) is not the query runner's: a second connection.
SecondConnection(r) ==
    /\ At(r, "rolledBack")
    /\ FreeConnection
    /\ Goto(r, "saveFailed")
    /\ UNCHANGED <<job, memory, database, uncommitted, emitted>>

\* Mutant of SaveFailed: tried again until it succeeds.
SaveFailedRetried(r) ==
    /\ At(r, "saveFailed")
    /\ IF RefTaken(r)
       THEN Goto(r, "rolledBack") /\ UNCHANGED <<row, recent>>
       ELSE /\ row' = [row EXCEPT ![r] = "failed"]
            /\ recent' = recent \cup {r}
            /\ Goto(r, "recorded")
    /\ UNCHANGED <<job, memory, acct, uncommitted, emitted>>

\* The FAILED record is inserted, and committed, unless its reference is taken.
SaveFailed(r) ==
    /\ At(r, "saveFailed")
    /\ RefHolders(r) = {}
    /\ IF RefTaken(r)
       THEN Goto(r, "error") /\ UNCHANGED <<row, recent>>
       ELSE /\ row' = [row EXCEPT ![r] = "failed"]
            /\ recent' = recent \cup {r}
            /\ Goto(r, "recorded")
    /\ UNCHANGED <<job, memory, acct, uncommitted, emitted>>

\* The process learns that it is saved, emits the event of a failed transfer,
\* throws the error on, releases.
FinishFailed(r) ==
    /\ At(r, "recorded")
    /\ emitted' = IF job[r].kind = "transfer"
                  THEN [emitted EXCEPT ![r] = "failed"] ELSE emitted
    /\ Goto(r, "failed")
    /\ UNCHANGED <<job, memory, database, uncommitted>>

\* PostgreSQL breaks a cycle of transactions that wait for each other's row
\* locks: one of them gets an error, and its locks are released.
DeadlockVictim(r) ==
    /\ \E S \in SUBSET Request : /\ r \in S
                                 /\ S = UNION {Blockers(s) : s \in S}
                                 /\ \A s \in S : Blockers(s) # {}
    /\ Forget(r)
    /\ Discard(r)
    /\ Goto(r, "rollback")
    /\ UNCHANGED <<job, fee, database, emitted>>

-----------------------------------------------------------------------------
(* freeze, unfreeze and create of AccountsService: no query runner. *)

StatusRead(r) ==
    LET j == job[r]
        found == acct[j.source] IN
    /\ At(r, "statusRead")
    /\ FreeConnection
    /\ \/ /\ Exists(j.source)
          /\ j.kind = "freeze" => Owner[j.source] = j.user /\ found.status # "frozen"
          /\ entity' = [entity EXCEPT ![r] = [found EXCEPT
                !.status = IF j.kind = "freeze" THEN "frozen" ELSE "active"]]
          /\ Goto(r, "statusSave")
       \/ /\ \/ ~Exists(j.source)
             \/ j.kind = "freeze" /\ (Owner[j.source] # j.user \/ found.status = "frozen")
          /\ Goto(r, "rejected")
          /\ UNCHANGED entity
    /\ UNCHANGED <<job, fee, dirty, database, uncommitted, emitted>>

\* save() reloads the row; the balances are both strings here, and count as
\* changed only if a commit changed them since they were read.
StatusReload(r) ==
    LET current == acct[job[r].source]
        changed == {c \in Column : \/ c = "balance" /\ entity[r].balance # current.balance
                                   \/ c = "ledgerBalance"
                                         /\ entity[r].ledgerBalance # current.ledgerBalance
                                   \/ c = "status" /\ entity[r].status # current.status} IN
    /\ At(r, "statusSave")
    /\ FreeConnection
    /\ IF changed = {}
       THEN Discard(r) /\ Goto(r, "ok")
       ELSE /\ dirty' = [dirty EXCEPT ![r] = changed]
            /\ Goto(r, "statusUpdate")
            /\ UNCHANGED entity
    /\ UNCHANGED <<job, fee, database, uncommitted, emitted>>

StatusUpdate(r) ==
    LET a == job[r].source IN
    /\ At(r, "statusUpdate")
    /\ RowHolders(a) = {}
    /\ acct' = [acct EXCEPT ![a] = Merge(@, entity[r], dirty[r])]
    /\ Discard(r)
    /\ Goto(r, "ok")
    /\ UNCHANGED <<job, fee, row, recent, uncommitted, emitted>>

\* create: an empty active account, or an error if the random account number
\* is one that exists.
Open(r) ==
    /\ At(r, "open")
    /\ FreeConnection
    /\ \/ \E a \in Account : /\ ~Exists(a)
                             /\ Owner[a] = job[r].user
                             /\ acct' = [acct EXCEPT ![a] = [Absent EXCEPT !.status = "active"]]
          /\ Goto(r, "ok")
       \/ /\ \E a \in Account : Exists(a)
          /\ Goto(r, "error")
          /\ UNCHANGED acct
    /\ UNCHANGED <<job, memory, row, recent, uncommitted, emitted>>

-----------------------------------------------------------------------------
(* Faults, time, the end. *)

\* The connection of r is lost.  PostgreSQL drops the open transaction; in
\* the process the statement fails, then rollbackTransaction fails in the
\* catch block: no FAILED record, an internal error to the client.  After
\* the commit, and after that of a FAILED record, only the acknowledgement is
\* lost.
Disconnect(r) ==
    /\ "disconnect" \in Fault
    /\ pc[r] \in Holding \cup {"statusUpdate"}
    /\ Forget(r)
    /\ Discard(r)
    /\ Goto(r, "error")
    /\ UNCHANGED <<job, fee, database, emitted>>

\* The process dies and is restarted: every request in flight is lost, every
\* open transaction is rolled back.
Crash ==
    /\ "crash" \in Fault
    /\ \E r \in Request : InFlight(r)
    /\ pc' = [r \in Request |-> IF InFlight(r) THEN "lost" ELSE pc[r]]
    /\ entity' = [r \in Request |-> Absent]
    /\ dirty' = [r \in Request |-> {}]
    /\ pending' = [r \in Request |-> [a \in Account |-> Absent]]
    /\ draft' = [r \in Request |-> "none"]
    /\ UNCHANGED <<job, fee, database, emitted>>

\* 24 hours pass; no request takes that long.
DayPasses ==
    /\ recent # {}
    /\ \A r \in Request : ~InFlight(r)
    /\ recent' = {}
    /\ UNCHANGED <<job, pc, memory, acct, row, uncommitted, emitted>>

\* Every request has been answered: the system may rest.
Terminated ==
    /\ \A r \in Request : pc[r] \in Answered
    /\ UNCHANGED vars

-----------------------------------------------------------------------------
\* A step of the process, or of PostgreSQL on its behalf, for request r.
Serve(r) ==
    \/ Guard(r) \/ Validate(r) \/ Begin(r) \/ Insert(r)
    \/ DebitRead(r) \/ CreditRead(r) \/ Reload(r) \/ Update(r)
    \/ Complete(r) \/ Commit(r) \/ Finish(r)
    \/ Rollback(r) \/ SecondConnection(r) \/ SaveFailed(r) \/ FinishFailed(r) \/ DeadlockVictim(r)
    \/ StatusRead(r) \/ StatusReload(r) \/ StatusUpdate(r) \/ Open(r)

Next ==
    \/ \E r \in Request : Arrive(r) \/ Serve(r) \/ Disconnect(r)
    \/ Crash \/ DayPasses \/ Terminated

Spec == Init /\ [][Next]_vars

\* The process serves every request it has received; nobody has to send one,
\* and no fault has to happen.
Fairness == \A r \in Request : WF_vars(Serve(r))

FairSpec == Spec /\ Fairness

-----------------------------------------------------------------------------
(* Properties. *)

RowState == {"none", "pending", "completed", "failed"}

Final == {"completed", "failed"}

\* The variables have their types; a fee is one the fee service quoted, so it
\* was not converted between major and minor units twice or not at all.
TypeOK ==
    /\ job \in [Request -> Job]
    /\ pc \in [Request -> Step]
    /\ fee \in [Request -> Fee \cup {0}]
    /\ entity \in [Request -> Row]
    /\ dirty \in [Request -> SUBSET Column]
    /\ acct \in [Account -> Row]
    /\ row \in [Request -> RowState]
    /\ recent \in SUBSET Request
    /\ pending \in [Request -> [Account -> Row]]
    /\ draft \in [Request -> RowState \ {"failed"}]
    /\ emitted \in [Request -> Final \cup {"none"}]

\* No account is overdrawn, however debits, credits and freezes interleave:
\* debitAccount checks the balance it read, and writes what it checked.
NonNegative ==
    \A a \in Account : acct[a].balance >= 0

\* The two balances of an account are always equal.  Each is a separate column
\* of the UPDATE that save() computes, and a freeze may write either back.
BooksAgree ==
    \A a \in Account : acct[a].balance = acct[a].ledgerBalance

\* No other connection ever sees a PENDING transaction: the row is committed
\* only with its final status.  (The hourly job that expires PENDING rows and
\* the gateway callbacks that complete them look for rows of this kind.)
OnlyFinalRows ==
    \A r \in Request : row[r] # "pending"

\* The answer, the record and the event of a request agree: success means a
\* COMPLETED row, a reported failure a FAILED one, a refusal none at all, and
\* an event is emitted only for a row that is durable.
AnswersMatchRows ==
    \A r \in Request :
        /\ pc[r] = "ok" /\ job[r].kind \in {"transfer", "deposit", "withdraw"}
                => row[r] = "completed"
        /\ pc[r] = "failed" => row[r] = "failed"
        /\ pc[r] \in {"rejected", "conflict"} => row[r] = "none"
        /\ emitted[r] # "none" => row[r] = emitted[r]

\* A reference names one record: a deposit reported twice with the gateway's
\* reference is recorded, and credited, once.
ReferenceUsedOnce ==
    \A r, s \in Request :
        row[r] # "none" /\ row[s] # "none" /\ RefOf(r) = RefOf(s) => r = s

\* An account row is written by one open transaction at a time, and a
\* reference inserted by one, so a transaction commits over the rows it saw
\* when it took the lock.
LocksExclude ==
    /\ \A a \in Account : \A r, s \in RowHolders(a) : r = s
    /\ \A r \in Request : draft[r] # "none" => RefHolders(r) = {}

\* The guard's promise to a client that repeats a key only after the earlier
\* request has been answered or has died with the process: within 24 hours
\* one record, so at most one movement of money, per idempotency key.
KeyUsedOnce ==
    \A r, s \in recent : KeyOf(r) # NoKey /\ KeyOf(r) = KeyOf(s) => r = s

\* "The guard rejects duplicate keys used within 24 hours": one movement of money
\* per idempotency key, though a client repeats it before it has an answer.
KeyMovesMoneyOnce ==
    \A r, s \in {t \in recent : row[t] = "completed"} :
        KeyOf(r) # NoKey /\ KeyOf(r) = KeyOf(s) => r = s

\* A balance moves only in the step that makes a transaction on that account
\* COMPLETED.
MoneyMovesWithARow ==
    [][\A a \in Account : acct'[a].balance # acct[a].balance =>
            \E r \in Request : /\ row[r] = "none" /\ row'[r] = "completed"
                               /\ a \in Touches(r)]_vars

\* An account that was frozen becomes active only by an unfreeze, which is for
\* administrators.
OnlyUnfreezeThaws ==
    [][\A a \in Account : acct[a].status = "frozen" /\ acct'[a].status = "active" =>
            \E r \in Request : /\ pc[r] = "statusUpdate" /\ pc'[r] = "ok"
                               /\ job[r].kind = "unfreeze" /\ job[r].source = a]_vars

\* What each request adds to account a when it is completed.
Effects(a) == [r \in Request |->
    LET j == job[r] IN
    (IF j.kind \in {"transfer", "deposit"} /\ j.destination = a THEN j.amount ELSE 0)
  - (IF j.kind \in {"transfer", "withdraw"} /\ j.source = a THEN j.amount + fee[r] ELSE 0)]

Completed == {r \in Request : row[r] = "completed"}

\* The balance of an account is what its completed transactions add up to.
BalancesMatchRows ==
    \A a \in Account :
        acct[a].balance = Opening[a].balance + SumFunctionOnSet(Effects(a), Completed)

\* The abstract ledger, with the same accounts and records.
Ledger == INSTANCE AtomicLedger WITH job <- job, acct <- acct, row <- row

\* Requests that do not contend for an account see an atomic ledger: whatever
\* statements, failures, crashes and lost connections happen in between, the
\* committed rows move in single booking steps, and only an uncovered debit is
\* recorded as failed.
AtomicPerAccount == Ledger!Spec

\* A request that was received is eventually answered.
EveryRequestAnswered ==
    \A r \in Request : InFlight(r) ~> pc[r] \in Answered

\* A financial operation that fails leaves a record, unless another record
\* has its reference already or the process dies before it can.
FailureRecorded ==
    \A r \in Request : pc[r] = "rollback" ~> RefTaken(r) \/ pc[r] = "lost"

-----------------------------------------------------------------------------
(* Why the safety properties hold: an inductive invariant, in four parts.   *)

Sound(x) == x.balance >= 0 /\ x.balance = x.ledgerBalance

\* Money: what is written was computed from a sound row by a sound change, and
\* the two balance columns are written together or not at all.
MoneyInv ==
    /\ \A a \in Account : Sound(acct[a])
    /\ \A r \in Request : Sound(entity[r])
    /\ \A r \in Request, a \in Account : Sound(pending[r][a])
    /\ \A r \in Request : "balance" \in dirty[r] <=> "ledgerBalance" \in dirty[r]

\* Between the INSERT of the PENDING row and its second save().
Drafting == {"debitRead", "debitSave", "debitUpdate",
             "creditRead", "creditSave", "creditUpdate", "complete"}

\* Control: where a request is tells what it has drafted, recorded, emitted.
ControlInv ==
    \A r \in Request :
        /\ draft[r] = "completed" <=> pc[r] = "commit"
        /\ pc[r] \in Drafting => draft[r] = "pending"
        /\ draft[r] = "pending" => pc[r] \in Drafting \cup {"rollback"}
        /\ row[r] \in Final \cup {"none"}
        /\ row[r] # "none" =>
                pc[r] \in {"committed", "recorded", "ok", "failed", "error", "lost"}
        /\ pc[r] = "committed" => row[r] = "completed"
        /\ pc[r] \in {"recorded", "failed"} => row[r] = "failed"
        /\ pc[r] = "ok" /\ job[r].kind \in {"transfer", "deposit", "withdraw"}
                => row[r] = "completed"
        /\ emitted[r] # "none" => row[r] = emitted[r] /\ pc[r] \in {"ok", "failed"}
        /\ pc[r] \in {"statusRead", "statusSave", "statusUpdate"}
                => job[r].kind \in {"freeze", "unfreeze"}
        /\ pc[r] = "open" => job[r].kind = "open"

\* Locks: no two open transactions have written one account row, or inserted
\* one reference.
LockInv ==
    /\ \A a \in Account : \A r, s \in Request :
            pending[r][a] # Absent /\ pending[s][a] # Absent => r = s
    /\ \A r, s \in Request :
            draft[r] # "none" /\ draft[s] # "none" /\ RefOf(r) = RefOf(s) => r = s

\* References: a drafted reference is not committed yet, a committed one is
\* committed once.
RefInv ==
    /\ \A r, s \in Request : draft[r] # "none" /\ row[s] # "none" => RefOf(r) # RefOf(s)
    /\ ReferenceUsedOnce

Inv == MoneyInv /\ ControlInv /\ LockInv /\ RefInv

SameKey(r, s) == KeyOf(r) # NoKey /\ KeyOf(r) = KeyOf(s)

\* Keys, for clients that wait before they repeat one: one request per key is
\* in flight, and past the guard only if no recent row has its key.
KeyInv ==
    \A r, s \in Request : r # s /\ SameKey(r, s) =>
        /\ ~(InFlight(r) /\ InFlight(s))
        /\ InFlight(r) /\ s \in recent => pc[r] = "guard"
        /\ ~(r \in recent /\ s \in recent)

=============================================================================
