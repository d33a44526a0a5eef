-------------------------------- MODULE Fees --------------------------------
(***************************************************************************)
(* The fee rules: a table in PostgreSQL, a list of the active rules cached *)
(* in the memory of the process for five minutes, and the calculation of a *)
(* fee from the rule of highest priority that applies.                     *)
(*                                                                         *)
(* Calculations and administration run interleaved: a step is what happens *)
(* between two awaits, or one statement of the database.  Amounts, floors  *)
(* and caps are in minor units (kobo).  The value of a rule, a fraction of *)
(* a kobo if it is a flat one, and a fee are in units of 1/Unit (the value *)
(* is a decimal(10,4), so Unit is 10000 there).                            *)
(***************************************************************************)
EXTENDS Integers

CONSTANTS
    Request,       \* calculations and administrative requests
    Founder,       \* creator of the rules that are there at start
    InitialTables, \* sets of rules that may be in the table at start
    Job,           \* what a request may ask for
    OtherName,     \* names of rules that are not defaults
    NoRule,
    Unit,          \* denominator of the value of a rule
    Discipline     \* "quiet": rules change only while nothing else runs

TransactionType == {"transfer", "deposit", "withdrawal", "payment", "reversal"}

\* Short for "Standard Transfer Fee", "Withdrawal Fee", "Free Deposit".
DefaultName == {"StandardTransfer", "Withdrawal", "FreeDeposit"}

RuleType == [name : DefaultName \cup OtherName, transactionType : TransactionType,
             feeType : {"percentage", "flat", "tiered"}, value : Nat,
             cap : Int, minimum : Int,
             minTransactionAmount : Int, maxTransactionAmount : Int, priority : Int]

Kind == {"calculate", "upsert", "deactivate", "seed"}

\* A rule is named by who created it and what it says.
JobType == [kind : Kind, type : TransactionType, amount : Nat,
            rule : RuleType \cup {NoRule}, by : Request \cup {Founder}]

ASSUME RulesAssumption == InitialTables \subseteq SUBSET RuleType
ASSUME JobAssumption ==
    /\ Job \subseteq JobType
    /\ \A j \in Job : j.kind = "upsert" => j.rule \in RuleType
ASSUME NameAssumption == Founder \notin Request /\ NoRule \notin RuleType
ASSUME UnitAssumption == Unit \in Nat \ {0}
ASSUME DisciplineAssumption == Discipline \in {"none", "quiet"}

VARIABLES
    job,      \* what each request asks for; never changes
    pc,       \* where each request is
    table,    \* rows of fee_configs
    cached,   \* this.cache is not null
    cache,    \* the rules in it
    fresh,    \* Date.now() < this.cacheExpiry
    fetched,  \* rules a SELECT has returned, not yet received by the process
    quote     \* what a calculation returned

vars == <<job, pc, table, cached, cache, fresh, fetched, quote>>

-----------------------------------------------------------------------------
(* The calculation. *)

\* Mutant of Raw: truncated instead of rounded.
RawTruncated(rule, amount) ==
    IF rule.feeType = "flat" THEN rule.value
    ELSE Unit * ((amount * rule.value) \div (100 * Unit))

\* A flat value as it is, or the percentage, rounded half up to a kobo; "tiered" is
\* computed as a percentage.
Raw(rule, amount) ==
    IF rule.feeType = "flat" THEN rule.value
    ELSE Unit * ((amount * rule.value + 50 * Unit) \div (100 * Unit))

\* Mutant of Floored: a default for a fee that rounds to nothing.
FlooredZero(x, minimum) == IF minimum > 0 /\ x = 0 THEN minimum ELSE x

Floored(x, minimum) == IF minimum > 0 /\ x < minimum THEN minimum ELSE x

\* Mutant of Capped: a negative cap is a cap.
CappedAlways(x, cap) == IF cap # 0 /\ cap < x THEN cap ELSE x

Capped(x, cap) == IF cap > 0 /\ cap < x THEN cap ELSE x

\* Mutant of FeeOf: the cap first, the floor second.
FeeOfCappedFirst(rule, amount) ==
    Floored(Capped(Raw(rule, amount), Unit * rule.cap), Unit * rule.minimum)

FeeOf(rule, amount) ==
    Capped(Floored(Raw(rule, amount), Unit * rule.minimum), Unit * rule.cap)

Applies(rule, type, amount) ==
    /\ rule.transactionType = type
    /\ amount >= rule.minTransactionAmount
    /\ rule.maxTransactionAmount = 0 \/ amount <= rule.maxTransactionAmount

Free == [rule |-> NoRule, fee |-> 0]

\* What a list of rules answers: a rule of the highest priority among those
\* that apply decides; none applies: no fee.  The database returns rules of one
\* priority in any order, so any of them may come first.
Quotes(list, type, amount) ==
    LET applicable == {x \in list : Applies(x.rule, type, amount)} IN
    IF applicable = {} THEN {Free}
    ELSE {[rule |-> x.rule, fee |-> FeeOf(x.rule, amount)] :
            x \in {x \in applicable : \A y \in applicable : y.rule.priority <= x.rule.priority}}

-----------------------------------------------------------------------------
(* The table. *)

Row == [by : Request \cup {Founder}, rule : RuleType, active : BOOLEAN]

NewRow(by, rule) == [by |-> by, rule |-> rule, active |-> TRUE]

ActiveRows(rows) == {x \in rows : x.active}

DefaultRule(name, type, feeType, value, cap, minimum) ==
    [name |-> name, transactionType |-> type, feeType |-> feeType, value |-> value,
     cap |-> cap, minimum |-> minimum,
     minTransactionAmount |-> 0, maxTransactionAmount |-> 0, priority |-> 1]

StandardTransfer ==
    DefaultRule("StandardTransfer", "transfer", "percentage", (3 * Unit) \div 2, 50000, 1000)

Defaults == {StandardTransfer,
             DefaultRule("Withdrawal", "withdrawal", "flat", 2500 * Unit, 0, 0),
             DefaultRule("FreeDeposit", "deposit", "flat", 0, 0, 0)}

-----------------------------------------------------------------------------
Answered == {"ok", "error", "lost"}

Step == {"new", "select", "receive", "insert", "update", "count", "seed"} \cup Answered

InFlight(r) == pc[r] \notin {"new"} \cup Answered

At(r, step) == pc[r] = step

Goto(r, step) == pc' = [pc EXCEPT ![r] = step]

Init ==
    /\ job \in [Request -> Job]
    /\ pc = [r \in Request |-> "new"]
    /\ \E rules \in InitialTables : table = {NewRow(Founder, rule) : rule \in rules}
    /\ cached = FALSE /\ cache = {} /\ fresh = FALSE
    /\ fetched = [r \in Request |-> {}]
    /\ quote = [r \in Request |-> Free]

\* In "quiet" use an administrative request runs alone.
MayArrive(r) ==
    Discipline = "quiet" =>
        \A s \in {s \in Request : InFlight(s)} :
            job[r].kind = "calculate" /\ job[s].kind = "calculate"

Arrive(r, kind, step) ==
    /\ At(r, "new")
    /\ job[r].kind = kind
    /\ MayArrive(r)
    /\ Goto(r, step)

memory == <<cached, cache, fresh>>

-----------------------------------------------------------------------------
(* calculate and getActiveRules *)

\* Mutant of Usable: the expiry is not looked at.
UsableForever == cached

Usable == cached /\ fresh

Answer(r, list) ==
    \E q \in Quotes(list, job[r].type, job[r].amount) : quote' = [quote EXCEPT ![r] = q]

\* A usable cache answers at once.
CalculateCached(r) ==
    /\ Usable
    /\ Arrive(r, "calculate", "ok")
    /\ Answer(r, cache)
    /\ UNCHANGED <<job, table, memory, fetched>>

CalculateUncached(r) ==
    /\ ~Usable
    /\ Arrive(r, "calculate", "select")
    /\ UNCHANGED <<job, table, memory, fetched, quote>>

\* The database executes find().
Select(r) ==
    /\ At(r, "select")
    /\ fetched' = [fetched EXCEPT ![r] = ActiveRows(table)]
    /\ Goto(r, "receive")
    /\ UNCHANGED <<job, table, memory, quote>>

\* The process receives the list, caches it for a TTL and answers from it,
\* whatever has happened to the cache or the table since.
Receive(r) ==
    /\ At(r, "receive")
    /\ cached' = TRUE /\ cache' = fetched[r] /\ fresh' = TRUE
    /\ Answer(r, fetched[r])
    /\ fetched' = [fetched EXCEPT ![r] = {}]
    /\ Goto(r, "ok")
    /\ UNCHANGED <<job, table>>

\* Five minutes pass.
Expire ==
    /\ fresh
    /\ fresh' = FALSE
    /\ UNCHANGED <<job, pc, table, cached, cache, fetched, quote>>

-----------------------------------------------------------------------------
(* upsert, deactivate and seedDefaults *)

Invalidate == cached' = FALSE /\ cache' = {} /\ fresh' = FALSE

\* Mutant of Upsert: the cache is left as it is.
UpsertOnly(r) ==
    /\ Arrive(r, "upsert", "insert")
    /\ UNCHANGED <<job, table, memory, fetched, quote>>

Upsert(r) ==
    /\ Arrive(r, "upsert", "insert")
    /\ Invalidate
    /\ UNCHANGED <<job, table, fetched, quote>>

\* save() of an entity without id, which the request body cannot carry: a new
\* row, never an update.
Insert(r) ==
    /\ At(r, "insert")
    /\ table' = table \cup {NewRow(r, job[r].rule)}
    /\ Goto(r, "ok")
    /\ UNCHANGED <<job, memory, fetched, quote>>

Deactivate(r) ==
    /\ Arrive(r, "deactivate", "update")
    /\ Invalidate
    /\ UNCHANGED <<job, table, fetched, quote>>

\* An id that names no row updates none.
Update(r) ==
    LET named(x) == x.by = job[r].by /\ x.rule = job[r].rule IN
    /\ At(r, "update")
    /\ table' = {IF named(x) THEN [x EXCEPT !.active = FALSE] ELSE x : x \in table}
    /\ Goto(r, "ok")
    /\ UNCHANGED <<job, memory, fetched, quote>>

SeedDefaults(r) ==
    /\ Arrive(r, "seed", "count")
    /\ UNCHANGED <<job, table, memory, fetched, quote>>

\* Mutant of Count: nobody looks whether there are rules.
CountNone(r) ==
    /\ At(r, "count")
    /\ Goto(r, "seed")
    /\ UNCHANGED <<job, table, memory, fetched, quote>>

\* count() counts the inactive rules too.
Count(r) ==
    /\ At(r, "count")
    /\ Goto(r, IF table = {} THEN "seed" ELSE "ok")
    /\ UNCHANGED <<job, table, memory, fetched, quote>>

Seeded(r) == {NewRow(r, rule) : rule \in Defaults}

\* One transaction inserts all defaults; the cache is not invalidated.
SaveDefaults(r) ==
    /\ At(r, "seed")
    /\ table' = table \cup Seeded(r)
    /\ Goto(r, "ok")
    /\ UNCHANGED <<job, memory, fetched, quote>>

-----------------------------------------------------------------------------
(* Failures, repetition, the specification. *)

\* A statement fails: the request is answered with an error.
Fail(r) ==
    /\ pc[r] \in {"select", "insert", "update", "count", "seed"}
    /\ Goto(r, "error")
    /\ UNCHANGED <<job, table, memory, fetched, quote>>

\* The process dies and is restarted with an empty cache.
Restart ==
    /\ \E r \in Request : InFlight(r)
    /\ pc' = [r \in Request |-> IF InFlight(r) THEN "lost" ELSE pc[r]]
    /\ fetched' = [r \in Request |-> {}]
    /\ Invalidate
    /\ UNCHANGED <<job, table, quote>>

\* Another transfer of the same amount needs a fee.
Again(r) ==
    /\ job[r].kind = "calculate"
    /\ pc[r] \in Answered
    /\ Goto(r, "new")
    /\ quote' = [quote EXCEPT ![r] = Free]
    /\ UNCHANGED <<job, table, memory, fetched>>

\* Every request is answered, and nobody asks again.
Rest ==
    /\ \A r \in Request : pc[r] \in Answered
    /\ UNCHANGED vars

Serve(r) == \/ Select(r) \/ Receive(r) \/ Insert(r) \/ Update(r)
            \/ Count(r) \/ SaveDefaults(r)

Accept(r) == \/ CalculateCached(r) \/ CalculateUncached(r)
             \/ Upsert(r) \/ Deactivate(r) \/ SeedDefaults(r)

Next ==
    \/ \E r \in Request : Accept(r) \/ Serve(r) \/ Fail(r) \/ Again(r)
    \/ Expire \/ Restart \/ Rest

Spec == Init /\ [][Next]_vars

\* What has been sent to the database is answered, and time passes.  Nobody
\* has to send a request.
Fairness == /\ \A r \in Request : WF_vars(Serve(r))
            /\ WF_vars(Expire)

FairSpec == Spec /\ Fairness
-----------------------------------------------------------------------------
(* Properties. *)

\* The variables have their types; a fee is a natural number whatever the
\* administrator enters for floor, cap and bounds, negative numbers included.
TypeOK ==
    /\ job \in [Request -> Job]
    /\ pc \in [Request -> Step]
    /\ table \subseteq Row
    /\ cached \in BOOLEAN /\ fresh \in BOOLEAN
    /\ cache \subseteq Row
    /\ fetched \in [Request -> SUBSET Row]
    /\ quote \in [Request -> [rule : RuleType \cup {NoRule}, fee : Nat]]

\* What calculate charges by a rule respects the rule: the transaction is one
\* the rule is for, the fee is at most its cap, and at least its minimum
\* unless the cap is lower still.
FeeWithinRule ==
    \A r \in Request :
        LET rule == quote[r].rule
            fee == quote[r].fee IN
        rule # NoRule =>
            /\ Applies(rule, job[r].type, job[r].amount)
            /\ rule.cap > 0 => fee <= Unit * rule.cap
            /\ rule.minimum > 0 /\ (rule.cap <= 0 \/ rule.minimum <= rule.cap)
                    => fee >= Unit * rule.minimum

\* Of two transactions charged by one rule the larger pays no less: rounding,
\* floor and cap of calculate keep the order.
LargerPaysNoLess ==
    \A r, s \in Request :
        quote[r].rule = quote[s].rule /\ quote[r].rule # NoRule
            /\ job[r].amount <= job[s].amount => quote[r].fee <= quote[s].fee

\* The seeded transfer rule charges what its description says, "1.5% of
\* transfer amount, min 10, max 500", to the nearest kobo.
StandardAsDescribed ==
    \A r \in Request :
        LET fee == quote[r].fee
            excess == 200 * fee - 3 * Unit * job[r].amount IN
        quote[r].rule = StandardTransfer =>
            /\ 1000 * Unit <= fee /\ fee <= 50000 * Unit
            /\ fee > 1000 * Unit => excess <= 100 * Unit
            /\ fee < 50000 * Unit => excess >= -100 * Unit

\* In quiet use a list that calculate may answer from holds the rules in force:
\* upsert and deactivate drop it before they write.  Only seedDefaults does not,
\* so an empty list may outlive the seeding of an empty table, but nothing else.
CacheCurrent ==
    Usable => \/ cache = ActiveRows(table)
              \/ cache = {} /\ \E r \in Request : table = Seeded(r)

\* If seedings and changes run alone, a default rule is there once, however often
\* the defaults are seeded and whatever fails or restarts in between.
SeededOnce ==
    \A x, y \in table : x.rule \in Defaults /\ x.rule = y.rule => x = y

\* However calculations, changes and seedings of the rules interleave, a list
\* fetched before a change and cached after it, or read between the
\* invalidation and the write, is at last replaced.
CacheCatchesUp ==
    <>[](Usable => cache = ActiveRows(table))

-----------------------------------------------------------------------------
\* Where a request is tells what it asks for.
ControlInv ==
    \A r \in Request :
        /\ pc[r] \in {"select", "receive"} => job[r].kind = "calculate"
        /\ pc[r] = "insert" => job[r].kind = "upsert"
        /\ pc[r] = "update" => job[r].kind = "deactivate"
        /\ pc[r] \in {"count", "seed"} => job[r].kind = "seed"

\* Why CacheCurrent holds: a change of the rules is alone, has dropped the list,
\* or seeds an empty table, and what a calculation has fetched is still in force.
QuietInv ==
    /\ CacheCurrent
    /\ \A r \in Request :
        /\ pc[r] \in {"insert", "update", "count", "seed"}
            => \A s \in Request : InFlight(s) => s = r
        /\ pc[r] \in {"insert", "update"} => ~cached
        /\ pc[r] = "seed" => table = {}
        /\ pc[r] = "receive" => fetched[r] = ActiveRows(table)

\* A quote is the fee of a rule that applies.
QuoteInv ==
    \A r \in Request :
        quote[r].rule # NoRule => /\ quote[r].rule \in RuleType
                                  /\ Applies(quote[r].rule, job[r].type, job[r].amount)
                                  /\ quote[r].fee = FeeOf(quote[r].rule, job[r].amount)

Inv == TypeOK /\ ControlInv /\ QuoteInv
=============================================================================
