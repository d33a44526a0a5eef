----------------------------- MODULE FeesProofs -----------------------------
(***************************************************************************)
(* Theorems about Fees: the calculation is well typed, respects floor and  *)
(* cap and is monotone for every rule and amount; the cache is coherent in *)
(* quiet use.                                                              *)
(***************************************************************************)
EXTENDS Fees, TLAPS

(* The calculation. *)

LEMMA RawType ==
    ASSUME NEW rule \in RuleType, NEW amount \in Nat
    PROVE  Raw(rule, amount) \in Nat
<1>1. rule.value \in Nat /\ Unit \in Nat /\ Unit > 0
  BY UnitAssumption DEF RuleType
<1>2. amount * rule.value \in Nat
  BY <1>1
<1> DEFINE rounded == (amount * rule.value + 50 * Unit) \div (100 * Unit)
<1>3. rounded \in Nat
  BY <1>1, <1>2
<1> HIDE DEF rounded
<1>4. Unit * rounded \in Nat
  BY <1>1, <1>3
<1> QED
  BY <1>1, <1>4 DEF Raw, rounded

\* Floor and cap of a rule, in the units of the fee.
LEMMA LimitsType ==
    ASSUME NEW rule \in RuleType
    PROVE  /\ Unit * rule.minimum \in Int /\ Unit * rule.cap \in Int
           /\ Unit * rule.minimum > 0 <=> rule.minimum > 0
           /\ Unit * rule.cap > 0 <=> rule.cap > 0
           /\ rule.minimum <= rule.cap => Unit * rule.minimum <= Unit * rule.cap
<1>1. rule.minimum \in Int /\ rule.cap \in Int /\ Unit \in Nat /\ Unit > 0
  BY UnitAssumption DEF RuleType
<1>2. \A n \in Int : Unit * n \in Int /\ (Unit * n > 0 <=> n > 0)
  BY <1>1
<1>3. rule.minimum <= rule.cap => Unit * rule.minimum <= Unit * rule.cap
  BY <1>1
<1> QED
  BY <1>1, <1>2, <1>3

LEMMA FeeOfType ==
    ASSUME NEW rule \in RuleType, NEW amount \in Nat
    PROVE  FeeOf(rule, amount) \in Nat
<1> DEFINE raw == Raw(rule, amount)
           low == Unit * rule.minimum
           high == Unit * rule.cap
<1>1. raw \in Nat /\ low \in Int /\ high \in Int
  BY RawType, LimitsType
<1> HIDE DEF raw, low, high
<1>2. Capped(Floored(raw, low), high) \in Nat
  BY <1>1 DEF Floored, Capped
<1> QED
  BY <1>2 DEF FeeOf, raw, low, high

\* Floor and cap, in the order calculate applies them.
LEMMA FeeOfBounds ==
    ASSUME NEW rule \in RuleType, NEW amount \in Nat
    PROVE  /\ rule.cap > 0 => FeeOf(rule, amount) <= Unit * rule.cap
           /\ rule.minimum > 0 /\ (rule.cap <= 0 \/ rule.minimum <= rule.cap)
                => FeeOf(rule, amount) >= Unit * rule.minimum
<1> DEFINE raw == Raw(rule, amount)
           low == Unit * rule.minimum
           high == Unit * rule.cap
<1>1. /\ raw \in Nat /\ low \in Int /\ high \in Int
      /\ low > 0 <=> rule.minimum > 0
      /\ high > 0 <=> rule.cap > 0
      /\ rule.minimum <= rule.cap => low <= high
      /\ rule.minimum \in Int /\ rule.cap \in Int
  BY RawType, LimitsType DEF RuleType
<1>2. FeeOf(rule, amount) = Capped(Floored(raw, low), high)
  BY DEF FeeOf
<1> HIDE DEF raw, low, high
<1>3. /\ rule.cap > 0 => Capped(Floored(raw, low), high) <= high
      /\ rule.minimum > 0 /\ (rule.cap <= 0 \/ rule.minimum <= rule.cap)
            => Capped(Floored(raw, low), high) >= low
  BY <1>1 DEF Floored, Capped
<1> QED
  BY <1>2, <1>3 DEF low, high

LEMMA DivMonotone ==
    ASSUME NEW a \in Nat, NEW b \in Nat, NEW d \in Nat, d > 0, a <= b
    PROVE  a \div d <= b \div d
<1>1. PICK q \in Nat : q = a \div d
  OBVIOUS
<1>2. PICK p \in Nat : p = b \div d
  OBVIOUS
<1>3. d * q <= a /\ b < d * (p + 1)
  BY <1>1, <1>2
<1>4. d * q < d * (p + 1)
  BY <1>3
<1>5. q < p + 1
  BY <1>4
<1> QED
  BY <1>1, <1>2, <1>5

LEMMA RawMonotone ==
    ASSUME NEW rule \in RuleType, NEW amount \in Nat, NEW larger \in Nat, amount <= larger
    PROVE  Raw(rule, amount) <= Raw(rule, larger)
<1>1. rule.value \in Nat /\ Unit \in Nat /\ Unit > 0
  BY UnitAssumption DEF RuleType
<1>2. CASE rule.feeType = "flat"
  BY <1>1, <1>2 DEF Raw
<1>3. CASE rule.feeType # "flat"
  <2> DEFINE a == amount * rule.value + 50 * Unit
             b == larger * rule.value + 50 * Unit
             d == 100 * Unit
  <2>1. amount * rule.value \in Nat /\ larger * rule.value \in Nat
    BY <1>1
  <2>2. amount * rule.value <= larger * rule.value
    BY <1>1
  <2>3. a \in Nat /\ b \in Nat /\ a <= b /\ d \in Nat /\ d > 0
    BY <1>1, <2>1, <2>2
  <2>r. Raw(rule, amount) = Unit * (a \div d) /\ Raw(rule, larger) = Unit * (b \div d)
    BY <1>3 DEF Raw
  <2> HIDE DEF a, b, d
  <2>4. a \div d <= b \div d /\ a \div d \in Nat /\ b \div d \in Nat
    BY <2>3, DivMonotone
  <2> DEFINE x == a \div d
             y == b \div d
  <2>5. x \in Nat /\ y \in Nat /\ x <= y
    BY <2>4
  <2> HIDE DEF x, y
  <2>6. Unit * x <= Unit * y
    BY <1>1, <2>5
  <2> QED
    BY <2>r, <2>6 DEF x, y
<1> QED
  BY <1>2, <1>3

LEMMA FeeOfMonotone ==
    ASSUME NEW rule \in RuleType, NEW amount \in Nat, NEW larger \in Nat, amount <= larger
    PROVE  FeeOf(rule, amount) <= FeeOf(rule, larger)
<1> DEFINE raw == Raw(rule, amount)
           more == Raw(rule, larger)
           low == Unit * rule.minimum
           high == Unit * rule.cap
<1>1. raw \in Nat /\ more \in Nat /\ raw <= more /\ low \in Int /\ high \in Int
  BY RawType, RawMonotone, LimitsType
<1> HIDE DEF raw, more, low, high
<1>2. Capped(Floored(raw, low), high) <= Capped(Floored(more, low), high)
  BY <1>1 DEF Floored, Capped
<1> QED
  BY <1>2 DEF FeeOf, raw, more, low, high
-----------------------------------------------------------------------------
(* Type correctness. *)

LEMMA DefaultsType == Defaults \subseteq RuleType
<1>1. Unit \in Nat /\ (3 * Unit) \div 2 \in Nat /\ 2500 * Unit \in Nat
  BY UnitAssumption
<1>2. ASSUME NEW name \in DefaultName, NEW type \in TransactionType,
             NEW feeType \in {"percentage", "flat"}, NEW value \in Nat,
             NEW cap \in Nat, NEW minimum \in Nat
      PROVE  DefaultRule(name, type, feeType, value, cap, minimum) \in RuleType
  BY DEF DefaultRule, RuleType
<1>3. StandardTransfer \in RuleType
  BY <1>1, <1>2 DEF StandardTransfer, TransactionType, DefaultName
<1>4. DefaultRule("Withdrawal", "withdrawal", "flat", 2500 * Unit, 0, 0) \in RuleType
  BY <1>1, <1>2 DEF TransactionType, DefaultName
<1>5. DefaultRule("FreeDeposit", "deposit", "flat", 0, 0, 0) \in RuleType
  BY <1>2 DEF TransactionType, DefaultName
<1> QED
  BY <1>3, <1>4, <1>5 DEF Defaults

\* What the types of the fields of a request's job are.
LEMMA JobFields ==
    ASSUME TypeOK, NEW r \in Request
    PROVE  /\ job[r].kind \in Kind
           /\ job[r].type \in TransactionType
           /\ job[r].amount \in Nat
           /\ job[r].kind = "upsert" => job[r].rule \in RuleType
<1>1. job[r] \in Job
  BY DEF TypeOK
<1>2. job[r] \in JobType
  BY <1>1, JobAssumption
<1> QED
  BY <1>1, <1>2, JobAssumption DEF JobType

\* What a calculation answers from a list of rows: no rule and no fee, or a
\* rule of the list that applies, and its fee.
LEMMA QuotesFacts ==
    ASSUME NEW list, list \subseteq Row, NEW type, NEW amount \in Nat,
           NEW q \in Quotes(list, type, amount)
    PROVE  /\ q \in [rule : RuleType \cup {NoRule}, fee : Nat]
           /\ q.rule # NoRule => /\ q.rule \in RuleType
                                 /\ Applies(q.rule, type, amount)
                                 /\ q.fee = FeeOf(q.rule, amount)
<1>1. CASE q = Free
  BY <1>1 DEF Free
<1>2. CASE q # Free
  <2>1. PICK x \in list : /\ Applies(x.rule, type, amount)
                          /\ q = [rule |-> x.rule, fee |-> FeeOf(x.rule, amount)]
    BY <1>2 DEF Quotes
  <2>2. x.rule \in RuleType
    BY DEF Row
  <2>3. FeeOf(x.rule, amount) \in Nat
    BY <2>2, FeeOfType
  <2> QED
    BY <2>1, <2>2, <2>3
<1> QED
  BY <1>1, <1>2

LEMMA AnswerFacts ==
    ASSUME TypeOK, NEW r \in Request, NEW list, list \subseteq Row, Answer(r, list)
    PROVE  /\ quote' \in [Request -> [rule : RuleType \cup {NoRule}, fee : Nat]]
           /\ \A s \in Request \ {r} : quote'[s] = quote[s]
           /\ quote'[r].rule # NoRule =>
                /\ quote'[r].rule \in RuleType
                /\ Applies(quote'[r].rule, job[r].type, job[r].amount)
                /\ quote'[r].fee = FeeOf(quote'[r].rule, job[r].amount)
<1>1. PICK q \in Quotes(list, job[r].type, job[r].amount) : quote' = [quote EXCEPT ![r] = q]
  BY DEF Answer
<1>2. job[r].amount \in Nat
  BY JobFields
<1>3. /\ q \in [rule : RuleType \cup {NoRule}, fee : Nat]
      /\ q.rule # NoRule => /\ q.rule \in RuleType
                            /\ Applies(q.rule, job[r].type, job[r].amount)
                            /\ q.fee = FeeOf(q.rule, job[r].amount)
  BY <1>2, QuotesFacts
<1>4. quote \in [Request -> [rule : RuleType \cup {NoRule}, fee : Nat]]
  BY DEF TypeOK
<1>5. quote'[r] = q
  BY <1>1, <1>4
<1> QED
  BY <1>1, <1>3, <1>4, <1>5

LEMMA TypeInit == Init => TypeOK
<1> SUFFICES ASSUME Init PROVE TypeOK
  OBVIOUS
<1>1. Free \in [rule : RuleType \cup {NoRule}, fee : Nat]
  BY DEF Free
<1>2. \A rules \in InitialTables : \A rule \in rules : NewRow(Founder, rule) \in Row
  BY RulesAssumption DEF NewRow, Row
<1>3. table \subseteq Row
  BY <1>2 DEF Init
<1> QED
  BY <1>1, <1>3 DEF Init, TypeOK, Step, Answered

LEMMA TypeNext == TypeOK /\ ControlInv /\ [Next]_vars => TypeOK'
<1> SUFFICES ASSUME TypeOK, ControlInv, [Next]_vars PROVE TypeOK'
  OBVIOUS
<1> USE DEF memory, Goto, At
<1>1. ASSUME NEW r \in Request, CalculateCached(r) PROVE TypeOK'
  <2>1. cache \subseteq Row /\ Answer(r, cache)
    BY <1>1 DEF TypeOK, CalculateCached
  <2>2. quote' \in [Request -> [rule : RuleType \cup {NoRule}, fee : Nat]]
    BY <2>1, AnswerFacts
  <2> QED
    BY <1>1, <2>2 DEF TypeOK, CalculateCached, Arrive, Step, Answered
<1>2. ASSUME NEW r \in Request, CalculateUncached(r) PROVE TypeOK'
  BY <1>2 DEF TypeOK, CalculateUncached, Arrive, Step
<1>3. ASSUME NEW r \in Request, Select(r) PROVE TypeOK'
  BY <1>3 DEF TypeOK, Select, ActiveRows, Step
<1>4. ASSUME NEW r \in Request, Receive(r) PROVE TypeOK'
  <2>1. fetched[r] \subseteq Row /\ Answer(r, fetched[r])
    BY <1>4 DEF TypeOK, Receive
  <2>2. quote' \in [Request -> [rule : RuleType \cup {NoRule}, fee : Nat]]
    BY <2>1, AnswerFacts
  <2>3. fetched' \in [Request -> SUBSET Row]
    BY <1>4 DEF TypeOK, Receive
  <2>4. cache' \subseteq Row
    BY <1>4, <2>1 DEF Receive
  <2>5. pc' \in [Request -> Step]
    BY <1>4 DEF TypeOK, Receive, Step, Answered
  <2> QED
    BY <1>4, <2>2, <2>3, <2>4, <2>5 DEF TypeOK, Receive
<1>5. ASSUME NEW r \in Request, Upsert(r) \/ Deactivate(r) \/ SeedDefaults(r) PROVE TypeOK'
  BY <1>5 DEF TypeOK, Upsert, Deactivate, SeedDefaults, Invalidate, Arrive, Step
<1>6. ASSUME NEW r \in Request, Insert(r) PROVE TypeOK'
  <2>1. NewRow(r, job[r].rule) \in Row
    BY <1>6, JobFields DEF ControlInv, Insert, NewRow, Row
  <2> QED
    BY <1>6, <2>1 DEF TypeOK, Insert, Step, Answered
<1>7. ASSUME NEW r \in Request, Update(r) PROVE TypeOK'
  <2>1. table' \subseteq Row
    <3>1. \A x \in Row : [x EXCEPT !.active = FALSE] \in Row
      BY DEF Row
    <3>2. table \subseteq Row
      BY DEF TypeOK
    <3> QED
      BY <1>7, <3>1, <3>2 DEF Update
  <2> QED
    BY <1>7, <2>1 DEF TypeOK, Update, Step, Answered
<1>8. ASSUME NEW r \in Request, Count(r) PROVE TypeOK'
  BY <1>8 DEF TypeOK, Count, Step, Answered
<1>9. ASSUME NEW r \in Request, SaveDefaults(r) PROVE TypeOK'
  <2>1. \A rule \in Defaults : NewRow(r, rule) \in Row
    BY DefaultsType DEF NewRow, Row
  <2>2. table' \subseteq Row
    BY <1>9, <2>1 DEF TypeOK, SaveDefaults, Seeded
  <2> QED
    BY <1>9, <2>2 DEF TypeOK, SaveDefaults, Step, Answered
<1>10. ASSUME NEW r \in Request, Fail(r) PROVE TypeOK'
  BY <1>10 DEF TypeOK, Fail, Step, Answered
<1>11. ASSUME NEW r \in Request, Again(r) PROVE TypeOK'
  BY <1>11 DEF TypeOK, Again, Free, Step
<1>12. CASE Expire
  BY <1>12 DEF TypeOK, Expire
<1>13. CASE Restart
  BY <1>13 DEF TypeOK, Restart, Invalidate, Step, Answered
<1>14. CASE UNCHANGED vars
  BY <1>14 DEF TypeOK, vars
<1> QED
  BY <1>1, <1>2, <1>3, <1>4, <1>5, <1>6, <1>7, <1>8, <1>9, <1>10, <1>11, <1>12, <1>13, <1>14
  DEF Next, Accept, Serve, Rest
-----------------------------------------------------------------------------
(* Control, quotes. *)

LEMMA ControlNext == TypeOK /\ ControlInv /\ [Next]_vars => ControlInv'
<1> SUFFICES ASSUME TypeOK, ControlInv, [Next]_vars PROVE ControlInv'
  OBVIOUS
<1> USE DEF memory, Goto, At, ControlInv
<1>1. job' = job
  BY DEF Next, Accept, Serve, Rest, vars, CalculateCached, CalculateUncached, Select, Receive,
     Upsert, Deactivate, SeedDefaults, Insert, Update, Count, SaveDefaults, Fail, Again,
     Expire, Restart
<1>2. ASSUME NEW r \in Request, Accept(r) PROVE ControlInv'
  BY <1>1, <1>2 DEF TypeOK, Accept, CalculateCached, CalculateUncached, Upsert, Deactivate,
     SeedDefaults, Arrive
<1>3. ASSUME NEW r \in Request, Serve(r) PROVE ControlInv'
  BY <1>1, <1>3 DEF TypeOK, Serve, Select, Receive, Insert, Update, Count, SaveDefaults
<1>4. ASSUME NEW r \in Request, Fail(r) \/ Again(r) PROVE ControlInv'
  BY <1>1, <1>4 DEF TypeOK, Fail, Again
<1>5. CASE Restart
  BY <1>1, <1>5 DEF TypeOK, Restart
<1>6. CASE UNCHANGED <<job, pc>>
  BY <1>6
<1> QED
  BY <1>2, <1>3, <1>4, <1>5, <1>6 DEF Next, Expire, Rest, vars

LEMMA QuoteNext == TypeOK /\ QuoteInv /\ [Next]_vars => QuoteInv'
<1> SUFFICES ASSUME TypeOK, QuoteInv, [Next]_vars PROVE QuoteInv'
  OBVIOUS
<1>1. ASSUME NEW r \in Request, NEW list, list \subseteq Row, Answer(r, list), job' = job
      PROVE  QuoteInv'
  <2>1. /\ \A s \in Request \ {r} : quote'[s] = quote[s]
        /\ quote'[r].rule # NoRule =>
              /\ quote'[r].rule \in RuleType
              /\ Applies(quote'[r].rule, job[r].type, job[r].amount)
              /\ quote'[r].fee = FeeOf(quote'[r].rule, job[r].amount)
    BY <1>1, AnswerFacts
  <2> QED
    BY <1>1, <2>1 DEF QuoteInv
<1>2. ASSUME NEW r \in Request, CalculateCached(r) PROVE QuoteInv'
  BY <1>1, <1>2 DEF TypeOK, CalculateCached
<1>3. ASSUME NEW r \in Request, Receive(r) PROVE QuoteInv'
  BY <1>1, <1>3 DEF TypeOK, Receive
<1>4. ASSUME NEW r \in Request, Again(r) PROVE QuoteInv'
  BY <1>4 DEF TypeOK, QuoteInv, Again, Free
<1>5. CASE UNCHANGED <<job, quote>>
  BY <1>5 DEF QuoteInv
<1> QED
  BY <1>2, <1>3, <1>4, <1>5 DEF Next, Accept, Serve, Rest, vars, CalculateUncached, Select,
     Upsert, Deactivate, SeedDefaults, Insert, Update, Count, SaveDefaults, Fail, Expire, Restart

LEMMA InvInit == Init => Inv
<1>1. Init => ControlInv
  BY DEF Init, ControlInv
<1>2. Init => QuoteInv
  BY DEF Init, QuoteInv, Free
<1> QED
  BY <1>1, <1>2, TypeInit DEF Inv

THEOREM InvHolds == Spec => []Inv
<1>1. Inv /\ [Next]_vars => Inv'
  BY TypeNext, ControlNext, QuoteNext DEF Inv
<1> QED
  BY InvInit, <1>1, PTL DEF Spec

\* The variables have their types; a fee is a natural number for every rule an
\* administrator can enter.
THEOREM TypeCorrect == Spec => []TypeOK
<1>1. Inv => TypeOK
  BY DEF Inv
<1> QED
  BY InvHolds, <1>1, PTL

\* Whatever happens to cache and table, calculate charges by a rule that is for
\* the transaction, and respects its floor and cap.
THEOREM ChargedByTheRule == Spec => []FeeWithinRule
<1>1. Inv => FeeWithinRule
  <2> SUFFICES ASSUME Inv, NEW r \in Request, quote[r].rule # NoRule
               PROVE  LET rule == quote[r].rule
                          fee == quote[r].fee IN
                      /\ Applies(rule, job[r].type, job[r].amount)
                      /\ rule.cap > 0 => fee <= Unit * rule.cap
                      /\ rule.minimum > 0 /\ (rule.cap <= 0 \/ rule.minimum <= rule.cap)
                            => fee >= Unit * rule.minimum
    BY DEF FeeWithinRule
  <2>1. job[r].amount \in Nat
    BY JobFields DEF Inv
  <2> QED
    BY <2>1, FeeOfBounds DEF Inv, QuoteInv
<1> QED
  BY InvHolds, <1>1, PTL

\* Of two amounts charged by one rule the larger pays no less: rounding, floor
\* and cap keep the order, for all rules and amounts.
THEOREM FairCharges == Spec => []LargerPaysNoLess
<1>1. Inv => LargerPaysNoLess
  <2> SUFFICES ASSUME Inv, NEW r \in Request, NEW s \in Request,
                      quote[r].rule = quote[s].rule, quote[r].rule # NoRule,
                      job[r].amount <= job[s].amount
               PROVE  quote[r].fee <= quote[s].fee
    BY DEF LargerPaysNoLess
  <2>1. job[r].amount \in Nat /\ job[s].amount \in Nat
    BY JobFields DEF Inv
  <2> QED
    BY <2>1, FeeOfMonotone DEF Inv, QuoteInv
<1> QED
  BY InvHolds, <1>1, PTL

\* Twice the unrounded standard fee is three hundredths of the amount; rounding
\* is off by half a kobo at most.  The value 1.5 has to be a whole number of
\* units, as it is where a unit is a ten-thousandth.
LEMMA StandardRaw ==
    ASSUME Unit % 2 = 0, NEW amount \in Nat
    PROVE  \E kobo \in Nat : /\ Raw(StandardTransfer, amount) = Unit * kobo
                             /\ 200 * kobo - 3 * amount > -100
                             /\ 200 * kobo - 3 * amount <= 100
<1>1. PICK h \in Nat : Unit = 2 * h /\ h > 0
  BY UnitAssumption
<1>2. (3 * Unit) \div 2 = 3 * h
  BY <1>1
<1> DEFINE kobo == (amount * (3 * h) + 50 * Unit) \div (100 * Unit)
           x == 3 * amount + 100
<1>3. amount * (3 * h) + 50 * Unit = h * x
  <2>1. amount * (3 * h) = h * (3 * amount) /\ h * x = h * (3 * amount) + h * 100
    BY <1>1
  <2> QED
    BY <1>1, <2>1
<1>4. x \in Nat /\ h * x \in Nat /\ 200 * h \in Nat /\ 200 * h > 0
  BY <1>1
<1>r. Raw(StandardTransfer, amount) = Unit * kobo
  BY <1>2 DEF Raw, StandardTransfer, DefaultRule
<1>5. kobo = (h * x) \div (200 * h)
  BY <1>1, <1>3
<1> HIDE DEF kobo, x
<1>6. kobo \in Nat /\ (200 * h) * kobo <= h * x /\ h * x < (200 * h) * (kobo + 1)
  BY <1>4, <1>5
<1>7. (200 * h) * kobo = h * (200 * kobo) /\ (200 * h) * (kobo + 1) = h * (200 * kobo + 200)
  BY <1>1, <1>6
<1>8. 200 * kobo <= x
  BY <1>1, <1>4, <1>6, <1>7
<1>9. x < 200 * kobo + 200
  BY <1>1, <1>4, <1>6, <1>7
<1>10. 200 * kobo - 3 * amount > -100 /\ 200 * kobo - 3 * amount <= 100
  BY <1>6, <1>8, <1>9 DEF x
<1> QED
  BY <1>6, <1>r, <1>10

\* The seeded rule charges what its description says, for every amount.
THEOREM Description ==
    ASSUME Unit % 2 = 0
    PROVE  Spec => []StandardAsDescribed
<1>1. Inv => StandardAsDescribed
  <2> SUFFICES ASSUME Inv PROVE StandardAsDescribed
    OBVIOUS
  <2>1. \A r \in Request : job[r].amount \in Nat /\ quote[r].fee \in Nat
    BY JobFields DEF Inv, TypeOK
  <2>2. StandardTransfer \in RuleType /\ StandardTransfer # NoRule
    BY DefaultsType, NameAssumption DEF Defaults
  <2>3. StandardTransfer.cap = 50000 /\ StandardTransfer.minimum = 1000
    BY DEF StandardTransfer, DefaultRule
  <2>4. ASSUME NEW r \in Request, quote[r].rule = StandardTransfer
        PROVE  /\ 1000 * Unit <= quote[r].fee /\ quote[r].fee <= 50000 * Unit
               /\ quote[r].fee > 1000 * Unit
                    => 200 * quote[r].fee - 3 * Unit * job[r].amount <= 100 * Unit
               /\ quote[r].fee < 50000 * Unit
                    => 200 * quote[r].fee - 3 * Unit * job[r].amount >= -100 * Unit
    <3>0. Unit \in Nat /\ Unit > 0 /\ job[r].amount \in Nat
      BY <2>1, UnitAssumption
    <3>1. PICK kobo \in Nat : /\ Raw(StandardTransfer, job[r].amount) = Unit * kobo
                              /\ 200 * kobo - 3 * job[r].amount > -100
                              /\ 200 * kobo - 3 * job[r].amount <= 100
      BY <3>0, StandardRaw
    <3>2. quote[r].fee = Capped(Floored(Unit * kobo, Unit * 1000), Unit * 50000)
      BY <2>2, <2>3, <2>4, <3>1 DEF Inv, QuoteInv, FeeOf
    <3>3. PICK charged \in Nat :
            /\ quote[r].fee = Unit * charged
            /\ 1000 <= charged /\ charged <= 50000
            /\ charged > 1000 => charged <= kobo
            /\ charged < 50000 => charged >= kobo
      <4>1. CASE kobo < 1000
        BY <3>0, <3>2, <4>1 DEF Capped, Floored
      <4>2. CASE kobo > 50000
        BY <3>0, <3>2, <4>2 DEF Capped, Floored
      <4>3. CASE 1000 <= kobo /\ kobo <= 50000
        BY <3>0, <3>2, <4>3 DEF Capped, Floored
      <4> QED
        BY <4>1, <4>2, <4>3
    <3>4. ASSUME NEW n \in Int, NEW m \in Int, n <= m PROVE Unit * n <= Unit * m
      BY <3>0, <3>4
    <3>5. ASSUME NEW n \in Int, NEW m \in Int, Unit * n < Unit * m PROVE n < m
      BY <3>0, <3>5
    <3>6. Unit * 1000 <= Unit * charged /\ Unit * charged <= Unit * 50000
      BY <3>3, <3>4
    <3>7. /\ quote[r].fee > Unit * 1000 => charged > 1000
          /\ quote[r].fee < Unit * 50000 => charged < 50000
      BY <3>3, <3>5
    <3> DEFINE excess == 200 * charged - 3 * job[r].amount
    <3>8. /\ excess \in Int
          /\ charged > 1000 => excess <= 100
          /\ charged < 50000 => excess >= -100
      BY <3>0, <3>1, <3>3
    <3>9. 200 * quote[r].fee - 3 * Unit * job[r].amount = Unit * excess
      <4>1. 200 * (Unit * charged) = Unit * (200 * charged)
        BY <3>0, <3>3
      <4>2. 3 * Unit * job[r].amount = Unit * (3 * job[r].amount)
        BY <3>0
      <4>3. Unit * (200 * charged - 3 * job[r].amount)
                = Unit * (200 * charged) - Unit * (3 * job[r].amount)
        <5>1. ASSUME NEW n \in Int, NEW m \in Int PROVE Unit * (n - m) = Unit * n - Unit * m
          BY <3>0
        <5>2. 200 * charged \in Int /\ 3 * job[r].amount \in Int
          BY <3>0, <3>3
        <5> QED
          BY <5>1, <5>2
      <4>4. 200 * quote[r].fee = 200 * (Unit * charged)
        BY <3>3
      <4> QED
        BY <4>1, <4>2, <4>3, <4>4
    <3> HIDE DEF excess
    <3>10. /\ excess <= 100 => Unit * excess <= Unit * 100
           /\ excess >= -100 => Unit * excess >= Unit * (-100)
      BY <3>4, <3>8
    <3> QED
      BY <3>0, <3>3, <3>6, <3>7, <3>8, <3>9, <3>10
  <2> QED
    BY <2>1, <2>4 DEF StandardAsDescribed
<1> QED
  BY InvHolds, <1>1, PTL

-----------------------------------------------------------------------------
(* The cache. *)

LEMMA QuietNext ==
    ASSUME Discipline = "quiet", Inv, QuietInv, [Next]_vars
    PROVE  QuietInv'
<1> USE DEF memory, Goto, At, Inv, QuietInv, CacheCurrent, Usable
<1>1. ASSUME NEW r \in Request, CalculateCached(r) PROVE QuietInv'
  <2>1. /\ UNCHANGED <<table, memory, fetched>>
        /\ \A s \in Request \ {r} : pc'[s] = pc[s]
        /\ pc[r] = "new" /\ pc'[r] = "ok"
    BY <1>1 DEF TypeOK, CalculateCached, Arrive
  <2>2. CacheCurrent'
    BY <2>1 DEF ActiveRows, Seeded, NewRow
  <2> QED
    BY <2>1, <2>2 DEF InFlight, Answered, ActiveRows
<1>2. ASSUME NEW r \in Request, CalculateUncached(r) PROVE QuietInv'
  <2>1. \A s \in Request : pc[s] \notin {"insert", "update", "count", "seed"}
    BY <1>2 DEF ControlInv, CalculateUncached, Arrive, MayArrive, InFlight, Answered
  <2>2. /\ UNCHANGED <<table, memory, fetched>>
        /\ \A s \in Request \ {r} : pc'[s] = pc[s]
        /\ pc'[r] = "select"
    BY <1>2 DEF TypeOK, CalculateUncached, Arrive
  <2>3. CacheCurrent'
    BY <2>2 DEF ActiveRows, Seeded, NewRow
  <2> QED
    BY <2>1, <2>2, <2>3 DEF ActiveRows
<1>3. ASSUME NEW r \in Request, Select(r) PROVE QuietInv'
  <2>1. \A s \in Request : pc[s] \notin {"insert", "update", "count", "seed"}
    BY <1>3 DEF Select, InFlight, Answered
  <2>2. /\ UNCHANGED <<table, memory>>
        /\ fetched' = [fetched EXCEPT ![r] = ActiveRows(table)]
        /\ pc' = [pc EXCEPT ![r] = "receive"]
    BY <1>3 DEF Select
  <2>3. CacheCurrent'
    BY <2>2 DEF ActiveRows, Seeded, NewRow
  <2>4. ASSUME NEW s \in Request
        PROVE  /\ pc'[s] \notin {"insert", "update", "count", "seed"}
               /\ pc'[s] = "receive" => fetched'[s] = ActiveRows(table)
    <3>1. CASE s = r
      BY <2>2, <3>1 DEF TypeOK
    <3>2. CASE s # r
      BY <2>1, <2>2, <3>2 DEF TypeOK
    <3> QED
      BY <3>1, <3>2
  <2>5. ActiveRows(table)' = ActiveRows(table)
    BY <2>2 DEF ActiveRows
  <2> QED
    BY <2>3, <2>4, <2>5
<1>4. ASSUME NEW r \in Request, Receive(r) PROVE QuietInv'
  <2>1. \A s \in Request : pc[s] \notin {"insert", "update", "count", "seed"}
    BY <1>4 DEF Receive, InFlight, Answered
  <2>2. /\ table' = table /\ cache' = ActiveRows(table)
        /\ fetched' = [fetched EXCEPT ![r] = {}] /\ pc' = [pc EXCEPT ![r] = "ok"]
    BY <1>4 DEF Receive
  <2> QED
    BY <2>1, <2>2 DEF TypeOK, ActiveRows
<1>5. ASSUME NEW r \in Request, Upsert(r) \/ Deactivate(r) \/ SeedDefaults(r) PROVE QuietInv'
  <2>1. \A s \in Request : ~InFlight(s)
    BY <1>5 DEF Upsert, Deactivate, SeedDefaults, Arrive, MayArrive
  <2>2. \A s \in Request : pc[s] \in {"new"} \cup Answered
    BY <2>1 DEF InFlight
  <2>3. /\ table' = table
        /\ \A s \in Request \ {r} : pc'[s] = pc[s]
        /\ pc'[r] \in {"insert", "update", "count"}
        /\ pc'[r] \in {"insert", "update"} => ~cached'
        /\ ~cached' \/ UNCHANGED memory
    BY <1>5 DEF TypeOK, Upsert, Deactivate, SeedDefaults, Arrive, Invalidate
  <2> QED
    BY <2>2, <2>3 DEF InFlight, Answered, ActiveRows
<1>6. ASSUME NEW r \in Request, Insert(r) \/ Update(r) PROVE QuietInv'
  <2>1. \A s \in Request : InFlight(s) => s = r
    BY <1>6 DEF Insert, Update
  <2>2. \A s \in Request \ {r} : pc'[s] = pc[s] /\ pc[s] \in {"new"} \cup Answered
    BY <1>6, <2>1 DEF TypeOK, Insert, Update, InFlight
  <2>3. pc'[r] = "ok" /\ ~cached'
    BY <1>6 DEF TypeOK, Insert, Update
  <2> QED
    BY <2>2, <2>3 DEF Answered
<1>7. ASSUME NEW r \in Request, Count(r) PROVE QuietInv'
  <2>1. /\ UNCHANGED <<table, memory, fetched>>
        /\ \A s \in Request \ {r} : pc'[s] = pc[s]
        /\ pc'[r] \in {"seed", "ok"} /\ (pc'[r] = "seed" => table = {})
    BY <1>7 DEF TypeOK, Count
  <2>2. \A s \in Request : InFlight(s) => s = r
    BY <1>7 DEF Count
  <2>3. CacheCurrent'
    BY <2>1 DEF ActiveRows, Seeded, NewRow
  <2> QED
    BY <2>1, <2>2, <2>3 DEF InFlight, Answered, ActiveRows
<1>8. ASSUME NEW r \in Request, SaveDefaults(r) PROVE QuietInv'
  <2>1. \A s \in Request \ {r} : pc'[s] = pc[s] /\ pc[s] \in {"new"} \cup Answered
    BY <1>8 DEF TypeOK, SaveDefaults, InFlight, Answered
  <2>2. pc'[r] = "ok" /\ table = {} /\ table' = Seeded(r) /\ UNCHANGED memory
    BY <1>8 DEF TypeOK, SaveDefaults
  <2>3. Usable => cache = {}
    BY <2>2 DEF ActiveRows
  <2>4. Seeded(r)' = Seeded(r)
    BY DEF Seeded, NewRow
  <2>5. CacheCurrent'
    BY <2>2, <2>3, <2>4
  <2> QED
    BY <2>1, <2>2, <2>5 DEF Answered
<1>9. ASSUME NEW r \in Request, Fail(r) \/ Again(r) PROVE QuietInv'
  <2>1. /\ UNCHANGED <<table, memory, fetched>>
        /\ \A s \in Request \ {r} : pc'[s] = pc[s]
        /\ pc'[r] \in {"error", "new"}
    BY <1>9 DEF TypeOK, Fail, Again
  <2> QED
    BY <2>1 DEF InFlight, Answered, ActiveRows
<1>10. CASE Expire
  BY <1>10 DEF Expire, InFlight, ActiveRows
<1>11. CASE Restart
  <2>1. \A s \in Request : pc'[s] \in {"new"} \cup Answered
    BY <1>11 DEF TypeOK, Restart, InFlight, Answered
  <2> QED
    BY <1>11, <2>1 DEF Restart, Invalidate, Answered
<1>12. CASE UNCHANGED vars
  BY <1>12 DEF vars, InFlight, ActiveRows
<1> QED
  BY <1>1, <1>2, <1>3, <1>4, <1>5, <1>6, <1>7, <1>8, <1>9, <1>10, <1>11, <1>12
  DEF Next, Accept, Serve, Rest

LEMMA QuietInit == Init => QuietInv
BY DEF Init, QuietInv, CacheCurrent, Usable

\* If rules are changed and seeded only while nothing else runs, a change is
\* alone and has dropped the list, and defaults go into an empty table only.
THEOREM Quiet == ASSUME Discipline = "quiet" PROVE Spec => []QuietInv
<1>1. Inv /\ QuietInv /\ [Next]_vars => QuietInv'
  BY QuietNext
<1> QED
  BY InvHolds, QuietInit, <1>1, PTL DEF Spec

\* Then a list calculate may answer from holds the rules in force, for every
\* history of changes, failures and restarts, except that it may be the empty
\* list of a table that was seeded since.
THEOREM CacheCoherent == ASSUME Discipline = "quiet" PROVE Spec => []CacheCurrent
<1>1. QuietInv => CacheCurrent
  BY DEF QuietInv
<1> QED
  BY Quiet, <1>1, PTL

-----------------------------------------------------------------------------
(* The defaults. *)

LEMMA SeedNext ==
    ASSUME \A j \in Job : j.kind = "upsert" => j.rule \notin Defaults,
           Inv, QuietInv, SeededOnce, [Next]_vars
    PROVE  SeededOnce'
<1> USE DEF Goto, At, Inv
<1>1. ASSUME NEW r \in Request, Insert(r) PROVE SeededOnce'
  <2>1. job[r].rule \notin Defaults
    BY <1>1 DEF Insert, ControlInv, TypeOK
  <2>2. NewRow(r, job[r].rule).rule \notin Defaults
    BY <2>1 DEF NewRow
  <2>3. table' = table \cup {NewRow(r, job[r].rule)}
    BY <1>1 DEF Insert
  <2> QED
    BY <2>2, <2>3 DEF SeededOnce
<1>2. ASSUME NEW r \in Request, Update(r) PROVE SeededOnce'
  <2> DEFINE dropped(x) == IF x.by = job[r].by /\ x.rule = job[r].rule
                           THEN [x EXCEPT !.active = FALSE] ELSE x
  <2>1. table' = {dropped(x) : x \in table}
    BY <1>2 DEF Update
  <2>2. \A x \in table : dropped(x).rule = x.rule
    BY DEF TypeOK, Row
  <2> HIDE DEF dropped
  <2> QED
    BY <2>1, <2>2 DEF SeededOnce
<1>3. ASSUME NEW r \in Request, SaveDefaults(r) PROVE SeededOnce'
  <2>1. table' = {NewRow(r, rule) : rule \in Defaults}
    BY <1>3 DEF SaveDefaults, Seeded, QuietInv
  <2>2. \A rule \in Defaults : NewRow(r, rule).rule = rule
    BY DEF NewRow
  <2> QED
    BY <2>1, <2>2 DEF SeededOnce
<1>4. CASE UNCHANGED table
  BY <1>4 DEF SeededOnce
<1> QED
  BY <1>1, <1>2, <1>3, <1>4
  DEF Next, Accept, Serve, Rest, vars, CalculateCached, CalculateUncached, Select, Receive, Upsert,
      Deactivate, SeedDefaults, Count, Fail, Again, Expire, Restart

\* If changes and seedings are alone, and nobody enters a rule equal to a default
\* by hand, a default is in the table once, however often the defaults are seeded
\* and whatever fails or restarts; overlapping seedings would insert it twice.
THEOREM Seeding ==
    ASSUME Discipline = "quiet", \A j \in Job : j.kind = "upsert" => j.rule \notin Defaults
    PROVE  Spec => []SeededOnce
<1>1. Init => SeededOnce
  <2> SUFFICES ASSUME Init PROVE SeededOnce
    OBVIOUS
  <2>1. PICK rules \in InitialTables : table = {NewRow(Founder, rule) : rule \in rules}
    BY DEF Init
  <2>2. \A rule \in rules : NewRow(Founder, rule).rule = rule
    BY DEF NewRow
  <2> QED
    BY <2>1, <2>2 DEF SeededOnce
<1>2. Inv /\ QuietInv /\ SeededOnce /\ [Next]_vars => SeededOnce'
  BY SeedNext
<1> QED
  BY InvHolds, Quiet, <1>1, <1>2, PTL DEF Spec
=============================================================================
